---------------------------- MODULE Verification ----------------------------
(***************************************************************************)
(* VerificationStage and the loop around it (__main__.verify_entries): the *)
(* entries of the golden reference and of the unit under verification,     *)
(* compared pair by pair.                                                  *)
(*                                                                         *)
(* The comparisons of prologues, epilogues and formal parameters are       *)
(* switched off in the code (expanded_pipeline = False).                   *)
(***************************************************************************)
EXTENDS ReturnValue

VARIABLES
    collections,     \* the two collections: sequences of groups of entries
    idx_0, idx_1,    \* the loop variables: group, and entry in the group
    verification_entries,   \* one record per comparison
    counters,        \* entries_compared_counter, entries_with_failures_counter
    verifying        \* "idle", "verifying", "verified" or "raised"

verifyVars == <<collections, idx_0, idx_1, verification_entries, counters, verifying>>

Gr == 1
Uv == 2

NothingVerified ==
    /\ collections = <<<< >>, << >>>> /\ idx_0 = 1 /\ idx_1 = 1
    /\ verification_entries = << >>
    /\ counters = [compared |-> 0, failed |-> 0]
    /\ verifying = "idle"

StartVerifying(c) ==
    /\ verifying = "idle"
    /\ collections' = c /\ verifying' = "verifying"
    /\ UNCHANGED <<idx_0, idx_1, verification_entries, counters>>

-----------------------------------------------------------------------------
\* The parts written of each variable, in address order: the k-th is the one
\* with k - 1 others below it.
PartsOf(writes, name) == { p \in DOMAIN writes : p[1] = name }
Below(writes, p, q) ==
    \/ writes[p].location.address < writes[q].location.address
    \/ writes[p].location.address = writes[q].location.address /\ p[2] < q[2]
AtRank(writes, name, k) ==
    { q \in PartsOf(writes, name) :
        Cardinality({ p \in PartsOf(writes, name) : Below(writes, p, q) }) = k - 1 }
Pieces(writes, name) ==
    [k \in 1 .. Cardinality(PartsOf(writes, name)) |->
        writes[CHOOSE q \in AtRank(writes, name, k) : TRUE].data]
normalize_variable_data(writes) ==
    [name \in { p[1] : p \in DOMAIN writes } |-> FlattenSeq(Pieces(writes, name))]

\* As many parts on both sides, but not the same ones: the lookup of the
\* other side's part raises (KeyError).
GlobalsRaise(gr, uv) ==
    /\ Cardinality(DOMAIN gr) = Cardinality(DOMAIN uv)
    /\ DOMAIN gr # DOMAIN uv

\* Mutant: the writes are compared with their locations.
WritesDiffer(gr, uv) == gr # uv

\* Mutant: what one side did not write is not compared.
CommonPartsDiffer(gr, uv) ==
    \E p \in DOMAIN gr \cap DOMAIN uv : gr[p].data # uv[p].data

GlobalsDiffer(gr, uv) ==
    IF Cardinality(DOMAIN gr) = Cardinality(DOMAIN uv)
    THEN \E p \in DOMAIN gr : gr[p].data # uv[p].data
    ELSE LET golden_ref_data == normalize_variable_data(gr)
             isuv_data == normalize_variable_data(uv)
         IN \E name \in DOMAIN golden_ref_data :
               \/ name \notin DOMAIN isuv_data
               \/ golden_ref_data[name] # isuv_data[name]

compare_global_variable_values(gr, uv) ==
    CASE DOMAIN gr = {} /\ DOMAIN uv = {}  -> "NA"
      [] GlobalsDiffer(gr, uv)             -> "FAIL"
      [] OTHER                             -> "OK"

\* Both sides are read with the type the golden reference gives the function.
compare_return_values(e_gr, e_uv) ==
    LET type == e_gr.return_type
        gr == fetch_return_value(e_gr, type)
        uv == fetch_return_value(e_uv, type)
    IN CASE type.class = "None"             -> "NA"
         [] ~ (gr.known /\ uv.known)        -> "NA"
         [] gr.known /\ uv.known /\ Differ(gr, uv) -> "FAIL"
         [] OTHER                           -> "OK"

LastWrites(e) == get_last_writes_to_global_var_locations(e.global_variables, e.dwrites)

CompareRaises(e_gr, e_uv) ==
    \/ GlobalsRaise(LastWrites(e_gr), LastWrites(e_uv))
    \/ FetchRaises(e_gr, e_gr.return_type)
    \/ FetchRaises(e_uv, e_gr.return_type)

VerificationEntry(e_gr, e_uv) ==
    LET globals == compare_global_variable_values(LastWrites(e_gr), LastWrites(e_uv))
        rv == compare_return_values(e_gr, e_uv)
    IN [at |-> <<idx_0, idx_1>>, global_vars |-> globals, return_value |-> rv,
        contains_failures |-> globals = "FAIL" \/ rv = "FAIL"]

-----------------------------------------------------------------------------
SameNumberOfGroups == Len(collections[Gr]) = Len(collections[Uv])
InGroups == idx_0 \in DOMAIN collections[Gr]
SameSizeOfGroup == Len(collections[Gr][idx_0]) = Len(collections[Uv][idx_0])
InGroup == idx_1 \in DOMAIN collections[Gr][idx_0]
Comparing ==
    /\ verifying = "verifying"
    /\ SameNumberOfGroups /\ InGroups /\ SameSizeOfGroup
Pair == <<collections[Gr][idx_0][idx_1], collections[Uv][idx_0][idx_1]>>

compare_entries ==
    /\ Comparing /\ InGroup
    /\ ~ CompareRaises(Pair[1], Pair[2])
    /\ LET e == VerificationEntry(Pair[1], Pair[2])
       IN /\ verification_entries' = Append(verification_entries, e)
          /\ counters' = [compared |-> counters.compared + 1,
                          failed |-> counters.failed + IF e.contains_failures THEN 1 ELSE 0]
    /\ idx_1' = idx_1 + 1
    /\ UNCHANGED <<collections, idx_0, verifying>>

\* Mutant: the inner loop goes on where it was.
NextGroupFromThere ==
    /\ Comparing /\ ~ InGroup
    /\ idx_0' = idx_0 + 1
    /\ UNCHANGED <<idx_1, collections, verification_entries, counters, verifying>>

NextGroup ==
    /\ Comparing /\ ~ InGroup
    /\ idx_0' = idx_0 + 1
    /\ idx_1' = 1
    /\ UNCHANGED <<collections, verification_entries, counters, verifying>>

VerifyRaises ==
    /\ verifying = "verifying"
    /\ \/ ~ SameNumberOfGroups
       \/ SameNumberOfGroups /\ InGroups /\ ~ SameSizeOfGroup
       \/ Comparing /\ InGroup /\ CompareRaises(Pair[1], Pair[2])
    /\ verifying' = "raised"
    /\ UNCHANGED <<collections, idx_0, idx_1, verification_entries, counters>>

Summarise ==
    /\ verifying = "verifying"
    /\ SameNumberOfGroups /\ ~ InGroups
    /\ verifying' = "verified"
    /\ UNCHANGED <<collections, idx_0, idx_1, verification_entries, counters>>

VerifyNext == compare_entries \/ NextGroup \/ VerifyRaises \/ Summarise

-----------------------------------------------------------------------------
Before(p, q) == p[1] < q[1] \/ (p[1] = q[1] /\ p[2] < q[2])
Here == <<idx_0, idx_1>>

\* The pairs that have been compared are those before the loop's position,
\* each once and in order.
EachOnceInOrder ==
    \A k \in DOMAIN verification_entries :
        LET at == verification_entries[k].at
        IN /\ Before(at, Here)
           /\ at[1] \in DOMAIN collections[Gr] /\ at[2] \in DOMAIN collections[Gr][at[1]]
           /\ \A j \in 1 .. (k - 1) : Before(verification_entries[j].at, at)
NoneLeftOut ==
    \A g \in DOMAIN collections[Gr] : \A i \in DOMAIN collections[Gr][g] :
        Before(<<g, i>>, Here) => \E k \in DOMAIN verification_entries :
                                      verification_entries[k].at = <<g, i>>

SameShape ==
    /\ SameNumberOfGroups
    /\ \A g \in DOMAIN collections[Gr] : Len(collections[Gr][g]) = Len(collections[Uv][g])

FailedEntries ==
    { k \in DOMAIN verification_entries :
        "FAIL" \in {verification_entries[k].global_vars, verification_entries[k].return_value} }

\* The summary speaks of every call of both traces: it is reached only with
\* collections of the same shape, after each entry has met the one in its
\* place, and the calls it counts as failed are those with a failed section
\* (verify_entries, compare_entries, VerificationEntry).
EachPairCompared ==
    /\ counters.compared = Len(verification_entries)
    /\ counters.failed = Cardinality(FailedEntries)
    /\ EachOnceInOrder
    /\ NoneLeftOut
    /\ verifying = "verified" =>
          /\ SameShape
          /\ \A g \in DOMAIN collections[Gr] : \A i \in DOMAIN collections[Gr][g] :
                Before(<<g, i>>, Here)
=============================================================================
