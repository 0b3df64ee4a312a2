--------------------------- MODULE MCEntryMerger ---------------------------
(***************************************************************************)
(* EntryMerger for TLC: three functions, two of which share a boundary     *)
(* (DW_AT_high_pc is one past the last instruction, and the lookup takes   *)
(* both bounds as inside), every trace up to MaxAny elements, and the      *)
(* longer traces that nested executions need, of stores, returns and       *)
(* writes in the first two functions.                                      *)
(***************************************************************************)
EXTENDS EntryMerger, SequencesExt

CONSTANTS
    MaxAny,     \* bound: elements of a trace of any elements
    MaxCore     \* bound: elements of a trace of core elements

MCPcs == {2, 3, 4, 6, 9}
MCSubprograms ==
    << [name |-> "f", low |-> 1, high |-> 3],
       [name |-> "g", low |-> 3, high |-> 5],
       [name |-> "h", low |-> 6, high |-> 8] >>

Snapshot(i, p) == [kind |-> "snapshot", pc |-> p, instruction |-> i]

\* Stores and returns in f, on the boundary, in g and in h; a store outside
\* all of them; an instruction that is neither; accesses.
MCElements ==
    { Snapshot("sw", 2), Snapshot("cswsp", 4), Snapshot("sw", 6), Snapshot("sw", 9),
      Snapshot("cjr", 2), Snapshot("cjr", 3), Snapshot("jalr", 4), Snapshot("cjr", 4),
      Snapshot("cjr", 6),
      [kind |-> "dwrite", pc |-> 4], [kind |-> "dread", pc |-> 2] }

CoreElements ==
    { Snapshot("sw", 2), Snapshot("cswsp", 4), Snapshot("cjr", 2), Snapshot("cjr", 4),
      [kind |-> "dwrite", pc |-> 4] }

MCTraces == BoundedSeq(MCElements, MaxAny) \cup BoundedSeq(CoreElements, MaxCore)
=============================================================================
