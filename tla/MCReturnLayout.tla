--------------------------- MODULE MCReturnLayout ---------------------------
(***************************************************************************)
(* ReturnLayout for TLC: members of every kind, and bit-fields of the      *)
(* widths around the boundaries of their units.                            *)
(***************************************************************************)
EXTENDS ReturnLayout

Member(type, size, bits) == [type |-> type, size |-> size, bits |-> bits]

\* `wchar' stands for a name the mapper does not know.
MCMembers ==
    { Member("char", 1, 0), Member("short int", 2, 0), Member("int", 4, 0),
      Member("long long int", 8, 0), Member("long double", 16, 0),
      Member("float", 4, 0), Member("double", 8, 0),
      Member("char", 1, 1), Member("char", 1, 7), Member("char", 1, 8),
      Member("short int", 2, 15), Member("int", 4, 17), Member("int", 4, 32),
      Member("long long int", 8, 40), Member("wchar", 4, 4),
      Member("other", 4, 0) }
=============================================================================
