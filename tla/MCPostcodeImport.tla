-------------------------- MODULE MCPostcodeImport --------------------------
(* Archives for TLC: two that differ, one they do not meet, and two that   *)
(* the import refuses.                                                     *)
EXTENDS PostcodeImport, TLC

Samples ==
    {[rows |-> {0, 1, 2}, good |-> TRUE],
     [rows |-> {1, 3}, good |-> TRUE],
     [rows |-> {4}, good |-> TRUE],
     [rows |-> {0, 1}, good |-> FALSE],
     [rows |-> {}, good |-> TRUE]}

Interchangeable == Permutations(Importers)
=============================================================================
