--------------------------- MODULE MCReminderQueue ---------------------------
(* Finite instances of ReminderQueue for TLC.                              *)
EXTENDS ReminderQueue, TLC

Interchangeable == Permutations(Workers) \cup Permutations(Jobs) \cup Permutations(Searches)
=============================================================================
