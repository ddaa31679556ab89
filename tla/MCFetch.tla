------------------------------- MODULE MCFetch -------------------------------
(* Statuses for TLC: one of every class, and both ends of the permanent one. *)
EXTENDS Fetch

Samples == {200, 304, 400, 404, 499, 500}
=============================================================================
