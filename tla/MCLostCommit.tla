---------------------------- MODULE MCLostCommit ----------------------------
(* Finite instances of LostCommit for TLC. *)
EXTENDS LostCommit, MCSubscriptions

LossySpecActive == InitActive /\ [][LossyNext]_vars
=============================================================================
