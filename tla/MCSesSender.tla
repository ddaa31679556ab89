----------------------------- MODULE MCSesSender -----------------------------
(* The instance of SesSender that TLC checks.                              *)
EXTENDS SesSender
=============================================================================
