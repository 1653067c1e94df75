---------------------------- MODULE MCTaskClaim -----------------------------
(* Instances of TaskClaim for TLC. *)
EXTENDS TaskClaim
=============================================================================
