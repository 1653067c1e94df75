------------------------------ MODULE MCOutbox ------------------------------
(***************************************************************************)
(* Outbox with its bounds given by the configurations.  Results are        *)
(* numbered and ordered, the goroutines play different parts: there is no  *)
(* symmetry to use.                                                        *)
(***************************************************************************)
EXTENDS Outbox
=============================================================================
