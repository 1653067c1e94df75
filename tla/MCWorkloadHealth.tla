-------------------------- MODULE MCWorkloadHealth --------------------------
(* Instances of WorkloadHealth for TLC. *)
EXTENDS WorkloadHealth

CONSTANTS web, api

MCOne == {web}
MCTwo == {web, api}
MCProbed == {web}
MCNone == {}
=============================================================================
