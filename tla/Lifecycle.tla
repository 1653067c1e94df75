----------------------------- MODULE Lifecycle ------------------------------
(***************************************************************************)
(* All tasks that change one instance together: Execute of internal/       *)
(* executor/systemd_podman.go hands each task that the agent claims to its *)
(* handler, one at a time, whatever the tasks before it were and however   *)
(* they ended.  Those that make and remove the instance are Provision's,   *)
(* the others Update's; they share the node of Workload.                   *)
(*                                                                         *)
(* Update comes with what is proved of it, as the proofs about this module *)
(* (in Provision_proofs) rest on it.                                       *)
(***************************************************************************)
EXTENDS Provision

CONSTANT DataServices   \* the services that have a volume

VARIABLES
  paused,      \* Update: frozen containers
  vol,         \* Update: the volumes, as the latest restore left them
  work         \* the executor and its helper, in a task of Update

U == INSTANCE Update_proofs WITH exec <- work

everything == <<vars, paused, vol, work>>

LifecycleInit ==
  /\ Init
  /\ paused = {} /\ vol = [c \in DataServices |-> "kept"]
  /\ work \in U!Exec /\ U!At("idle")

(* Containers that are removed or restarted are no longer frozen.          *)
Making ==
  /\ U!At("idle")
  /\ Next
  /\ paused' \in SUBSET {k \in paused : pod'[k] # None}
  /\ UNCHANGED <<vol, work>>

(* Rendering makes the instance directory first; a start creates secrets   *)
(* after it.  Setup and its record are no concern of these tasks.          *)
Keeping ==
  /\ At("idle")
  /\ U!Next
  /\ data' = Volumes
  /\ dir' \in {dir} \cup (IF U!At("render") THEN {TRUE} ELSE {})
  /\ files' # files => dir'
  /\ secrets' \in {secrets} \cup
       (IF U!At("render") /\ files' = Rendered(work.payload) THEN {TRUE} ELSE {})
  /\ UNCHANGED <<marker, known, exec, late>>

LifecycleSpec == LifecycleInit /\ [][Making \/ Keeping]_everything
=============================================================================
