------------------------------ MODULE Workload ------------------------------
(***************************************************************************)
(* One application instance on its node, as the executor's tasks find and  *)
(* change it: the Quadlet files that internal/quadlet/renderer.go writes   *)
(* and removes, the units systemd has generated from them, and the pod     *)
(* with its containers.  internal/systemd/manager.go and internal/podman/  *)
(* inspector.go carry the commands out as subprocesses under a time limit, *)
(* so a command that fails may still have had its effect.                  *)
(*                                                                         *)
(* There is a .pod file and a .container file per service.  Each file,     *)
(* unit and container is known by the task payload it was made from.       *)
(***************************************************************************)
EXTENDS Naturals

CONSTANTS
  Container,     \* services of the application
  Version,       \* task payloads the instance may be rendered from
  None,          \* no file, no unit, no container
  MaxRestarts    \* bound: restarts of the user manager in a behaviour

ASSUME WorkloadAssumption ==
  None \notin Version /\ "pod" \notin Container /\ MaxRestarts \in Nat

Kind == Container \cup {"pod"}
Files == [Kind -> Version \cup {None}]
Absent == [k \in Kind |-> None]

VARIABLES
  files,       \* the Quadlet directory
  units,       \* what the last daemon-reload found there
  pod,         \* the pod (its infra container) and its containers
  restarts     \* restarts of the user manager so far

node == <<files, units, pod, restarts>>

NodeTypeOK ==
  /\ files \in Files /\ units \in Files /\ pod \in Files
  /\ restarts \in 0 .. MaxRestarts

(* What tasks may rely on and leave: nothing is there without its pod's.   *)
Rooted(thing) == thing["pod"] = None => thing = Absent
Sound == NodeTypeOK /\ Rooted(files) /\ Rooted(units) /\ Rooted(pod)

-----------------------------------------------------------------------------
(* Quadlet files.  The .pod file is written first and removed last.        *)

Rendered(v) == [k \in Kind |-> v]

RenderPartly(v) ==
  \E S \in SUBSET Container :
    files' = [k \in Kind |-> IF k = "pod" \/ k \in S THEN v ELSE files[k]]

RemovePartly ==
  \E S \in SUBSET Container :
    files' = [k \in Kind |-> IF k \in S THEN None ELSE files[k]]

-----------------------------------------------------------------------------
(* systemctl --user                                                        *)

DaemonReload == units' = files

DaemonReloadFails == units' \in {units, files}

(* startRootless: a unit that is not known is looked for once more.        *)
Loaded == IF units["pod"] = None THEN files ELSE units

(* Starting the pod unit brings up what is missing of the pod and leaves   *)
(* what is there.                                                          *)
Started == [k \in Kind |-> IF pod[k] = None THEN Loaded[k] ELSE pod[k]]

Start == Loaded["pod"] # None /\ units' = Loaded /\ pod' = Started

StartFails == UNCHANGED <<units, pod>> \/ Start

(* Stopping the pod unit removes the pod with its containers.              *)
Missing == units["pod"] = None /\ pod = Absent

Stop == ~Missing /\ pod' = Absent

StopFails == pod' \in {pod, Absent}

(* The user manager is restarted: units are generated anew and the pod is  *)
(* started, being wanted by default.target - or fails to.                  *)
ManagerRestart ==
  /\ restarts < MaxRestarts
  /\ restarts' = restarts + 1
  /\ DaemonReload
  /\ pod' \in {files, Absent}
  /\ UNCHANGED files
=============================================================================
