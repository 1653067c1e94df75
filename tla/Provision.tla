----------------------------- MODULE Provision ------------------------------
(***************************************************************************)
(* Provisioning and removing an instance:                                  *)
(* internal/executor/executor_provision.go (provision, runSetupCommands,   *)
(* failProvisionReadiness) and executor_deprovision.go (deprovision), with *)
(* stop of executor_lifecycle.go, on an application with a setup command.  *)
(*                                                                         *)
(* One task runs at a time, step by step.  A step may fail, with or        *)
(* without its effect; the process may die between two steps; the user     *)
(* manager may be restarted at any time; admirald sends any task at any    *)
(* time, learns of a result or does not, and tells Fleet in the task       *)
(* whether it knows the setup to be done.                                  *)
(***************************************************************************)
EXTENDS Workload

VARIABLES
  data,        \* the volumes: absent, fresh, set up, set up and marked so
  secrets,     \* Podman secrets exist
  dir,         \* the instance directory: ports.json, tier.json, ...
  marker,      \* ... and setup_done
  known,       \* admirald: customer_apps.setup_completed
  exec,        \* the executor
  late         \* history: the manager was restarted during a removal

instance == <<data, secrets, dir, marker>>
vars == <<node, instance, known, exec, late>>

Data == {"none", "fresh", "setup", "marked"}
Task == {"provision", "deprovision", "stop"}
Removal == {"stop", "pods", "volumes", "unsecret", "files", "unload", "rmdir"}
Pc == {"idle", "exists", "prepare", "render", "secrets", "reload", "start",
       "setup", "run", "restart", "mark", "ready", "halt"} \cup Removal
Result == {"none", "success", "failure", "cleaned"}

TypeOK ==
  /\ NodeTypeOK
  /\ data \in Data /\ secrets \in BOOLEAN /\ dir \in BOOLEAN
  /\ marker \in BOOLEAN /\ known \in BOOLEAN /\ late \in BOOLEAN
  /\ exec \in [task : Task, payload : Version, completed : BOOLEAN,
               pc : Pc, failed : BOOLEAN, result : Result,
               found : BOOLEAN]  \* history: the task began with a
                                  \* pod and marked data
  /\ exec.failed => exec.result \in {"none", "failure"}

Init ==
  /\ files = Absent /\ units = Absent /\ pod = Absent /\ restarts = 0
  /\ data = "none" /\ secrets = FALSE /\ dir = FALSE /\ marker = FALSE
  /\ known = FALSE /\ late = FALSE
  /\ \E v \in Version :
       exec = [task |-> "stop", payload |-> v, completed |-> FALSE,
               pc |-> "idle", failed |-> FALSE, result |-> "none",
               found |-> FALSE]

At(pc) == exec.pc = pc
GoTo(pc) == exec' = [exec EXCEPT !.pc = pc]
Return(result) == exec' = [exec EXCEPT !.pc = "idle", !.result = result]

(* A task begins; it carries what admirald knew of the setup, perhaps not  *)
(* the latest.                                                             *)
Begin(task) ==
  /\ At("idle")
  /\ \E v \in Version, completed \in {FALSE, known} :
       exec' = [task |-> task, payload |-> v, completed |-> completed,
                pc |-> CASE task = "provision"   -> "exists"
                         [] task = "deprovision" -> "stop"
                         [] task = "stop"        -> "halt",
                failed |-> FALSE, result |-> "none",
                found |-> pod # Absent /\ data = "marked"]
  /\ UNCHANGED <<node, instance, known, late>>

-----------------------------------------------------------------------------
(* provision                                                               *)

(* admirald takes note of has_setup, if it gets the result.                *)
ReportSetup == known' \in {known, TRUE}

(* The pod exists: the instance counts as provisioned.                     *)
PodExists ==
  /\ At("exists")
  /\ pod # Absent
  /\ Return("success")
  /\ IF exec.completed \/ marker THEN ReportSetup ELSE UNCHANGED known
  /\ UNCHANGED <<node, instance, late>>

(* No pod, or Podman does not answer.                                      *)
PodUnknown ==
  /\ At("exists")
  /\ GoTo("prepare")
  /\ UNCHANGED <<node, instance, known, late>>

(* Host ports, health checks and tier.json are written.                    *)
Prepare ==
  /\ At("prepare")
  /\ dir' = TRUE
  /\ GoTo("render")
  /\ UNCHANGED <<node, data, secrets, marker, known, late>>

RenderFiles ==
  /\ At("render")
  /\ files' = Rendered(exec.payload)
  /\ GoTo("secrets")
  /\ UNCHANGED <<units, pod, restarts, instance, known, late>>

CreateSecrets ==
  /\ At("secrets")
  /\ secrets' = TRUE
  /\ GoTo("reload")
  /\ UNCHANGED <<node, data, dir, marker, known, late>>

(* daemon-reload, then the logins to the registries.                       *)
Reload ==
  /\ At("reload")
  /\ DaemonReload
  /\ GoTo("start")
  /\ UNCHANGED <<files, pod, restarts, instance, known, late>>

(* A pod that comes up finds its volumes or creates them.                  *)
Volumes == IF pod' # Absent /\ data = "none" THEN "fresh" ELSE data

StartPod ==
  /\ At("start")
  /\ Start
  /\ data' = Volumes
  /\ GoTo("setup")
  /\ UNCHANGED <<files, restarts, secrets, dir, marker, known, late>>

(* Wrong variant: only admirald is asked.                                  *)
DecideSetupByRecord ==
  /\ At("setup")
  /\ GoTo(IF exec.completed THEN "ready" ELSE "run")
  /\ UNCHANGED <<node, instance, known, late>>

(* The setup is skipped when admirald or the marker says it was done.      *)
DecideSetup ==
  /\ At("setup")
  /\ GoTo(IF exec.completed \/ marker THEN "ready" ELSE "run")
  /\ UNCHANGED <<node, instance, known, late>>

Complete == \A c \in Container : pod[c] # None

(* The services come up and the setup commands succeed in the pod.         *)
RunSetup ==
  /\ At("run")
  /\ Complete
  /\ data' = "setup"
  /\ GoTo("restart")
  /\ UNCHANGED <<node, secrets, dir, marker, known, late>>

RestartPod ==
  /\ At("restart")
  /\ units["pod"] # None
  /\ pod' = units
  /\ data' = Volumes
  /\ GoTo("mark")
  /\ UNCHANGED <<files, units, restarts, secrets, dir, marker, known, late>>

(* writeSetupMarker keeps its errors to itself.                            *)
Mark ==
  /\ At("mark")
  /\ \/ marker' = TRUE /\ data' = IF data = "setup" THEN "marked" ELSE data
     \/ UNCHANGED <<marker, data>>
  /\ GoTo("ready")
  /\ UNCHANGED <<node, secrets, dir, known, late>>

(* Every service is up and passes its check.                               *)
Ready ==
  /\ At("ready")
  /\ Complete
  /\ Return("success")
  /\ ReportSetup
  /\ UNCHANGED <<node, instance, late>>

(* failProvisionReadiness: the instance is deprovisioned.                  *)
NotReady ==
  /\ At("ready")
  /\ GoTo("stop")
  /\ UNCHANGED <<node, instance, known, late>>

(* A step fails and provision returns; what it did so far stays.           *)
ProvisionFails ==
  /\ \/ At("exists") /\ pod # Absent /\ UNCHANGED <<node, instance>>
     \/ /\ At("prepare")
        /\ dir' \in {dir, TRUE}
        /\ UNCHANGED <<node, data, secrets, marker>>
     \/ /\ At("render")
        /\ UNCHANGED files \/ RenderPartly(exec.payload)
        /\ UNCHANGED <<units, pod, restarts, instance>>
     \/ /\ At("secrets")
        /\ secrets' \in {secrets, TRUE}
        /\ UNCHANGED <<node, data, dir, marker>>
     \/ /\ At("reload")
        /\ DaemonReloadFails
        /\ UNCHANGED <<files, pod, restarts, instance>>
     \/ /\ At("start")
        /\ StartFails
        /\ data' = Volumes
        /\ UNCHANGED <<files, restarts, secrets, dir, marker>>
     \/ /\ At("run")
        /\ data' \in {data} \cup (IF Complete THEN {"setup"} ELSE {})
        /\ UNCHANGED <<node, secrets, dir, marker>>
     \/ /\ At("restart")
        /\ pod' \in {pod, Absent, units}
        /\ data' = Volumes
        /\ UNCHANGED <<files, units, restarts, secrets, dir, marker>>
  /\ Return("failure")
  /\ UNCHANGED <<known, late>>

-----------------------------------------------------------------------------
(* deprovision, also as the cleanup of provision                           *)

(* Errors are collected and do not end the cleanup of the runtime.         *)
Fail(pc) == exec' = [exec EXCEPT !.pc = pc, !.failed = TRUE]

(* Wrong variant: an instance without a unit counts as removed.            *)
StopUnitsOrDone ==
  /\ At("stop")
  /\ \/ Stop /\ GoTo("pods")
     \/ Missing /\ UNCHANGED pod /\ Return("success")
  /\ UNCHANGED <<files, units, restarts, instance, known, late>>

(* stop and disable; a unit systemd does not know is no error.             *)
StopUnits ==
  /\ At("stop")
  /\ Stop \/ (Missing /\ UNCHANGED pod)
  /\ GoTo("pods")
  /\ UNCHANGED <<files, units, restarts, instance, known, late>>

(* A unit that was not stopped may bring its pod back.                     *)
RemovePod ==
  /\ At("pods")
  /\ pod' \in {Absent} \cup (IF exec.failed THEN {pod} ELSE {})
  /\ GoTo("volumes")
  /\ UNCHANGED <<files, units, restarts, instance, known, late>>

RemoveVolumes ==
  /\ At("volumes")
  /\ data' = "none"
  /\ GoTo("unsecret")
  /\ UNCHANGED <<node, secrets, dir, marker, known, late>>

(* Wrong variant: what the cleanup collected is not looked at.             *)
RemoveSecretsAndGoOn ==
  /\ At("unsecret")
  /\ secrets' = FALSE
  /\ GoTo("files")
  /\ UNCHANGED <<node, data, dir, marker, known, late>>

(* After an error the files are kept, for another try.                     *)
RemoveSecrets ==
  /\ At("unsecret")
  /\ secrets' = FALSE
  /\ IF exec.failed THEN Return("failure") ELSE GoTo("files")
  /\ UNCHANGED <<node, data, dir, marker, known, late>>

RemoveFiles ==
  /\ At("files")
  /\ files' = Absent
  /\ GoTo("unload")
  /\ UNCHANGED <<units, pod, restarts, instance, known, late>>

Unload ==
  /\ At("unload")
  /\ DaemonReload
  /\ GoTo("rmdir")
  /\ UNCHANGED <<files, pod, restarts, instance, known, late>>

RemoveDir ==
  /\ At("rmdir")
  /\ dir' = FALSE
  /\ marker' = FALSE
  /\ known' \in {known, FALSE}
  /\ Return(IF exec.task = "provision" THEN "cleaned" ELSE "success")
  /\ UNCHANGED <<node, data, secrets, late>>

StopUnitsFails ==
  /\ At("stop")
  /\ StopFails
  /\ Fail("pods")
  /\ UNCHANGED <<files, units, restarts, instance, known, late>>

RemovePodFails ==
  /\ At("pods")
  /\ StopFails
  /\ Fail("volumes")
  /\ UNCHANGED <<files, units, restarts, instance, known, late>>

(* Wrong variant: the error is not collected.                              *)
RemoveVolumesFailsUnseen ==
  /\ At("volumes")
  /\ GoTo("unsecret")
  /\ UNCHANGED <<node, instance, known, late>>

RemoveVolumesFails ==
  /\ At("volumes")
  /\ data' \in {data, "none"}
  /\ Fail("unsecret")
  /\ UNCHANGED <<node, secrets, dir, marker, known, late>>

(* Wrong variant: the error is not collected.                              *)
RemoveSecretsFailsUnseen ==
  /\ At("unsecret")
  /\ IF exec.failed THEN Return("failure") ELSE GoTo("files")
  /\ UNCHANGED <<node, instance, known, late>>

RemoveSecretsFails ==
  /\ At("unsecret")
  /\ secrets' \in {secrets, FALSE}
  /\ Return("failure")
  /\ UNCHANGED <<node, data, dir, marker, known, late>>

RemoveFilesFails ==
  /\ At("files")
  /\ RemovePartly
  /\ Return("failure")
  /\ UNCHANGED <<units, pod, restarts, instance, known, late>>

UnloadFails ==
  /\ At("unload")
  /\ DaemonReloadFails
  /\ Return("failure")
  /\ UNCHANGED <<files, pod, restarts, instance, known, late>>

RemoveDirFails ==
  /\ At("rmdir")
  /\ marker' \in {marker, FALSE}
  /\ Return("failure")
  /\ UNCHANGED <<node, data, secrets, dir, known, late>>

-----------------------------------------------------------------------------
(* stop, crashes, and the user manager                                     *)

HaltPod ==
  /\ At("halt")
  /\ \/ Stop /\ Return("success")
     \/ StopFails /\ Return("failure")
  /\ UNCHANGED <<files, units, restarts, instance, known, late>>

Crash ==
  /\ ~At("idle")
  /\ Return("none")
  /\ UNCHANGED <<node, instance, known, late>>

Restarted ==
  /\ ManagerRestart
  /\ data' = Volumes
  /\ late' = (late \/ exec.pc \in Removal)
  /\ UNCHANGED <<secrets, dir, marker, known, exec>>

Provisioning ==
  \/ PodExists \/ PodUnknown \/ Prepare \/ RenderFiles \/ CreateSecrets
  \/ Reload \/ StartPod \/ DecideSetup \/ RunSetup \/ RestartPod \/ Mark
  \/ Ready \/ NotReady

Removing ==
  \/ StopUnits \/ RemovePod \/ RemoveVolumes \/ RemoveSecrets
  \/ RemoveFiles \/ Unload \/ RemoveDir

Failing ==
  \/ ProvisionFails
  \/ StopUnitsFails \/ RemovePodFails \/ RemoveVolumesFails
  \/ RemoveSecretsFails \/ RemoveFilesFails \/ UnloadFails \/ RemoveDirFails
  \/ Crash

Next ==
  \/ \E task \in Task : Begin(task)
  \/ Provisioning \/ Removing \/ Failing \/ HaltPod \/ Restarted

Spec == Init /\ [][Next]_vars

(* A task that was begun goes on.                                          *)
Fairness == WF_vars(Provisioning \/ Removing \/ Failing \/ HaltPod)

FairSpec == Spec /\ Fairness

-----------------------------------------------------------------------------
(* Properties                                                              *)

Returns(result) == ~At("idle") /\ exec'.pc = "idle" /\ exec'.result = result

Gone ==
  /\ pod = Absent /\ files = Absent /\ units = Absent
  /\ data = "none" /\ ~secrets /\ ~dir /\ ~marker

(* deprovision must "avoid reporting success while Podman resources may    *)
(* still exist": when it reports success, or provision reports that        *)
(* partial resources were cleaned, nothing is left of the instance,        *)
(* whatever earlier tries did and wherever they ended - as long as the     *)
(* user manager was never restarted in the middle of a removal.            *)
CleanUnlessLate ==
  [][Returns("cleaned") \/ (Returns("success") /\ exec.task = "deprovision")
       => Gone' \/ late']_vars

(* "Keep the Quadlet and instance metadata when any managed runtime        *)
(* cleanup fails": at every moment of every task what is left in Podman    *)
(* has its .pod file and its directory, so that a removal can be retried.  *)
SourcesKept ==
  pod # Absent \/ data # "none" \/ secrets
    => (files["pod"] # None /\ dir) \/ late

(* The setup commands are never run on data they were run on before, once  *)
(* the marker was written for them: not after lost results, failed         *)
(* removals, stops and crashes.                                            *)
SetupOnce == At("run") => data # "marked"

(* "If both are false/absent we execute setup": a provision that reports   *)
(* success has left the application set up.                                *)
SetUpOnSuccess ==
  [][Returns("success") /\ exec.task = "provision"
       => data' \in {"setup", "marked"}]_vars

(* "If pod already exists, treat as already provisioned": a provision of an *)
(* instance that was there when the task began does not take its volumes   *)
(* away.                                                                   *)
IdempotentProvision ==
  [][exec.task = "provision" /\ exec.found /\ data = "marked"
       => data' = "marked"]_vars

(* When steps stop failing and admirald keeps asking for the removal, the  *)
(* instance is gone in the end, wherever earlier tries left it.            *)
RemovalCompletes ==
  /\ <>[][~Failing /\ ~HaltPod]_vars
  /\ <>[](exec.task = "deprovision")
  /\ []<>(At("stop"))
  => <>[]Gone

-----------------------------------------------------------------------------
(* The same tasks of an instance that has other tasks as well: between two *)
(* of these they may render it, start, stop or freeze it and bring up its  *)
(* volumes, but mark nothing, and leave nothing without its sources.       *)
Housed == files["pod"] # None => dir

OtherTask ==
  /\ At("idle")
  /\ Sound' /\ Housed' /\ SourcesKept'
  /\ data' \in {data} \cup (IF data = "none" THEN {"fresh"} ELSE {})
  /\ secrets' \in BOOLEAN /\ dir' \in BOOLEAN
  /\ UNCHANGED <<marker, known, exec, late>>

OpenSpec == Init /\ [][Next \/ OtherTask]_vars
=============================================================================
