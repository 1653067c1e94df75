------------------------------- MODULE Update -------------------------------
(***************************************************************************)
(* The tasks of a provisioned instance: start, resume, update of its       *)
(* images, stop and resize (internal/executor/executor_lifecycle.go), and  *)
(* restore (executor_restore.go), which the agent delegates to the helper  *)
(* process admiral-fleet-backup (executor_helper.go) and which leaves the  *)
(* instance paused.                                                        *)
(*                                                                         *)
(* One task runs at a time, step by step.  A step may fail, with or        *)
(* without its effect; agent or helper may die between two steps; the user *)
(* manager may be restarted at any time.                                   *)
(***************************************************************************)
EXTENDS Workload

CONSTANT DataServices   \* the services that have a volume

ASSUME DataAssumption == DataServices \subseteq Container

VARIABLES
  paused,      \* frozen containers, the pod's own included
  vol,         \* the volumes, as the latest restore left them
  exec         \* the executor and its helper

vars == <<node, paused, vol, exec>>

Task == {"start", "resume", "update", "stop", "resize", "restore", "load"}
Restore == {"restore", "load"}   \* of volumes, of a database dump
Helper == {"fetch", "load", "owners", "extract", "rerun", "pause"}
Pc == {"idle", "inspect", "unpause", "verify", "exists", "wake", "render",
       "halt", "reload", "start", "started", "rollback", "off", "leave"}
        \cup Helper
Result == {"none", "success", "failure", "stale", "down"}

Exec == [task : Task, payload : Version, todo : SUBSET DataServices,
         pc : Pc, failed : BOOLEAN, result : Result,
         mixed : BOOLEAN,  \* history: the task found some containers frozen
                           \* and some not
         late : BOOLEAN]   \* history: the user manager was restarted

TypeOK ==
  /\ NodeTypeOK
  /\ Rooted(pod)   \* a container lives in its pod
  /\ paused \in SUBSET {k \in Kind : pod[k] # None}
  /\ vol \in [DataServices -> {"kept", "torn", "restored"}]
  /\ exec \in Exec

Present == {k \in Kind : pod[k] # None}

(* PodIsPaused: Podman says so when every container is.                    *)
IsPaused == pod["pod"] # None /\ Present \subseteq paused

Init ==
  \E v \in Version :
    /\ files = Rendered(v) /\ units = files /\ pod = files
    /\ restarts = 0 /\ paused = {}
    /\ vol = [c \in DataServices |-> "kept"]
    /\ exec = [task |-> "stop", payload |-> v, todo |-> {}, pc |-> "idle",
               failed |-> FALSE, result |-> "none", mixed |-> FALSE,
               late |-> FALSE]

At(pc) == exec.pc = pc
GoTo(pc) == exec' = [exec EXCEPT !.pc = pc]
Return(result) == exec' = [exec EXCEPT !.pc = "idle", !.result = result]

Begin(task) ==
  /\ At("idle")
  /\ \E v \in Version :
       exec' = [task |-> task, payload |-> v, todo |-> {},
                pc |-> CASE task = "resume"    -> "inspect"
                         [] task = "stop"      -> "off"
                         [] task = "resize"    -> "exists"
                         [] task \in Restore   -> "wake"
                         [] OTHER              -> "render",
                failed |-> FALSE, result |-> "none",
                mixed |-> paused # {} /\ ~IsPaused, late |-> FALSE]
  /\ vol' = IF task \in Restore THEN [c \in DataServices |-> "kept"] ELSE vol
  /\ UNCHANGED <<node, paused>>

-----------------------------------------------------------------------------
(* start: also resume and, with VerifyImages, update                       *)

Inspect ==
  /\ At("inspect")
  /\ GoTo(IF IsPaused THEN "unpause" ELSE "render")
  /\ UNCHANGED <<node, paused, vol>>

(* Wrong variant: a pod is resumed by starting its unit.                   *)
UnpauseByStart ==
  /\ At("unpause")
  /\ GoTo("render")
  /\ UNCHANGED <<node, paused, vol>>

Unpause ==
  /\ At("unpause")
  /\ pod["pod"] # None
  /\ paused' = {}
  /\ GoTo("verify")
  /\ UNCHANGED <<node, vol>>

Verify ==
  /\ At("verify")
  /\ IF IsPaused THEN Return("failure") ELSE GoTo("render")
  /\ UNCHANGED <<node, paused, vol>>

(* Health checks, Quadlet files, secrets; an update pulls its images.      *)
RenderFiles ==
  /\ At("render")
  /\ files' = Rendered(exec.payload)
  /\ GoTo(IF exec.task = "update" THEN "halt" ELSE "reload")
  /\ UNCHANGED <<units, pod, restarts, paused, vol>>

(* Wrong variant: starting the unit is left to bring up what was rendered. *)
HaltNothing ==
  /\ At("halt")
  /\ GoTo(IF exec.task = "update" THEN "reload" ELSE "render")
  /\ UNCHANGED <<node, paused, vol>>

(* An update has its files by now, a resize renders them next.             *)
Halt ==
  /\ At("halt")
  /\ Stop
  /\ paused' = {}
  /\ GoTo(IF exec.task = "update" THEN "reload" ELSE "render")
  /\ UNCHANGED <<files, units, restarts, vol>>

(* Wrong variant: the unit is started as it was loaded before.             *)
ReloadNothing ==
  /\ At("reload")
  /\ GoTo("start")
  /\ UNCHANGED <<node, paused, vol>>

Reload ==
  /\ At("reload")
  /\ DaemonReload
  /\ GoTo("start")
  /\ UNCHANGED <<files, pod, restarts, paused, vol>>

StartPod ==
  /\ At("start")
  /\ Start
  /\ GoTo(IF exec.task \in Restore THEN "fetch" ELSE "started")
  /\ UNCHANGED <<files, restarts, paused, vol>>

(* startImageEvidence: an update succeeds when every container is there    *)
(* and runs the image of the task.                                         *)
Evidence == \A c \in Container : pod[c] = exec.payload

Report ==
  /\ At("started")
  /\ Return(IF exec.task = "update" /\ ~Evidence THEN "stale" ELSE "success")
  /\ UNCHANGED <<node, paused, vol>>

Off ==
  /\ At("off")
  /\ Stop
  /\ paused' = {}
  /\ Return("success")
  /\ UNCHANGED <<files, units, restarts, vol>>

-----------------------------------------------------------------------------
(* resize: stop, render, start; on failure start what was stopped          *)

Exists ==
  /\ At("exists")
  /\ pod["pod"] # None
  /\ GoTo("halt")
  /\ UNCHANGED <<node, paused, vol>>

Rollback ==
  /\ At("rollback")
  /\ Start
  /\ Return("failure")
  /\ UNCHANGED <<files, restarts, paused, vol>>

RollbackFails ==
  /\ At("rollback")
  /\ StartFails
  /\ Return("down")
  /\ UNCHANGED <<files, restarts, paused, vol>>

-----------------------------------------------------------------------------
(* restore                                                                 *)

(* startRestoreContainers: when its first container is found, the pod is   *)
(* taken to be running, after it was unpaused.  When it is not, or when    *)
(* the check itself fails, the pod is rendered and started, with whatever  *)
(* is frozen in it left frozen.                                            *)
Wake ==
  /\ At("wake")
  /\ \/ /\ pod["pod"] # None
        /\ paused' = IF IsPaused THEN {} ELSE paused
        /\ GoTo("fetch")
     \/ UNCHANGED paused /\ GoTo("render")
  /\ UNCHANGED <<node, vol>>

(* The helper downloads the artifact and verifies its checksum.            *)
Fetch ==
  /\ At("fetch")
  /\ exec' = [exec EXCEPT !.pc = IF exec.task = "load" THEN "load" ELSE "owners",
                          !.todo = DataServices]
  /\ UNCHANGED <<node, paused, vol>>

(* restoreDatabase: the dump is fed to the server in its container.        *)
Load ==
  /\ At("load")
  /\ \A c \in DataServices : pod[c] # None /\ c \notin paused
  /\ vol' = [c \in DataServices |-> "restored"]
  /\ GoTo("pause")
  /\ UNCHANGED <<node, paused>>

(* restoreVolumes takes its services in turn, three times over.            *)
Turn(c, pc) ==
  exec' = IF exec.todo = {c}
            THEN [exec EXCEPT !.pc = pc, !.todo = DataServices]
            ELSE [exec EXCEPT !.todo = @ \ {c}]

(* Wrong variant: a container that cannot be stopped is left to run.       *)
StopOwnerOrNot(c) ==
  /\ At("owners") /\ c \in exec.todo
  /\ pod' \in {pod, [pod EXCEPT ![c] = None]}
  /\ paused' = paused \ {c}
  /\ Turn(c, "extract")
  /\ UNCHANGED <<files, units, restarts, vol>>

StopOwner(c) ==
  /\ At("owners") /\ c \in exec.todo
  /\ pod' = [pod EXCEPT ![c] = None]
  /\ paused' = paused \ {c}
  /\ Turn(c, "extract")
  /\ UNCHANGED <<files, units, restarts, vol>>

(* Wrong variant: a volume that is missing is skipped.                     *)
ExtractOrSkip(c) ==
  /\ At("extract") /\ c \in exec.todo
  /\ vol' \in {vol, [vol EXCEPT ![c] = "restored"]}
  /\ Turn(c, "rerun")
  /\ UNCHANGED <<node, paused>>

Extract(c) ==
  /\ At("extract") /\ c \in exec.todo
  /\ vol' = [vol EXCEPT ![c] = "restored"]
  /\ Turn(c, "rerun")
  /\ UNCHANGED <<node, paused>>

(* Wrong variant: a container's file does not name its pod.                *)
StartOwnerAlone(c) ==
  /\ At("rerun") /\ c \in exec.todo
  /\ pod' = [pod EXCEPT ![c] = Started[c]]
  /\ Turn(c, "pause")
  /\ UNCHANGED <<files, units, restarts, paused, vol>>

(* A container is started alone when the pod is there.                     *)
StartOwner(c) ==
  /\ At("rerun") /\ c \in exec.todo
  /\ IF pod["pod"] = None
       THEN Start
       ELSE /\ pod' = [pod EXCEPT ![c] = Started[c]]
            /\ UNCHANGED units
  /\ Turn(c, "pause")
  /\ UNCHANGED <<files, restarts, paused, vol>>

(* pauseAfterRestore in the helper, and once more in the agent.            *)
HelperPause ==
  /\ At("pause")
  /\ pod["pod"] # None
  /\ paused' = Present
  /\ GoTo("leave")
  /\ UNCHANGED <<node, vol>>

AgentPause ==
  /\ At("leave")
  /\ pod["pod"] # None
  /\ paused' = Present
  /\ Return(IF exec.failed THEN "failure" ELSE "success")
  /\ UNCHANGED <<node, vol>>

-----------------------------------------------------------------------------
(* Failures                                                                *)

(* A failed resize, once it has stopped the pod, is rolled back.           *)
GiveUp == IF exec.task = "resize" THEN GoTo("rollback") ELSE Return("failure")

LooksFail ==
  /\ exec.pc \in {"inspect", "verify", "exists"}
       \/ (At("started") /\ exec.task # "resize")
  /\ Return("failure")
  /\ UNCHANGED <<node, paused, vol>>

UnpauseFails ==
  /\ exec.pc \in {"unpause", "wake"}
  /\ paused' \in SUBSET paused
  /\ Return("failure")
  /\ UNCHANGED <<node, vol>>

RenderFails ==
  /\ At("render")
  /\ UNCHANGED files \/ RenderPartly(exec.payload)
  /\ GiveUp
  /\ UNCHANGED <<units, pod, restarts, paused, vol>>

HaltFails ==
  /\ exec.pc \in {"halt", "off"}
  /\ StopFails
  /\ paused' = IF pod' = Absent THEN {} ELSE paused
  /\ Return("failure")
  /\ UNCHANGED <<files, units, restarts, vol>>

ReloadFails ==
  /\ At("reload")
  /\ DaemonReloadFails
  /\ GiveUp
  /\ UNCHANGED <<files, pod, restarts, paused, vol>>

StartPodFails ==
  /\ At("start")
  /\ StartFails
  /\ GiveUp
  /\ UNCHANGED <<files, restarts, paused, vol>>

(* The helper fails: it still pauses, unless there was nothing to apply or *)
(* it dies; it does so once.  The agent pauses in any case.                *)
Quit ==
  \E pc \in {"leave"} \cup (IF At("pause") THEN {} ELSE {"pause"}) :
    exec' = [exec EXCEPT !.pc = pc, !.failed = TRUE]

HelperFails ==
  /\ exec.pc \in Helper
  /\ \/ UNCHANGED <<pod, units, paused, vol>>
     \/ \E c \in exec.todo :
          \/ /\ At("owners")
             /\ pod' = [pod EXCEPT ![c] = None] /\ paused' = paused \ {c}
             /\ UNCHANGED <<units, vol>>
          \/ /\ exec.pc \in {"load", "extract"}
             /\ vol' = [vol EXCEPT ![c] = "torn"]
             /\ UNCHANGED <<pod, units, paused>>
     \/ /\ At("pause") /\ pod["pod"] # None
        /\ \E S \in SUBSET Present : paused' = paused \cup S
        /\ UNCHANGED <<pod, units, vol>>
  /\ Quit
  /\ UNCHANGED <<files, restarts>>

AgentPauseFails ==
  /\ At("leave")
  /\ \E S \in SUBSET Present : paused' = paused \cup S
  /\ Return("failure")
  /\ UNCHANGED <<node, vol>>

Crash ==
  /\ ~At("idle")
  /\ Return("none")
  /\ UNCHANGED <<node, paused, vol>>

Restarted ==
  /\ ManagerRestart
  /\ paused' = {}
  /\ exec' = [exec EXCEPT !.late = TRUE]
  /\ UNCHANGED vol

-----------------------------------------------------------------------------
Starting ==
  \/ Inspect \/ Unpause \/ Verify \/ RenderFiles \/ Halt \/ Reload \/ StartPod
  \/ Report \/ Off \/ Exists \/ Rollback

Restoring ==
  \/ Wake \/ Fetch \/ Load \/ HelperPause \/ AgentPause
  \/ \E c \in DataServices : StopOwner(c) \/ Extract(c) \/ StartOwner(c)

Failing ==
  \/ LooksFail \/ UnpauseFails \/ RenderFails \/ HaltFails \/ ReloadFails
  \/ StartPodFails \/ RollbackFails \/ HelperFails \/ AgentPauseFails \/ Crash

Next ==
  \/ \E task \in Task : Begin(task)
  \/ Starting \/ Restoring \/ Failing \/ Restarted

Spec == Init /\ [][Next]_vars

(* A task that was begun goes on.                                          *)
FairSpec == Spec /\ WF_vars(Starting \/ Restoring \/ Failing)

(* The same tasks of an instance that need not be provisioned: it begins,  *)
(* and any other task between two of them may leave it, as no more than    *)
(* Sound - rendered in part, removed in part, frozen or not.               *)
OpenInit == TypeOK /\ Sound /\ At("idle")

OtherTask == At("idle") /\ TypeOK' /\ Sound' /\ UNCHANGED exec

OpenSpec == OpenInit /\ [][Next \/ OtherTask]_vars

-----------------------------------------------------------------------------
(* Properties                                                              *)

Returns(result) == ~At("idle") /\ exec'.pc = "idle" /\ exec'.result = result

(* After an update or a resize started the pod, none of its containers is  *)
(* from an earlier payload: systemd did "not treat Start below as a no-op  *)
(* and leave the old containers running".  A resize renders after it       *)
(* stopped the pod and may lose that race to a restart of the manager.     *)
UpToDate ==
  /\ At("started")
  /\ exec.task = "update" \/ (exec.task = "resize" /\ ~exec.late)
  => \A k \in Kind : pod[k] \in {None, exec.payload}

(* "Raw database files must not be overwritten while the server process    *)
(* has them open": no owner of a volume runs while volumes are extracted - *)
(* unless the user manager was restarted meanwhile and brought it back.    *)
WriteAlone ==
  At("extract") /\ ~exec.late => \A c \in DataServices : pod[c] = None

(* A restore that reports success has put every volume, or the database,   *)
(* in place and leaves every container frozen.                             *)
RestoredAndPaused ==
  [][Returns("success") /\ exec.task \in Restore
       => IsPaused' /\ \A c \in DataServices : vol'[c] = "restored"]_vars

(* A resume that reports success leaves nothing frozen, unless the task    *)
(* found some containers frozen and some not.                              *)
UnfrozenUnlessMixed ==
  [][Returns("success") /\ exec.task = "resume"
       => paused' = {} \/ exec.mixed]_vars

(* Whatever earlier tasks left half done - files of another payload, a     *)
(* stopped pod, missing or frozen containers - updates that admirald keeps *)
(* asking for bring the application up once steps stop failing.            *)
UpdateCompletes ==
  \A v \in Version :
    /\ <>[][~Failing]_vars
    /\ <>[](exec.task = "update" /\ exec.payload = v)
    /\ []<>(At("halt"))
    => []<>(exec.result = "success" /\ pod = Rendered(v) /\ paused = {})
=============================================================================
