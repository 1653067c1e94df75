-------------------------- MODULE Provision_proofs --------------------------
(***************************************************************************)
(* Proofs about Provision: what the tasks leave behind keeps its sources,  *)
(* setup is not run on data marked as set up, and a removal that is        *)
(* reported was one.                                                       *)
(*                                                                         *)
(* None of the three is inductive: each rests on how far the current task  *)
(* has come, which Placed says of the way up and Swept of the way down.    *)
(***************************************************************************)
EXTENDS Lifecycle, TLAPS

OnTheWay == {"exists", "prepare", "render", "secrets", "reload", "start",
             "setup", "run", "restart", "mark", "ready"}

(* A step belongs to the task that was begun, which has no result yet; the *)
(* way up ends at its first error.                                         *)
Tasked ==
  /\ exec.pc # "idle" => exec.result = "none"
  /\ exec.pc \in OnTheWay \cup {"halt"} => ~exec.failed
  /\ exec.pc \in OnTheWay => exec.task = "provision"
  /\ exec.pc = "halt" => exec.task = "stop"
  /\ exec.pc \in Removal => exec.task # "stop"

(* The way up.                                                             *)
Placed ==
  /\ exec.pc \in OnTheWay \ {"exists", "prepare"} => dir
  /\ exec.pc \in OnTheWay \ {"exists", "prepare", "render"}
       => files["pod"] # None

(* The way down: what is gone when no error was met so far.                *)
Swept ==
  /\ exec.pc \in {"files", "unload", "rmdir"} => ~exec.failed
  /\ exec.pc \in {"unload", "rmdir"} => files = Absent
  /\ exec.pc = "rmdir" => units = Absent
  /\ ~exec.failed /\ ~late =>
       /\ exec.pc \in Removal \ {"stop", "pods"} => pod = Absent
       /\ exec.pc \in Removal \ {"stop", "pods", "volumes"} => data = "none"
  /\ ~exec.failed /\ exec.pc \in Removal \ {"stop", "pods", "volumes"}
       => data \in {"none", "fresh"}
  /\ exec.pc \in {"files", "unload", "rmdir"} => ~secrets

Marked ==
  /\ data = "marked" => marker
  /\ exec.pc \in {"run", "restart", "mark"} => ~marker

IInv ==
  /\ TypeOK /\ Rooted(files) /\ Housed /\ SourcesKept
  /\ Tasked /\ Placed /\ Swept /\ Marked

(* What an invariant says of the instance alone, in or between tasks.      *)
Steady ==
  /\ NodeTypeOK /\ data \in Data /\ secrets \in BOOLEAN /\ dir \in BOOLEAN
  /\ marker \in BOOLEAN /\ known \in BOOLEAN /\ late \in BOOLEAN
  /\ Rooted(files) /\ Housed /\ SourcesKept
  /\ data = "marked" => marker

(* A task that ends owes no more than that; nor does a removal that has    *)
(* met an error and goes on.                                               *)
LEMMA Ended ==
  ASSUME IInv, NEW result \in Result, Return(result),
         exec.failed => result \in {"none", "failure"}, Steady'
  PROVE  IInv'
<1> USE DEF Return, Result, Pc
<1>1. /\ exec'.pc = "idle" /\ exec'.failed = exec.failed
      /\ exec'.result = result
  BY DEF IInv, TypeOK
<1>2. TypeOK'
  BY <1>1 DEF IInv, TypeOK, Steady
<1>q. QED
  BY <1>1, <1>2 DEF IInv, Steady, Tasked, Placed, Swept, Marked, OnTheWay, Removal

LEMMA Erred ==
  ASSUME IInv, NEW pc \in {"pods", "volumes", "unsecret"}, Fail(pc),
         exec.pc \in Removal, Steady'
  PROVE  IInv'
<1> USE DEF Fail, Pc, Removal
<1>1. /\ exec'.pc = pc /\ exec'.failed /\ exec'.result = exec.result
      /\ exec'.task = exec.task /\ exec.result = "none" /\ exec.task # "stop"
  BY DEF IInv, TypeOK, Tasked
<1>2. TypeOK'
  BY <1>1 DEF IInv, TypeOK, Steady
<1>q. QED
  BY <1>1, <1>2 DEF IInv, Steady, Tasked, Placed, Swept, Marked, OnTheWay

(* Everything an action of a task is made of.                              *)
USE WorkloadAssumption DEF IInv, TypeOK, NodeTypeOK, Rooted, Housed, Tasked, Placed,
    Swept, Marked, SourcesKept, Kind, Files, Absent, Data, Task, Removal, Pc,
    Result, OnTheWay, node, instance, At, GoTo, Return, Fail

LEMMA Initially == Init => IInv
<1> SUFFICES ASSUME Init PROVE IInv
  OBVIOUS
<1>1. PICK v \in Version :
        exec = [task |-> "stop", payload |-> v, completed |-> FALSE,
                pc |-> "idle", failed |-> FALSE, result |-> "none",
                found |-> FALSE]
  BY DEF Init
<1>2. TypeOK
  <2>1. NodeTypeOK
    BY DEF Init
  <2>2. exec.pc = "idle" /\ exec.failed = FALSE
    BY <1>1
  <2>q. QED
    BY <1>1, <2>1, <2>2 DEF Init
<1>q. QED
  BY <1>1, <1>2 DEF Init

LEMMA Up ==
  ASSUME IInv, Provisioning
  PROVE  IInv'
<1>1. CASE PodExists
  <2>1. known' \in BOOLEAN
    BY <1>1, Zenon DEF PodExists, ReportSetup
  <2>q. QED
    BY <1>1, <2>1 DEF PodExists
<1>2. CASE PodUnknown
  BY <1>2 DEF PodUnknown
<1>3. CASE Prepare
  BY <1>3 DEF Prepare
<1>4. CASE RenderFiles
  BY <1>4 DEF RenderFiles, Rendered
<1>5. CASE CreateSecrets
  BY <1>5 DEF CreateSecrets
<1>6. CASE Reload
  BY <1>6 DEF Reload, DaemonReload
<1>7. CASE StartPod
  BY <1>7 DEF StartPod, Start, Started, Loaded, Volumes
<1>8. CASE DecideSetup
  BY <1>8 DEF DecideSetup
<1>9. CASE RunSetup
  BY <1>9 DEF RunSetup, Complete
<1>10. CASE RestartPod
  BY <1>10 DEF RestartPod, Volumes
<1>11. CASE Mark
  BY <1>11 DEF Mark
<1>12. CASE Ready
  <2>1. known' \in BOOLEAN
    BY <1>12, Zenon DEF Ready, Complete, ReportSetup
  <2>q. QED
    BY <1>12, <2>1 DEF Ready, Complete
<1>13. CASE NotReady
  BY <1>13 DEF NotReady
<1>q. QED
  BY <1>1, <1>2, <1>3, <1>4, <1>5, <1>6, <1>7, <1>8, <1>9, <1>10, <1>11, <1>12, <1>13 DEF Provisioning

LEMMA Down ==
  ASSUME IInv, Removing
  PROVE  IInv'
<1>1. CASE StopUnits
  BY <1>1 DEF StopUnits, Stop, Missing
<1>2. CASE RemovePod
  BY <1>2 DEF RemovePod
<1>3. CASE RemoveVolumes
  BY <1>3 DEF RemoveVolumes
<1>4. CASE RemoveSecrets
  <2>1. CASE exec.failed
    <3>1. Return("failure") /\ secrets' = FALSE
      BY <1>4, <2>1, Zenon DEF RemoveSecrets
    <3>2. UNCHANGED <<files, units, pod, restarts, data, dir, marker, known, late>>
      BY <1>4 DEF RemoveSecrets
    <3>3. secrets' \in BOOLEAN /\ ~secrets'
      BY <3>1, Zenon
    <3> HIDE DEF Return
    <3>q. QED
      BY <3>1, <3>2, <3>3, Ended DEF Steady
  <2>2. CASE ~exec.failed
    <3>1. GoTo("files") /\ secrets' = FALSE
      BY <1>4, <2>2, Zenon DEF RemoveSecrets
    <3>2. At("unsecret") /\ UNCHANGED <<node, data, dir, marker, known, late>>
      BY <1>4 DEF RemoveSecrets
    <3>q. QED
      BY <2>2, <3>1, <3>2
  <2>q. QED
    BY <2>1, <2>2
<1>5. CASE RemoveFiles
  BY <1>5 DEF RemoveFiles
<1>6. CASE Unload
  BY <1>6 DEF Unload, DaemonReload
<1>7. CASE RemoveDir
  <2>1. At("rmdir") /\ ~dir' /\ ~marker' /\ known' \in BOOLEAN
        /\ dir' \in BOOLEAN /\ marker' \in BOOLEAN
        /\ UNCHANGED <<files, units, pod, restarts, data, secrets, late>>
    BY <1>7 DEF RemoveDir
  <2>2. Return(IF exec.task = "provision" THEN "cleaned" ELSE "success")
    BY <1>7, Zenon DEF RemoveDir
  <2>3. ~exec.failed /\ files = Absent /\ data # "marked" /\ SourcesKept'
    BY <2>1
  <2> HIDE DEF Return
  <2>q. QED
    BY <2>1, <2>2, <2>3, Ended DEF Steady
<1>q. QED
  BY <1>1, <1>2, <1>3, <1>4, <1>5, <1>6, <1>7 DEF Removing

LEMMA Failed ==
  ASSUME IInv, Failing
  PROVE  IInv'
<1>1. CASE ProvisionFails
  <2>0. Return("failure") /\ UNCHANGED <<known, late>>
    BY <1>1, Zenon DEF ProvisionFails
  <2> HIDE DEF Return
  <2>1. CASE At("exists")
    <3>1. UNCHANGED <<files, units, pod, restarts, data, secrets, dir, marker>>
      BY <1>1, <2>1 DEF ProvisionFails
    <3>q. QED
      BY <2>0, <3>1, Ended DEF Steady
  <2>2. CASE At("prepare")
    <3>1. dir \in BOOLEAN /\ (UNCHANGED dir \/ dir' = TRUE)
      BY <1>1, <2>2, Zenon DEF ProvisionFails
    <3>4. dir' \in BOOLEAN /\ (dir => dir')
      <4>1. CASE UNCHANGED dir
        BY <3>1, <4>1
      <4>2. CASE dir' = TRUE
        BY <4>2
      <4>q. QED
        BY <3>1, <4>1, <4>2
    <3>2. UNCHANGED <<files, units, pod, restarts, data, secrets, marker>>
      BY <1>1, <2>2 DEF ProvisionFails
    <3>q. QED
      BY <2>0, <3>2, <3>4, Ended DEF Steady
  <2>3. CASE At("render")
    <3>1. UNCHANGED files \/ RenderPartly(exec.payload)
      BY <1>1, <2>3 DEF ProvisionFails
    <3>2. exec.payload \in Version /\ dir
      BY <2>3
    <3>3. UNCHANGED <<units, pod, restarts, data, secrets, dir, marker>>
      BY <1>1, <2>3 DEF ProvisionFails
    <3>4. CASE files' = files
      BY <2>0, <3>3, <3>4, Ended DEF Steady
    <3>5. CASE RenderPartly(exec.payload)
      <4>1. PICK S \in SUBSET Container :
              files' = [k \in Kind |->
                          IF k = "pod" \/ k \in S THEN exec.payload ELSE files[k]]
        BY <3>5 DEF RenderPartly
      <4>2. files' \in Files /\ files'["pod"] = exec.payload
        BY <3>2, <4>1
      <4>q. QED
        BY <2>0, <3>2, <3>3, <4>2, Ended DEF Steady
    <3>q. QED
      BY <3>1, <3>4, <3>5
  <2>4. CASE At("secrets")
    <3>1. secrets' \in BOOLEAN
      BY <1>1, <2>4, Zenon DEF ProvisionFails
    <3>2. UNCHANGED <<files, units, pod, restarts, data, dir, marker>>
      BY <1>1, <2>4 DEF ProvisionFails
    <3>q. QED
      BY <2>0, <2>4, <3>1, <3>2, Ended DEF Steady
  <2>5. CASE At("reload")
    <3>1. units' \in {units, files}
          /\ UNCHANGED <<files, pod, restarts, data, secrets, dir, marker>>
      BY <1>1, <2>5 DEF DaemonReloadFails, ProvisionFails
    <3>q. QED
      BY <2>0, <3>1, Ended DEF Steady
  <2>6. CASE At("start")
    <3>1. StartFails /\ data' = Volumes
          /\ UNCHANGED <<files, restarts, secrets, dir, marker>>
      BY <1>1, <2>6 DEF ProvisionFails
    <3>2. CASE UNCHANGED <<units, pod>>
      BY <2>0, <2>6, <3>1, <3>2, Ended DEF Steady, Volumes
    <3>3. CASE Start
      <4>1. units' \in Files /\ pod' \in Files
        BY <3>3 DEF Start, Started, Loaded
      <4>2. dir /\ files["pod"] # None
        BY <2>6
      <4>q. QED
        BY <2>0, <3>1, <4>1, <4>2, Ended DEF Steady, Volumes
    <3>q. QED
      BY <3>1, <3>2, <3>3 DEF StartFails
  <2>7. CASE At("run")
    <3>1. data' \in {data, "setup"}
          /\ UNCHANGED <<files, units, pod, restarts, secrets, dir, marker>>
      BY <1>1, <2>7 DEF ProvisionFails
    <3>2. dir /\ files["pod"] # None
      BY <2>7
    <3>q. QED
      BY <2>0, <3>1, <3>2, Ended DEF Steady
  <2>8. CASE At("restart")
    <3>1. pod' \in {pod, Absent, units} /\ data' = Volumes
          /\ UNCHANGED <<files, units, restarts, secrets, dir, marker>>
      BY <1>1, <2>8 DEF ProvisionFails
    <3>2. dir /\ files["pod"] # None
      BY <2>8
    <3>q. QED
      BY <2>0, <3>1, <3>2, Ended DEF Steady, Volumes
  <2>q. QED
    BY <1>1, <2>1, <2>2, <2>3, <2>4, <2>5, <2>6, <2>7, <2>8
       DEF ProvisionFails
<1>2. CASE StopUnitsFails
  <2>1. At("stop") /\ pod' \in {pod, Absent} /\ Fail("pods")
        /\ UNCHANGED <<files, units, restarts, instance, known, late>>
    BY <1>2, Zenon DEF StopUnitsFails, StopFails
  <2> HIDE DEF Fail
  <2>q. QED
    BY <2>1, Erred DEF Steady
<1>3. CASE RemovePodFails
  <2>1. At("pods") /\ pod' \in {pod, Absent} /\ Fail("volumes")
        /\ UNCHANGED <<files, units, restarts, instance, known, late>>
    BY <1>3, Zenon DEF RemovePodFails, StopFails
  <2> HIDE DEF Fail
  <2>q. QED
    BY <2>1, Erred DEF Steady
<1>4. CASE RemoveVolumesFails
  <2>1. At("volumes") /\ data' \in {data, "none"} /\ Fail("unsecret")
        /\ UNCHANGED <<files, units, pod, restarts, secrets, dir, marker, known, late>>
    BY <1>4 DEF RemoveVolumesFails
  <2> HIDE DEF Fail
  <2>q. QED
    BY <2>1, Erred DEF Steady
<1>5. CASE RemoveSecretsFails
  <2>1. Return("failure") /\ secrets' \in {secrets, FALSE}
        /\ UNCHANGED <<files, units, pod, restarts, data, dir, marker, known, late>>
    BY <1>5 DEF RemoveSecretsFails
  <2>2. secrets \in BOOLEAN /\ (secrets' = secrets \/ secrets' = FALSE)
    BY <2>1, Zenon
  <2>3. secrets' \in BOOLEAN /\ (secrets' => secrets)
    <3>1. CASE secrets' = secrets
      BY <2>2, <3>1
    <3>2. CASE secrets' = FALSE
      BY <3>2
    <3>q. QED
      BY <2>2, <3>1, <3>2
  <2> HIDE DEF Return
  <2>q. QED
    BY <2>1, <2>3, Ended DEF Steady
<1>6. CASE RemoveFilesFails
  <2>1. PICK S \in SUBSET Container :
          files' = [k \in Kind |-> IF k \in S THEN None ELSE files[k]]
    BY <1>6 DEF RemoveFilesFails, RemovePartly
  <2>2. files' \in Files /\ files'["pod"] = files["pod"] /\ Rooted(files)'
    BY <2>1
  <2>3. Return("failure")
        /\ UNCHANGED <<units, pod, restarts, data, secrets, dir, marker, known, late>>
    BY <1>6 DEF RemoveFilesFails
  <2> HIDE DEF Return
  <2>q. QED
    BY <2>2, <2>3, Ended DEF Steady
<1>7. CASE UnloadFails
  <2>1. Return("failure") /\ units' \in {units, files}
        /\ UNCHANGED <<files, pod, restarts, data, secrets, dir, marker, known, late>>
    BY <1>7 DEF UnloadFails, DaemonReloadFails
  <2> HIDE DEF Return
  <2>q. QED
    BY <2>1, Ended DEF Steady
<1>8. CASE RemoveDirFails
  <2>1. At("rmdir") /\ Return("failure") /\ marker' \in {marker, FALSE}
        /\ UNCHANGED <<files, units, pod, restarts, data, secrets, dir, known, late>>
    BY <1>8 DEF RemoveDirFails
  <2>2. marker' \in BOOLEAN /\ data # "marked"
    BY <2>1
  <2> HIDE DEF Return
  <2>q. QED
    BY <2>1, <2>2, Ended DEF Steady
<1>9. CASE Crash
  <2>1. Return("none")
        /\ UNCHANGED <<files, units, pod, restarts, data, secrets, dir, marker, known, late>>
    BY <1>9 DEF Crash
  <2> HIDE DEF Return
  <2>q. QED
    BY <2>1, Ended DEF Steady
<1>q. QED
  BY <1>1, <1>2, <1>3, <1>4, <1>5, <1>6, <1>7, <1>8, <1>9 DEF Failing

LEMMA Inductive == IInv /\ [Next]_vars => IInv'
<1> SUFFICES ASSUME IInv, [Next]_vars PROVE IInv'
  OBVIOUS
<1>1. CASE \E task \in Task : Begin(task)
  <2>1. PICK task \in Task, v \in Version, completed \in {FALSE, known} :
          exec' = [task |-> task, payload |-> v, completed |-> completed,
                pc |-> CASE task = "provision"   -> "exists"
                         [] task = "deprovision" -> "stop"
                         [] task = "stop"        -> "halt",
                failed |-> FALSE, result |-> "none",
                found |-> pod # Absent /\ data = "marked"]
    BY <1>1 DEF Begin
  <2>0. UNCHANGED <<node, instance, known, late>>
    BY <1>1 DEF Begin
  <2>2. completed \in BOOLEAN
    BY Zenon
  <2>3. (pod # Absent /\ data = "marked") \in BOOLEAN
    OBVIOUS
  <2>4. CASE task = "provision"
    BY <2>0, <2>1, <2>2, <2>3, <2>4
  <2>5. CASE task = "deprovision"
    BY <2>0, <2>1, <2>2, <2>3, <2>5
  <2>6. CASE task = "stop"
    BY <2>0, <2>1, <2>2, <2>3, <2>6
  <2>q. QED
    BY <2>4, <2>5, <2>6
<1>2. CASE HaltPod
  <2>1. pod' \in {pod, Absent}
    BY <1>2 DEF HaltPod, Stop, StopFails
  <2>2. At("halt") /\ UNCHANGED <<files, units, restarts, instance, known, late>>
    BY <1>2 DEF HaltPod
  <2>3. Return("success") \/ Return("failure")
    BY <1>2 DEF HaltPod
  <2>4. TypeOK' /\ exec'.pc = "idle"
    <3>1. pod' \in Files
      BY <2>1
    <3>2. CASE Return("success")
      BY <2>2, <3>1, <3>2
    <3>3. CASE Return("failure")
      BY <2>2, <3>1, <3>3
    <3>q. QED
      BY <2>3, <3>2, <3>3
  <2>5. CASE pod' = pod
    BY <2>2, <2>4, <2>5
  <2>6. CASE pod' = Absent
    BY <2>2, <2>4, <2>6
  <2>q. QED
    BY <2>1, <2>5, <2>6
<1>3. CASE Restarted
  BY <1>3 DEF Restarted, ManagerRestart, DaemonReload, Volumes
<1>4. CASE UNCHANGED vars
  BY <1>4 DEF vars
<1>q. QED
  BY <1>1, <1>2, <1>3, <1>4, Up, Down, Failed DEF Next

(* What is started, restarted or reloaded was there before.               *)
LEMMA Sources ==
  ASSUME IInv, [Next]_vars
  PROVE  /\ Start \/ units' \in {units, files}
         /\ Start \/ pod' \in {pod, files, units, Absent}
<1>1. CASE \E task \in Task : Begin(task)
  BY <1>1 DEF Begin
<1>2. CASE Provisioning
  BY <1>2 DEF Provisioning, PodExists, PodUnknown, Prepare, RenderFiles,
    CreateSecrets, Reload, DaemonReload, StartPod, DecideSetup, RunSetup,
    RestartPod, Mark, Ready, NotReady
<1>3. CASE Removing
  BY <1>3 DEF Removing, StopUnits, Stop, Missing, RemovePod, RemoveVolumes,
    RemoveSecrets, RemoveFiles, Unload, DaemonReload, RemoveDir
<1>4. CASE Failing
  <2>1. CASE ProvisionFails
    BY <2>1 DEF ProvisionFails, DaemonReloadFails, StartFails
  <2>2. CASE StopUnitsFails \/ RemovePodFails
    BY <2>2 DEF StopUnitsFails, RemovePodFails, StopFails
  <2>q. QED
    BY <1>4, <2>1, <2>2 DEF Failing, RemoveVolumesFails, RemoveSecretsFails,
      RemoveFilesFails, UnloadFails, DaemonReloadFails, RemoveDirFails, Crash
<1>5. CASE HaltPod
  BY <1>5 DEF HaltPod, Stop, StopFails
<1>6. CASE Restarted
  BY <1>6 DEF Restarted, ManagerRestart, DaemonReload
<1>7. CASE UNCHANGED vars
  BY <1>7 DEF vars
<1>q. QED
  BY <1>1, <1>2, <1>3, <1>4, <1>5, <1>6, <1>7 DEF Next

(* So nothing is ever there without its pod's part.                        *)
LEMMA StaysSound ==
  ASSUME IInv, Sound, [Next]_vars
  PROVE  Sound'
<1>1. IInv'
  BY Inductive
<1>2. CASE Start
  <2>1. Loaded \in {units, files} /\ Loaded["pod"] # None
    BY <1>2 DEF Start, Loaded
  <2>2. units' = Loaded /\ pod'["pod"] # None
    BY <1>2, <2>1 DEF Start, Started
  <2>q. QED
    BY <1>1, <2>1, <2>2 DEF Sound
<1>3. CASE ~Start
  BY <1>1, <1>3, Sources DEF Sound
<1>q. QED
  BY <1>2, <1>3

LEMMA OpenInductive == IInv /\ Sound /\ [Next \/ OtherTask]_vars => (IInv /\ Sound)'
<1> SUFFICES ASSUME IInv, Sound, [Next \/ OtherTask]_vars PROVE (IInv /\ Sound)'
  OBVIOUS
<1>1. CASE [Next]_vars
  BY <1>1, Inductive, StaysSound
<1>2. CASE OtherTask
  <2>1. Sound' /\ Housed' /\ SourcesKept' /\ At("idle")
        /\ UNCHANGED <<marker, known, exec, late>>
    BY <1>2 DEF OtherTask
  <2>2. secrets' \in BOOLEAN /\ dir' \in BOOLEAN
    BY <1>2, Zenon DEF OtherTask
  <2>3. data' \in {data, "fresh"}
    BY <1>2 DEF OtherTask
  <2>4. TypeOK'
    BY <2>1, <2>2, <2>3 DEF Sound
  <2>q. QED
    BY <2>1, <2>3, <2>4 DEF Sound
<1>q. QED
  BY <1>1, <1>2

LEMMA OpenInvariant == OpenSpec => [](IInv /\ Sound)
<1>1. Init => IInv /\ Sound
  BY Initially DEF Init, Sound
<1>2. HIDE DEF IInv
<1>q. QED
  BY <1>1, OpenInductive, PTL DEF OpenSpec

(* An instance with no other tasks is one that OpenSpec speaks of.         *)
THEOREM SpecIsOpen == Spec => OpenSpec
<1>1. [Next]_vars => [Next \/ OtherTask]_vars
  OBVIOUS
<1>q. QED
  BY <1>1, PTL DEF Spec, OpenSpec

HIDE DEF IInv, TypeOK, SourcesKept

(* Type correctness.                                                       *)
THEOREM TypeCorrect == Spec => []TypeOK
<1>1. IInv => TypeOK
  BY DEF IInv
<1>q. QED
  BY <1>1, SpecIsOpen, OpenInvariant, PTL

(* At every moment no container, unit or file is there without its pod's:  *)
(* what the tasks of a provisioned instance rely on (Update, OpenSpec).    *)
THEOREM LeavesSound == OpenSpec => []Sound
BY OpenInvariant, PTL

(* What is left of an instance in Podman has its .pod file and directory,  *)
(* so that deprovision can be tried again - whatever other tasks do with   *)
(* the instance between the tries.                                         *)
THEOREM OpenKept == OpenSpec => []SourcesKept
<1>1. IInv => SourcesKept
  BY DEF IInv
<1>q. QED
  BY <1>1, OpenInvariant, PTL

(* The same of an instance with no other tasks.                            *)
THEOREM Kept == Spec => []SourcesKept
BY SpecIsOpen, OpenKept, PTL

(* Setup commands are not run on data that carry the marker, whatever      *)
(* other tasks do with the instance.                                       *)
THEOREM OpenOnce == OpenSpec => []SetupOnce
<1>1. IInv => SetupOnce
  BY DEF IInv, SetupOnce
<1>q. QED
  BY <1>1, OpenInvariant, PTL

(* The same of an instance with no other tasks.                            *)
THEOREM Once == Spec => []SetupOnce
BY SpecIsOpen, OpenOnce, PTL

(* A failing step ends the task or leads a removal on.                     *)
LEMMA Erring ==
  ASSUME Failing
  PROVE  \/ Return("failure") \/ Return("none")
         \/ exec.pc \in Removal /\ \E pc \in Removal : Fail(pc)
<1> HIDE DEF IInv, Return, Fail, GoTo
<1>1. ProvisionFails \/ RemoveSecretsFails \/ RemoveFilesFails \/ UnloadFails
        \/ RemoveDirFails => Return("failure")
  BY Zenon DEF ProvisionFails, RemoveSecretsFails, RemoveFilesFails,
    UnloadFails, RemoveDirFails
<1>2. Crash => Return("none")
  BY Zenon DEF Crash
<1>3. StopUnitsFails \/ RemovePodFails \/ RemoveVolumesFails
        => exec.pc \in Removal /\ \E pc \in Removal : Fail(pc)
  BY DEF StopUnitsFails, RemovePodFails, RemoveVolumesFails
<1>q. QED
  BY <1>1, <1>2, <1>3, Zenon DEF Failing

(* Only a failed gate leads from the way up to the way down.               *)
LEMMA Rising ==
  ASSUME TypeOK, Provisioning, ~NotReady
  PROVE  exec'.pc \notin Removal
<1>1. CASE PodExists \/ Ready
  <2>1. Return("success")
    BY <1>1, Zenon DEF PodExists, Ready
  <2>q. QED
    BY <2>1
<1>2. CASE DecideSetup
  <2>1. GoTo("ready") \/ GoTo("run")
    BY <1>2, Zenon DEF DecideSetup
  <2>q. QED
    BY <2>1 DEF TypeOK
<1>3. CASE ~PodExists /\ ~Ready /\ ~DecideSetup
  <2>1. \E pc \in OnTheWay : GoTo(pc)
    BY <1>3 DEF Provisioning, PodUnknown, Prepare, RenderFiles, CreateSecrets,
      Reload, StartPod, RunSetup, RestartPod, Mark
  <2>q. QED
    BY <2>1
<1>q. QED
  BY <1>1, <1>2, <1>3

(* Only RemoveDir reports a removal, and it comes last.                    *)
LEMMA Reporting ==
  ASSUME IInv, [Next \/ OtherTask]_vars,
         Returns("cleaned") \/ (Returns("success") /\ exec.task = "deprovision")
  PROVE  RemoveDir
<1> USE DEF Returns, IInv, TypeOK
<1>1. ~(\E task \in Task : Begin(task))
  BY DEF Begin
<1>2. CASE Provisioning
  BY <1>2 DEF Provisioning, PodExists, PodUnknown, Prepare, RenderFiles,
    CreateSecrets, Reload, StartPod, DecideSetup, RunSetup, RestartPod, Mark,
    Ready, NotReady
<1>3. CASE Removing
  BY <1>3 DEF Removing, StopUnits, RemovePod, RemoveVolumes, RemoveSecrets,
    RemoveFiles, Unload
<1>4. CASE Failing
  <2>1. CASE Return("failure") \/ Return("none")
    BY <2>1
  <2>2. CASE \E pc \in Removal : Fail(pc)
    BY <2>2
  <2>q. QED
    BY <1>4, <2>1, <2>2, Erring
<1>5. CASE HaltPod
  BY <1>5 DEF HaltPod
<1>6. CASE Restarted
  BY <1>6 DEF Restarted
<1>7. CASE UNCHANGED vars
  BY <1>7 DEF vars
<1>8. ~OtherTask
  BY DEF OtherTask
<1>q. QED
  BY <1>1, <1>2, <1>3, <1>4, <1>5, <1>6, <1>7, <1>8 DEF Next

(* A reported removal has left nothing behind, unless the user manager was *)
(* restarted in the middle of one - whatever other tasks did before.       *)
THEOREM OpenClean == OpenSpec => CleanUnlessLate
<1>1. IInv /\ RemoveDir => Gone' \/ late'
  BY DEF IInv, TypeOK, RemoveDir, Gone
<1>2. IInv /\ [Next \/ OtherTask]_vars =>
        [Returns("cleaned") \/ (Returns("success") /\ exec.task = "deprovision")
           => Gone' \/ late']_vars
  BY <1>1, Reporting
<1>q. QED
  BY <1>2, OpenInvariant, PTL DEF OpenSpec, CleanUnlessLate

(* The same of an instance with no other tasks.                            *)
THEOREM Clean == Spec => CleanUnlessLate
BY SpecIsOpen, OpenClean, PTL

-----------------------------------------------------------------------------
(* How far a task has come.  A failed readiness gate goes on to a removal. *)
Position ==
  CASE exec.pc \in {"idle", "exists", "halt"} -> 0
    [] exec.pc = "prepare"  -> 1
    [] exec.pc = "render"   -> 2
    [] exec.pc = "secrets"  -> 3
    [] exec.pc = "reload"   -> 4
    [] exec.pc = "start"    -> 5
    [] exec.pc = "setup"    -> 6
    [] exec.pc = "run"      -> 7
    [] exec.pc = "restart"  -> 8
    [] exec.pc = "mark"     -> 9
    [] exec.pc = "ready"    -> 10
    [] exec.pc = "stop"     -> 11
    [] exec.pc = "pods"     -> 12
    [] exec.pc = "volumes"  -> 13
    [] exec.pc = "unsecret" -> 14
    [] exec.pc = "files"    -> 15
    [] exec.pc = "unload"   -> 16
    [] exec.pc = "rmdir"    -> 17

Further == exec'.pc = "idle" \/ Position' > Position

(* No step of a task, failed or not, is one it has taken before: provision,*)
(* the cleanup it may end in, deprovision and stop all come to an end,     *)
(* whatever fails.                                                         *)
THEOREM TasksGoOn ==
  OpenSpec => [][Provisioning \/ Removing \/ Failing \/ HaltPod => Further]_vars
<1> USE DEF TypeOK
<1>1. ASSUME TypeOK, Provisioning PROVE Further
  <2>1. CASE PodExists \/ Ready
    <3>1. Return("success")
      BY <2>1 DEF PodExists, Ready
    <3>q. QED
      BY <1>1, <3>1 DEF Further
  <2>2. CASE DecideSetup
    <3>1. exec.pc = "setup" /\ exec'.pc \in {"ready", "run"}
      BY <1>1, <2>2 DEF DecideSetup
    <3>q. QED
      BY <3>1 DEF Further, Position
  <2>3. CASE PodUnknown \/ Prepare \/ RenderFiles \/ CreateSecrets \/ Reload
    <3>1. <<exec.pc, exec'.pc>> \in
            {<<"exists", "prepare">>, <<"prepare", "render">>,
             <<"render", "secrets">>, <<"secrets", "reload">>,
             <<"reload", "start">>}
      BY <1>1, <2>3 DEF PodUnknown, Prepare, RenderFiles, CreateSecrets, Reload
    <3>q. QED
      BY <3>1 DEF Further, Position
  <2>4. CASE StartPod \/ RunSetup \/ RestartPod \/ Mark \/ NotReady
    <3>1. <<exec.pc, exec'.pc>> \in
            {<<"start", "setup">>, <<"run", "restart">>, <<"restart", "mark">>,
             <<"mark", "ready">>, <<"ready", "stop">>}
      BY <1>1, <2>4 DEF StartPod, RunSetup, RestartPod, Mark, NotReady
    <3>q. QED
      BY <3>1 DEF Further, Position
  <2>q. QED
    BY <1>1, <2>1, <2>2, <2>3, <2>4 DEF Provisioning
<1>2. ASSUME TypeOK, Removing PROVE Further
  <2>1. CASE RemoveSecrets
    <3>1. exec.pc = "unsecret" /\ (Return("failure") \/ GoTo("files"))
      BY <2>1, Zenon DEF RemoveSecrets
    <3>2. exec'.pc \in {"idle", "files"}
      BY <1>2, <3>1
    <3>q. QED
      BY <3>1, <3>2 DEF Further, Position
  <2>2. CASE RemoveDir
    BY <1>2, <2>2 DEF RemoveDir, Further
  <2>3. CASE StopUnits \/ RemovePod \/ RemoveVolumes \/ RemoveFiles \/ Unload
    <3>1. <<exec.pc, exec'.pc>> \in
            {<<"stop", "pods">>, <<"pods", "volumes">>,
             <<"volumes", "unsecret">>, <<"files", "unload">>,
             <<"unload", "rmdir">>}
      BY <1>2, <2>3 DEF StopUnits, RemovePod, RemoveVolumes, RemoveFiles, Unload
    <3>q. QED
      BY <3>1 DEF Further, Position
  <2>q. QED
    BY <1>2, <2>1, <2>2, <2>3 DEF Removing
<1>3. ASSUME TypeOK, Failing PROVE Further
  <2>1. CASE StopUnitsFails \/ RemovePodFails \/ RemoveVolumesFails
    <3>1. <<exec.pc, exec'.pc>> \in
            {<<"stop", "pods">>, <<"pods", "volumes">>, <<"volumes", "unsecret">>}
      BY <1>3, <2>1 DEF StopUnitsFails, RemovePodFails, RemoveVolumesFails
    <3>q. QED
      BY <3>1 DEF Further, Position
  <2>2. CASE ~(StopUnitsFails \/ RemovePodFails \/ RemoveVolumesFails)
    <3>1. \E result \in Result : Return(result)
      BY <1>3, <2>2 DEF Failing, ProvisionFails, RemoveSecretsFails,
        RemoveFilesFails, UnloadFails, RemoveDirFails, Crash
    <3>q. QED
      BY <1>3, <3>1 DEF Further
  <2>q. QED
    BY <2>1, <2>2
<1>4. ASSUME TypeOK, HaltPod PROVE Further
  BY <1>4 DEF HaltPod, Further
<1>5. IInv /\ [Next \/ OtherTask]_vars =>
        [Provisioning \/ Removing \/ Failing \/ HaltPod => Further]_vars
  <2> HIDE DEF TypeOK
  <2>q. QED
    BY <1>1, <1>2, <1>3, <1>4 DEF IInv
<1>q. QED
  BY <1>5, OpenInvariant, PTL DEF OpenSpec

-----------------------------------------------------------------------------
(* What IdempotentProvision is violated by, and nothing else: a provision  *)
(* that failed its readiness gate and took for its own what was there      *)
(* before.                                                                 *)
OwnRemoval == exec.pc \in Removal => exec.task = "deprovision"

(* As long as no readiness gate fails, a provision of an instance that was *)
(* there leaves its volumes, whatever else fails and other tasks do.       *)
THEOREM GateAloneRemoves == OpenSpec /\ [][~NotReady]_vars => IdempotentProvision
<1>1. Init => OwnRemoval
  BY DEF Init, OwnRemoval
<1>2. ASSUME IInv, OwnRemoval, [Next \/ OtherTask]_vars, [~NotReady]_vars
      PROVE  OwnRemoval'
  <2> USE DEF IInv, TypeOK, OwnRemoval
  <2>1. CASE \E task \in Task : Begin(task)
    <3>1. PICK task \in Task, v \in Version, completed \in {FALSE, known} :
            exec' = [task |-> task, payload |-> v, completed |-> completed,
                pc |-> CASE task = "provision"   -> "exists"
                         [] task = "deprovision" -> "stop"
                         [] task = "stop"        -> "halt",
                failed |-> FALSE, result |-> "none",
                found |-> pod # Absent /\ data = "marked"]
      BY <2>1 DEF Begin
    <3>q. QED
      BY <3>1
  <2>2. CASE Provisioning
    <3>1. CASE NotReady
      BY <1>2, <3>1 DEF NotReady, vars
    <3>2. CASE ~NotReady
      <4>1. exec'.pc \notin Removal
        BY <1>2, <2>2, <3>2, Rising
      <4>q. QED
        BY <4>1
    <3>q. QED
      BY <3>1, <3>2
  <2>3. CASE Removing
    <3>1. exec.pc \in Removal /\ exec'.task = exec.task
      BY <1>2, <2>3 DEF Removing, StopUnits, RemovePod, RemoveVolumes,
        RemoveSecrets, RemoveFiles, Unload, RemoveDir
    <3>q. QED
      BY <1>2, <3>1
  <2>4. CASE Failing
    <3>1. exec'.pc = "idle" \/ (exec.pc \in Removal /\ exec'.task = exec.task)
      <4>1. CASE Return("failure") \/ Return("none")
        BY <1>2, <4>1
      <4>2. CASE exec.pc \in Removal /\ \E pc \in Removal : Fail(pc)
        BY <1>2, <4>2
      <4>q. QED
        BY <2>4, <4>1, <4>2, Erring
    <3>q. QED
      BY <1>2, <3>1
  <2>5. CASE HaltPod \/ Restarted \/ OtherTask \/ UNCHANGED vars
    <3>1. CASE HaltPod
      <4>1. Return("success") \/ Return("failure")
        BY <3>1, Zenon DEF HaltPod
      <4>2. exec'.pc = "idle"
        BY <1>2, <4>1
      <4>q. QED
        BY <4>2
    <3>2. CASE exec' = exec
      BY <1>2, <3>2
    <3>q. QED
      BY <2>5, <3>1, <3>2 DEF Restarted, OtherTask, vars
  <2>q. QED
    BY <1>2, <2>1, <2>2, <2>3, <2>4, <2>5 DEF Next
<1>3. ASSUME IInv, OwnRemoval, [Next \/ OtherTask]_vars,
             exec.task = "provision", data = "marked"
      PROVE  data' = "marked"
  <2>1. exec.pc \notin Removal /\ exec.pc # "run" /\ Volumes = data
    BY <1>3 DEF IInv, OwnRemoval, Volumes
  <2>2. CASE \E task \in Task : Begin(task)
    BY <1>3, <2>2 DEF Begin
  <2>3. CASE Provisioning
    BY <1>3, <2>1, <2>3 DEF Provisioning, PodExists, PodUnknown, Prepare,
      RenderFiles, CreateSecrets, Reload, StartPod, DecideSetup, RunSetup,
      RestartPod, Mark, Ready, NotReady
  <2>4. CASE Removing
    BY <2>1, <2>4 DEF Removing, StopUnits, RemovePod, RemoveVolumes,
      RemoveSecrets, RemoveFiles, Unload, RemoveDir
  <2>5. CASE Failing
    BY <1>3, <2>1, <2>5 DEF Failing, ProvisionFails, StopUnitsFails,
      RemovePodFails, RemoveVolumesFails, RemoveSecretsFails, RemoveFilesFails,
      UnloadFails, RemoveDirFails, Crash
  <2>6. CASE HaltPod \/ Restarted \/ OtherTask \/ UNCHANGED vars
    BY <1>3, <2>1, <2>6 DEF HaltPod, Restarted, OtherTask, vars
  <2>q. QED
    BY <1>3, <2>2, <2>3, <2>4, <2>5, <2>6 DEF Next
<1>4. IInv /\ OwnRemoval /\ [Next \/ OtherTask]_vars =>
        [exec.task = "provision" /\ exec.found /\ data = "marked"
           => data' = "marked"]_vars
  BY <1>3
<1>q. QED
  BY <1>1, <1>2, <1>4, OpenInvariant, PTL DEF OpenSpec, IdempotentProvision

-----------------------------------------------------------------------------
(* What SetUpOnSuccess is violated by, and nothing else: a provision that  *)
(* leaves out the setup of an instance that is not set up, since its pod   *)
(* exists, or since admirald or a marker of earlier data says it was.      *)
SetUp == data \in {"setup", "marked"}

Spared == ~SetUp /\ (PodExists \/ (DecideSetup /\ (exec.completed \/ marker)))

(* Past the setup the instance is set up.                                  *)
Past == exec.pc \in {"restart", "mark", "ready"} => SetUp

LEMMA PastNext ==
  ASSUME IInv, Past, [Next \/ OtherTask]_vars, [~Spared]_vars
  PROVE  Past'
<1> USE DEF IInv, TypeOK, Past, SetUp
<1>1. CASE \E task \in Task : Begin(task)
  <2>1. PICK task \in Task, v \in Version, completed \in {FALSE, known} :
          exec' = [task |-> task, payload |-> v, completed |-> completed,
              pc |-> CASE task = "provision"   -> "exists"
                       [] task = "deprovision" -> "stop"
                       [] task = "stop"        -> "halt",
              failed |-> FALSE, result |-> "none",
              found |-> pod # Absent /\ data = "marked"]
    BY <1>1 DEF Begin
  <2>q. QED
    BY <2>1
<1>2. CASE Provisioning
  <2>1. CASE DecideSetup
    <3>1. CASE vars' = vars
      BY <3>1 DEF vars
    <3>2. CASE ~Spared
      <4>1. data' = data /\ (exec'.pc = "ready" => exec.completed \/ marker)
            /\ exec'.pc \in {"ready", "run"}
        BY <2>1 DEF DecideSetup
      <4>q. QED
        BY <2>1, <3>2, <4>1 DEF Spared
    <3>q. QED
      BY <3>1, <3>2
  <2>2. CASE RunSetup
    BY <2>2 DEF RunSetup
  <2>3. CASE RestartPod \/ Mark
    <3>1. exec.pc \in {"restart", "mark"} /\ data' \in {data, "marked", Volumes}
      BY <2>3 DEF RestartPod, Mark
    <3>q. QED
      BY <3>1 DEF Volumes
  <2>4. CASE PodExists \/ Ready
    <3>1. Return("success")
      BY <2>4, Zenon DEF PodExists, Ready
    <3>q. QED
      BY <3>1
  <2>5. CASE PodUnknown \/ Prepare \/ RenderFiles \/ CreateSecrets \/ Reload
             \/ StartPod \/ NotReady
    <3>1. \E pc \in {"prepare", "render", "secrets", "reload", "start",
                     "setup", "stop"} : GoTo(pc)
      BY <2>5 DEF PodUnknown, Prepare, RenderFiles, CreateSecrets, Reload,
        StartPod, NotReady
    <3>q. QED
      BY <3>1
  <2>q. QED
    BY <1>2, <2>1, <2>2, <2>3, <2>4, <2>5 DEF Provisioning
<1>3. CASE Removing
  <2>1. \/ \E pc \in Removal : GoTo(pc)
        \/ \E result \in Result : Return(result)
    BY <1>3 DEF Removing, StopUnits, RemovePod, RemoveVolumes, RemoveSecrets,
      RemoveFiles, Unload, RemoveDir
  <2>q. QED
    BY <2>1
<1>4. CASE Failing
  <2>1. CASE Return("failure") \/ Return("none")
    BY <2>1
  <2>2. CASE \E pc \in Removal : Fail(pc)
    BY <2>2
  <2>q. QED
    BY <1>4, <2>1, <2>2, Erring
<1>5. CASE HaltPod
  <2>1. Return("success") \/ Return("failure")
    BY <1>5, Zenon DEF HaltPod
  <2>q. QED
    BY <2>1
<1>6. CASE Restarted
  BY <1>6 DEF Restarted, Volumes
<1>7. CASE OtherTask
  BY <1>7 DEF OtherTask
<1>8. CASE UNCHANGED vars
  BY <1>8 DEF vars
<1>q. QED
  BY <1>1, <1>2, <1>3, <1>4, <1>5, <1>6, <1>7, <1>8 DEF Next

(* A provision reports success when it finds the pod or is ready.          *)
LEMMA Succeeding ==
  ASSUME IInv, [Next \/ OtherTask]_vars,
         Returns("success"), exec.task = "provision"
  PROVE  PodExists \/ Ready
<1> USE DEF IInv, TypeOK, Returns
<1>1. ~(\E task \in Task : Begin(task))
  BY DEF Begin
<1>2. CASE Provisioning
  <2>1. CASE DecideSetup
    <3>1. GoTo("ready") \/ GoTo("run")
      BY <2>1, Zenon DEF DecideSetup
    <3>q. QED
      BY <3>1
  <2>2. CASE ~PodExists /\ ~Ready /\ ~DecideSetup
    <3>1. \E pc \in Pc \ {"idle"} : GoTo(pc)
      BY <1>2, <2>2 DEF Provisioning, PodUnknown, Prepare, RenderFiles,
        CreateSecrets, Reload, StartPod, RunSetup, RestartPod, Mark, NotReady
    <3>q. QED
      BY <3>1
  <2>q. QED
    BY <2>1, <2>2
<1>3. CASE Removing
  <2>1. \/ \E pc \in Removal : GoTo(pc)
        \/ Return("failure") \/ Return("cleaned")
    BY <1>3 DEF Removing, StopUnits, RemovePod, RemoveVolumes, RemoveSecrets,
      RemoveFiles, Unload, RemoveDir
  <2>q. QED
    BY <2>1
<1>4. CASE Failing
  <2>1. CASE Return("failure") \/ Return("none")
    BY <2>1
  <2>2. CASE \E pc \in Removal : Fail(pc)
    BY <2>2
  <2>q. QED
    BY <1>4, <2>1, <2>2, Erring
<1>5. ~HaltPod
  BY DEF HaltPod
<1>6. ~Restarted /\ ~OtherTask /\ ~UNCHANGED vars
  BY DEF Restarted, OtherTask, vars
<1>q. QED
  BY <1>1, <1>2, <1>3, <1>4, <1>5, <1>6 DEF Next

(* As long as no provision leaves out a setup that was due, a provision    *)
(* that reports success leaves the application set up, whatever fails, is  *)
(* cleaned up, crashes or is done by other tasks.                          *)
THEOREM SparedAloneLacks == OpenSpec /\ [][~Spared]_vars => SetUpOnSuccess
<1>1. Init => Past
  BY DEF Init, Past
<1>2. ASSUME IInv, Past, [Next \/ OtherTask]_vars, [~Spared]_vars,
             Returns("success"), exec.task = "provision"
      PROVE  data' \in {"setup", "marked"}
  <2>1. data' = data /\ ~(UNCHANGED vars)
    <3>1. PodExists \/ Ready
      BY <1>2, Succeeding
    <3>2. data' = data
      BY <3>1 DEF PodExists, Ready
    <3>3. exec'.pc # exec.pc
      BY <1>2 DEF Returns
    <3>q. QED
      BY <3>2, <3>3 DEF vars
  <2>2. CASE PodExists
    BY <1>2, <2>1, <2>2 DEF Spared, SetUp
  <2>3. CASE Ready
    BY <1>2, <2>1, <2>3 DEF Ready, Past, SetUp
  <2>q. QED
    BY <1>2, <2>2, <2>3, Succeeding
<1>3. IInv /\ Past /\ [Next \/ OtherTask]_vars /\ [~Spared]_vars =>
        [Returns("success") /\ exec.task = "provision"
           => data' \in {"setup", "marked"}]_vars
  BY <1>2
<1>q. QED
  BY <1>1, <1>3, PastNext, OpenInvariant, PTL DEF OpenSpec, SetUpOnSuccess

-----------------------------------------------------------------------------
(* Lifecycle: each half's tasks are, for the other half, the other tasks   *)
(* that its OpenSpec allows.  Neither half keeps its own promise alone, so *)
(* the two invariants are shown together.                                  *)

LifecycleInv == IInv /\ Sound /\ U!IInv /\ (late \/ U!Sourced)

LEMMA LifecycleInitially ==
  ASSUME DataServices \subseteq Container, LifecycleInit
  PROVE  LifecycleInv /\ U!OpenInit
<1>1. IInv /\ Sound
  BY Initially DEF LifecycleInit, Init, Sound, IInv, TypeOK
<1>2. U!TypeOK /\ U!Sound /\ U!At("idle")
  BY <1>1 DEF LifecycleInit, Sound, U!TypeOK, U!Sound, U!NodeTypeOK, U!Rooted,
    U!Files, U!Kind, U!Absent
<1>3. U!OpenInit
  BY <1>2 DEF U!OpenInit
<1>4. U!IInv
  BY <1>3, U!OpenInitially
<1>5. U!Sourced
  BY <1>2 DEF LifecycleInit, Init, U!Sourced, U!Underway, U!At, U!Absent, U!Kind,
    U!Helper
<1>q. QED
  BY <1>1, <1>3, <1>4, <1>5 DEF LifecycleInv

(* To the tasks of a provisioned instance the others are other tasks, and  *)
(* leave an instance that runs with its files in place.                    *)
LEMMA MakingIsOther ==
  ASSUME LifecycleInv, Making, (IInv /\ Sound)'
  PROVE  U!OtherTask /\ (late \/ U!Sourced)'
<1>1. U!TypeOK /\ U!At("idle") /\ UNCHANGED <<vol, work>>
  BY DEF LifecycleInv, U!IInv, Making
<1>2. U!Sound'
  BY DEF Sound, U!Sound, U!NodeTypeOK, U!Rooted, U!Files, U!Kind, U!Absent
<1>3. paused' \in SUBSET {k \in paused : pod'[k] # None}
  BY DEF Making
<1>4. U!TypeOK'
  BY <1>1, <1>2, <1>3 DEF U!TypeOK, U!Sound, U!Kind
<1>5. pod' # Absent => files'["pod"] # None \/ late'
  BY DEF IInv, SourcesKept
<1>q. QED
  BY <1>1, <1>2, <1>4, <1>5 DEF U!OtherTask, U!Sourced, U!Underway, U!At,
    U!Absent, U!Kind, U!Helper

(* To the tasks that make and remove the instance the others are other     *)
(* tasks, as those leave nothing without its sources.                      *)
LEMMA KeepingIsOther ==
  ASSUME LifecycleInv, Keeping, U!IInv', U!Sourced => U!Sourced',
         files["pod"] # None => files'["pod"] # None,
         files' # files => files'["pod"] # None
  PROVE  OtherTask
<1>1. At("idle") /\ data' = Volumes /\ UNCHANGED <<marker, known, exec, late>>
  BY DEF Keeping
<1>2. Sound'
  BY DEF U!IInv, Sound, U!Sound, U!NodeTypeOK, U!Rooted, U!Files, U!Kind, U!Absent
<1>3. secrets' \in BOOLEAN /\ dir' \in BOOLEAN
  BY DEF LifecycleInv, IInv, TypeOK, Keeping
<1>4. Housed'
  BY DEF LifecycleInv, IInv, Keeping
<1>5. data' \in {data} \cup (IF data = "none" THEN {"fresh"} ELSE {})
  BY <1>1 DEF Volumes
<1>6. SourcesKept'
  <2>1. CASE late
    BY <1>1, <2>1 DEF SourcesKept
  <2>2. CASE ~late
    <3>1. pod' # Absent => files'["pod"] # None
      BY <2>2 DEF LifecycleInv, U!Sourced, U!Absent, U!Kind
    <3>2. data' # "none" => data # "none" \/ pod' # Absent
      BY <1>1 DEF Volumes
    <3>3. secrets' => secrets \/ files'["pod"] # None
      <4>1. work.payload \in Version
        BY DEF LifecycleInv, U!IInv, U!TypeOK, U!Exec
      <4>2. secrets' => secrets \/ files' = Rendered(work.payload)
        BY DEF Keeping
      <4>q. QED
        BY <4>1, <4>2 DEF Rendered
    <3>4. data # "none" \/ secrets => files["pod"] # None
      BY <2>2 DEF LifecycleInv, IInv, SourcesKept
    <3>q. QED
      BY <1>4, <3>1, <3>2, <3>3, <3>4 DEF SourcesKept
  <2>q. QED
    BY <2>1, <2>2
<1>q. QED
  BY <1>1, <1>2, <1>3, <1>4, <1>5, <1>6 DEF OtherTask

LEMMA LifecycleInductive ==
  ASSUME DataServices \subseteq Container,
         LifecycleInv, [Making \/ Keeping]_everything
  PROVE  /\ LifecycleInv'
         /\ [Next \/ OtherTask]_vars
         /\ [U!Next \/ U!OtherTask]_U!vars
<1>1. IInv /\ Sound /\ U!IInv
  BY DEF LifecycleInv
<1>2. CASE Making
  <2>1. Next
    BY <1>2 DEF Making
  <2>2. (IInv /\ Sound)'
    BY <1>1, <2>1, OpenInductive
  <2>3. U!OtherTask /\ (late \/ U!Sourced)'
    BY <1>2, <2>2, MakingIsOther
  <2>4. U!IInv'
    BY <1>1, <2>3, U!OpenInductive
  <2>q. QED
    BY <2>1, <2>2, <2>3, <2>4 DEF LifecycleInv
<1>3. CASE Keeping
  <2>1. U!Next /\ late' = late
    BY <1>3 DEF Keeping
  <2>2. U!IInv'
    BY <1>1, <2>1, U!OpenInductive
  <2>3. U!Sourced => U!Sourced'
    BY <1>1, <2>1, U!StaysSourced
  <2>4. /\ files["pod"] # None => files'["pod"] # None
        /\ files' # files => files'["pod"] # None
    BY <1>1, <2>1, U!Rendering
  <2>5. OtherTask
    BY <1>3, <2>2, <2>3, <2>4, KeepingIsOther
  <2>6. (IInv /\ Sound)'
    BY <1>1, <2>5, OpenInductive
  <2>q. QED
    BY <2>1, <2>2, <2>3, <2>5, <2>6 DEF LifecycleInv
<1>4. CASE UNCHANGED everything
  <2>1. UNCHANGED vars /\ UNCHANGED U!vars
    BY <1>4 DEF everything, vars, U!vars, U!node
  <2>2. (IInv /\ Sound)'
    BY <1>1, <2>1, OpenInductive
  <2>3. U!IInv'
    BY <1>1, <2>1, U!OpenInductive
  <2>4. (late \/ U!Sourced)'
    BY <1>4 DEF LifecycleInv, everything, vars, U!Sourced, U!Underway
  <2>q. QED
    BY <2>1, <2>2, <2>3, <2>4 DEF LifecycleInv
<1>q. QED
  BY <1>2, <1>3, <1>4

(* Beside all other tasks, those that make and remove an instance are as   *)
(* OpenSpec allows, and so are those of a provisioned one: each half's     *)
(* tasks leave to the other what it relies on.                             *)
THEOREM LifecycleIsOpen ==
  ASSUME DataServices \subseteq Container
  PROVE  LifecycleSpec => OpenSpec /\ U!OpenSpec
<1>1. LifecycleInit => LifecycleInv /\ Init /\ U!OpenInit
  BY LifecycleInitially DEF LifecycleInit
<1>2. LifecycleInv /\ [Making \/ Keeping]_everything =>
        /\ LifecycleInv'
        /\ [Next \/ OtherTask]_vars
        /\ [U!Next \/ U!OtherTask]_U!vars
  BY LifecycleInductive
<1>q. QED
  BY <1>1, <1>2, PTL DEF LifecycleSpec, OpenSpec, U!OpenSpec

(* What the tasks of an instance promise one by one they keep together: in *)
(* any sequence of provisions, removals, starts, stops, resumes, updates,  *)
(* resizes and restores, each ended anyhow, what is left of an instance    *)
(* can be removed, setup is not run on data marked as set up, a reported   *)
(* removal was one, updates and resizes bring up nothing of an earlier     *)
(* payload, no server runs under a restore of its volume, a restore that   *)
(* reports success is complete and frozen, a resume leaves nothing frozen. *)
THEOREM LifecycleIsCorrect ==
  ASSUME DataServices \subseteq Container
  PROVE  LifecycleSpec =>
           /\ []SourcesKept /\ []SetupOnce /\ CleanUnlessLate
           /\ []U!UpToDate /\ []U!WriteAlone
           /\ U!RestoredAndPaused /\ U!UnfrozenUnlessMixed
<1>1. U!OpenSpec => /\ []U!UpToDate /\ []U!WriteAlone
                    /\ U!RestoredAndPaused /\ U!UnfrozenUnlessMixed
  BY U!OpenUpdated, U!OpenAlone, U!OpenRestored, U!OpenUnfrozen
<1>q. QED
  BY <1>1, LifecycleIsOpen, OpenKept, OpenOnce, OpenClean
=============================================================================
