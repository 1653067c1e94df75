---------------------------- MODULE Update_proofs ----------------------------
(***************************************************************************)
(* Proofs about Update: no container of an earlier payload outlives an     *)
(* update, no server runs under a restore of its volume, a restore that    *)
(* reports success is complete and frozen, a resume leaves nothing frozen. *)
(*                                                                         *)
(* Each property speaks of the end of a task; the conjuncts of IInv say    *)
(* what is already so at each step towards it.                             *)
(***************************************************************************)
EXTENDS Update, TLAPS

(* Which task a step belongs to.                                           *)
Tasked ==
  /\ exec.pc \in {"inspect", "unpause", "verify"} => exec.task = "resume"
  /\ exec.pc \in {"halt"} => exec.task \in {"update", "resize"}
  /\ exec.pc = "exists" => exec.task = "resize"
  /\ exec.pc = "off" => exec.task = "stop"
  /\ exec.pc \in Helper \cup {"wake", "leave"} => exec.task \in Restore
  /\ exec.pc = "load" => exec.task = "load"
  /\ exec.pc = "started" => exec.task \notin Restore

(* What runs is absent or of the payload of the task.                      *)
Current == \A k \in Kind : pod[k] \in {None, exec.payload}

Changing ==
  /\ exec.task = "update" =>
       /\ exec.pc \in {"halt", "reload", "start", "started"}
            => files = Rendered(exec.payload)
       /\ exec.pc = "start" => units = files
       /\ exec.pc \in {"reload", "start", "started"} => Current
  /\ exec.task = "resize" /\ ~exec.late =>
       /\ exec.pc \in {"reload", "start"} => files = Rendered(exec.payload)
       /\ exec.pc = "start" => units = files
       /\ exec.pc \in {"render", "reload", "start", "started"} => Current
       /\ exec.pc \in {"render", "reload"} => pod = Absent

(* Owners of volumes are stopped one by one, and then stay so.             *)
Closed ==
  ~exec.late =>
    /\ exec.pc = "owners" => \A c \in DataServices \ exec.todo : pod[c] = None
    /\ exec.pc = "extract" => \A c \in DataServices : pod[c] = None

(* Volumes are extracted one by one.                                       *)
Written ==
  /\ exec.pc = "extract"
       => \A c \in DataServices \ exec.todo : vol[c] = "restored"
  /\ exec.pc \in {"rerun", "pause", "leave"} /\ ~exec.failed
       => \A c \in DataServices : vol[c] = "restored"

(* A resume goes on from a pod that is not frozen.                         *)
Freed ==
  exec.task = "resume" /\ ~exec.mixed =>
    /\ exec.pc = "inspect" => paused = {} \/ IsPaused
    /\ exec.pc \in {"verify", "render", "reload", "start", "started"}
         => paused = {}

IInv == TypeOK /\ Sound /\ Tasked /\ Changing /\ Closed /\ Written /\ Freed

USE WorkloadAssumption, DataAssumption DEF IInv, TypeOK, NodeTypeOK, Sound, Rooted,
    Tasked, Current, Changing, Closed, Written, Freed, IsPaused, Present, Kind,
    Files, Absent, Rendered, Exec, Task, Restore, Helper, Pc, Result, node, At, GoTo,
    Return

LEMMA Initially == Init => IInv
<1> SUFFICES ASSUME Init PROVE IInv
  OBVIOUS
<1>1. PICK v \in Version :
        /\ files = Rendered(v) /\ units = files /\ pod = files
        /\ exec = [task |-> "stop", payload |-> v, todo |-> {}, pc |-> "idle",
                   failed |-> FALSE, result |-> "none", mixed |-> FALSE,
                   late |-> FALSE]
  BY DEF Init
<1>2. NodeTypeOK /\ paused = {} /\ vol = [c \in DataServices |-> "kept"]
  BY <1>1 DEF Init
<1>3. TypeOK
  BY <1>1, <1>2
<1>q. QED
  BY <1>1, <1>2, <1>3

LEMMA Begins ==
  ASSUME IInv, NEW task \in Task, Begin(task)
  PROVE  IInv'
<1>1. PICK v \in Version :
        exec' = [task |-> task, payload |-> v, todo |-> {},
                 pc |-> CASE task = "resume"    -> "inspect"
                          [] task = "stop"      -> "off"
                          [] task = "resize"    -> "exists"
                          [] task \in Restore   -> "wake"
                          [] OTHER              -> "render",
                 failed |-> FALSE, result |-> "none",
                 mixed |-> paused # {} /\ ~IsPaused, late |-> FALSE]
  BY DEF Begin
<1>2. UNCHANGED <<node, paused>>
  BY DEF Begin
<1>3. vol' \in [DataServices -> {"kept", "torn", "restored"}]
  BY DEF Begin
<1>4. /\ exec'.task = task
      /\ exec'.pc \in {"inspect", "off", "exists", "wake", "render"}
      /\ exec'.pc = "inspect" => task = "resume"
      /\ exec'.pc = "exists" => task = "resize"
      /\ exec'.pc = "off" => task = "stop"
      /\ exec'.pc = "wake" => task \in Restore
      /\ exec'.pc = "render" => task \notin {"resume", "resize"}
  BY <1>1
<1>5. exec'.mixed <=> (paused # {} /\ ~IsPaused)
  BY <1>1, Zenon
<1>6. TypeOK'
  <2>1. exec'.mixed \in BOOLEAN
    BY <1>1, Zenon
  <2>q. QED
    BY <1>1, <1>2, <1>3, <1>4, <2>1
<1>q. QED
  BY <1>2, <1>4, <1>5, <1>6

(* Between tasks, and in a rollback, IInv says nothing but TypeOK and Sound.*)
LEMMA Rests ==
  ASSUME IInv, TypeOK', Sound', exec'.pc \in {"idle", "rollback"}
  PROVE  IInv'
OBVIOUS

(* A step changes where the executor is, what is left to do, the result.   *)
LEMMA Moves ==
  ASSUME exec \in Exec, NEW pc \in Pc, NEW todo \in SUBSET DataServices,
         NEW result \in Result
  PROVE  /\ [exec EXCEPT !.todo = todo] \in Exec
         /\ [exec EXCEPT !.pc = pc, !.todo = todo] \in Exec
         /\ [exec EXCEPT !.pc = pc, !.result = result] \in Exec
<1> HIDE DEF Task, Pc, Result, IInv, TypeOK
<1>1. [exec EXCEPT !.todo = todo] \in Exec
  OBVIOUS
<1>2. [exec EXCEPT !.pc = pc, !.todo = todo] \in Exec
  OBVIOUS
<1>3. [exec EXCEPT !.pc = pc, !.result = result] \in Exec
  OBVIOUS
<1>q. QED
  BY <1>1, <1>2, <1>3

(* So the end of a task leaves IInv if the node is as it may be left.      *)
LEMMA Ending ==
  ASSUME exec \in Exec, NEW result \in Result, Return(result)
  PROVE  /\ exec' \in Exec
         /\ exec'.pc = "idle" /\ exec'.result = result
         /\ exec'.task = exec.task
<1> HIDE DEF Task, Pc, Result, IInv, TypeOK, Exec
<1>1. "idle" \in Pc
  BY DEF Pc
<1>2. exec' \in Exec
  BY <1>1, Moves DEF Exec
<1>3. exec'.pc = "idle" /\ exec'.result = result /\ exec'.task = exec.task
  BY DEF Exec
<1>q. QED
  BY <1>2, <1>3

LEMMA Ends ==
  ASSUME IInv, NEW result \in Result, Return(result), Sound', Rooted(pod)',
         (paused \in SUBSET Present)',
         (vol \in [DataServices -> {"kept", "torn", "restored"}])'
  PROVE  IInv'
<1>1. exec' \in Exec /\ exec'.pc = "idle"
  <2>1. exec \in Exec
    BY DEF IInv, TypeOK
  <2> HIDE DEF IInv, Exec, Return, Result
  <2>q. QED
    BY <2>1, Ending
<1>2. TypeOK'
  <2> HIDE DEF IInv, Exec, Return
  <2>q. QED
    BY <1>1 DEF Sound
<1> HIDE DEF Return, TypeOK, Sound
<1>q. QED
  BY <1>1, <1>2, Rests

LEMMA Turns ==
  ASSUME exec \in Exec, NEW c, NEW pc \in Pc, Turn(c, pc)
  PROVE  exec' \in Exec
<1> HIDE DEF Task, Pc, Result, IInv, TypeOK, Exec
<1>1. exec.todo \ {c} \in SUBSET DataServices
  BY DEF Exec
<1>2. exec' \in {[exec EXCEPT !.pc = pc, !.todo = DataServices],
               [exec EXCEPT !.todo = exec.todo \ {c}]}
  BY DEF Turn
<1>3. [exec EXCEPT !.todo = exec.todo \ {c}] \in Exec
  BY <1>1, Moves DEF Exec
<1>4. [exec EXCEPT !.pc = pc, !.todo = DataServices] \in Exec
  BY Moves DEF Exec
<1>q. QED
  BY <1>2, <1>3, <1>4

LEMMA GivesUp ==
  ASSUME TypeOK, GiveUp
  PROVE  exec' \in Exec /\ exec'.pc \in {"idle", "rollback"}
<1>1. CASE exec.task = "resize"
  <2>1. exec' = [exec EXCEPT !.pc = "rollback"]
    BY <1>1, Zenon DEF GiveUp
  <2>q. QED
    BY <2>1 DEF Exec
<1>2. CASE exec.task # "resize"
  <2>1. exec' = [exec EXCEPT !.pc = "idle", !.result = "failure"]
    BY <1>2, Zenon DEF GiveUp
  <2>q. QED
    BY <2>1 DEF Exec
<1>q. QED
  BY <1>1, <1>2

(* Starting a pod brings up missing containers and touches no other.       *)
LEMMA Runs ==
  ASSUME IInv, StartFails
  PROVE  /\ units' \in Files /\ pod' \in Files
         /\ Rooted(units') /\ Rooted(pod')
         /\ \A k \in Kind : pod[k] # None => pod'[k] = pod[k]
<1>1. CASE UNCHANGED <<units, pod>>
  BY <1>1
<1>2. CASE Start
  <2>1. Loaded \in Files /\ Loaded["pod"] # None
    BY <1>2 DEF Start, Loaded
  <2>2. units' = Loaded /\ pod' = [k \in Kind |-> IF pod[k] = None THEN Loaded[k] ELSE pod[k]]
    BY <1>2 DEF Start, Started
  <2>q. QED
    BY <2>1, <2>2
<1>q. QED
  BY <1>1, <1>2 DEF StartFails

LEMMA Starts ==
  ASSUME IInv, Starting
  PROVE  IInv'
<1>1. CASE Inspect
  BY <1>1 DEF Inspect
<1>2. CASE Unpause
  BY <1>2 DEF Unpause
<1>3. CASE Verify
  <2>1. CASE IsPaused
    <3>1. Return("failure") /\ UNCHANGED <<node, paused, vol>>
      BY <1>3, <2>1, Zenon DEF Verify
    <3> HIDE DEF Return
    <3>q. QED
      BY <3>1, Ends
  <2>2. CASE ~IsPaused
    <3>1. At("verify") /\ GoTo("render") /\ UNCHANGED <<node, paused, vol>>
      BY <1>3, <2>2, Zenon DEF Verify
    <3>q. QED
      BY <3>1
  <2>q. QED
    BY <2>1, <2>2
<1>4. CASE RenderFiles
  BY <1>4 DEF RenderFiles
<1>5. CASE Halt
  BY <1>5 DEF Halt, Stop
<1>6. CASE Reload
  BY <1>6 DEF Reload, DaemonReload
<1>7. CASE StartPod
  BY <1>7 DEF StartPod, Start, Started, Loaded
<1>8. CASE Report
  <2>1. /\ Return("stale") \/ Return("success")
        /\ UNCHANGED <<files, units, pod, restarts, paused, vol>>
    BY <1>8 DEF Report
  <2> HIDE DEF Return
  <2>q. QED
    BY <2>1, Ends
<1>9. CASE Off
  BY <1>9 DEF Off, Stop
<1>10. CASE Exists
  BY <1>10 DEF Exists
<1>11. CASE Rollback
  <2>1. Return("failure") /\ StartFails /\ UNCHANGED <<files, restarts, paused, vol>>
    BY <1>11, Zenon DEF Rollback, StartFails
  <2> HIDE DEF Return
  <2>q. QED
    BY <2>1, Ends, Runs
<1>q. QED
  BY <1>1, <1>2, <1>3, <1>4, <1>5, <1>6, <1>7, <1>8, <1>9, <1>10, <1>11 DEF Starting

LEMMA Restores ==
  ASSUME IInv, Restoring
  PROVE  IInv'
<1>1. CASE Wake
  <2>1. At("wake") /\ UNCHANGED <<node, vol>>
    BY <1>1 DEF Wake
  <2>2. \/ GoTo("fetch") /\ paused' \in {{}, paused}
        \/ GoTo("render") /\ UNCHANGED paused
    BY <1>1, Zenon DEF Wake
  <2>3. CASE GoTo("fetch") /\ paused' \in {{}, paused}
    BY <2>1, <2>3
  <2>4. CASE GoTo("render") /\ UNCHANGED paused
    BY <2>1, <2>4
  <2>q. QED
    BY <2>2, <2>3, <2>4
<1>2. CASE Fetch
  BY <1>2 DEF Fetch
<1>3. CASE Load
  BY <1>3 DEF Load
<1>4. CASE HelperPause
  BY <1>4 DEF HelperPause
<1>5. CASE AgentPause
  BY <1>5 DEF AgentPause
<1>6. ASSUME NEW c \in DataServices, StopOwner(c) PROVE IInv'
  <2>1. /\ At("owners") /\ c \in exec.todo /\ Turn(c, "extract")
        /\ pod' = [pod EXCEPT ![c] = None] /\ paused' = paused \ {c}
        /\ UNCHANGED <<files, units, restarts, vol>>
    BY <1>6 DEF StopOwner
  <2>2. TypeOK'
    <3>1. exec' \in Exec
      BY <2>1, Turns
    <3>2. pod'["pod"] = pod["pod"]
      BY <2>1
    <3>3. NodeTypeOK' /\ (pod'["pod"] = None => pod' = Absent)
      BY <2>1, <3>2
    <3>4. paused' \in SUBSET {k \in Kind : pod'[k] # None}
      BY <2>1
    <3>q. QED
      BY <2>1, <3>1, <3>3, <3>4
  <2>3. CASE exec.todo = {c}
    <3>1. exec' = [exec EXCEPT !.pc = "extract", !.todo = DataServices]
      BY <2>1, <2>3 DEF Turn
    <3>q. QED
      BY <2>1, <2>2, <2>3, <3>1
  <2>4. CASE exec.todo # {c}
    <3>1. exec' = [exec EXCEPT !.todo = @ \ {c}]
      BY <2>1, <2>4 DEF Turn
    <3>q. QED
      BY <2>1, <2>2, <3>1
  <2>q. QED
    BY <2>3, <2>4
<1>7. ASSUME NEW c \in DataServices, Extract(c) PROVE IInv'
  <2>1. /\ At("extract") /\ c \in exec.todo /\ Turn(c, "rerun")
        /\ vol' = [vol EXCEPT ![c] = "restored"]
        /\ UNCHANGED <<files, units, pod, restarts, paused>>
    BY <1>7 DEF Extract
  <2>2. TypeOK'
    BY <2>1, Turns
  <2>3. CASE exec.todo = {c}
    <3>1. exec' = [exec EXCEPT !.pc = "rerun", !.todo = DataServices]
      BY <2>1, <2>3 DEF Turn
    <3>q. QED
      BY <2>1, <2>2, <2>3, <3>1
  <2>4. CASE exec.todo # {c}
    <3>1. exec' = [exec EXCEPT !.todo = @ \ {c}]
      BY <2>1, <2>4 DEF Turn
    <3>q. QED
      BY <2>1, <2>2, <3>1
  <2>q. QED
    BY <2>3, <2>4
<1>8. ASSUME NEW c \in DataServices, StartOwner(c) PROVE IInv'
  <2>1. /\ At("rerun") /\ c \in exec.todo /\ Turn(c, "pause")
        /\ UNCHANGED <<files, restarts, paused, vol>>
    BY <1>8 DEF StartOwner
  <2>2. /\ units' \in Files /\ pod' \in Files
        /\ Rooted(units') /\ Rooted(pod')
        /\ \A k \in Kind : pod[k] # None => pod'[k] # None
    <3>1. CASE pod["pod"] = None
      BY <1>8, <3>1, Runs DEF StartOwner, StartFails
    <3>2. CASE pod["pod"] # None
      <4>1. Started \in Files
        BY DEF Started, Loaded
      <4>2. Started[c] # None \/ pod[c] = None
        BY DEF Started
      <4>3. pod' = [pod EXCEPT ![c] = Started[c]] /\ units' = units
        BY <1>8, <3>2 DEF StartOwner
      <4>q. QED
        BY <3>2, <4>1, <4>2, <4>3
    <3>q. QED
      BY <3>1, <3>2
  <2>3. exec' \in {[exec EXCEPT !.pc = "pause", !.todo = DataServices],
                    [exec EXCEPT !.todo = @ \ {c}]}
    BY <2>1 DEF Turn
  <2>4. TypeOK'
    <3>1. exec' \in Exec
      BY <2>1, Turns
    <3>2. NodeTypeOK' /\ paused' \in SUBSET {k \in Kind : pod'[k] # None}
      BY <2>1, <2>2
    <3>q. QED
      BY <2>1, <2>2, <3>1, <3>2
  <2>5. exec'.pc \in {"rerun", "pause"} /\ exec'.failed = exec.failed /\ exec'.task = exec.task
    BY <2>1, <2>3
  <2>6. Tasked' /\ Closed' /\ Written'
    BY <2>1, <2>4, <2>5
  <2>7. Changing' /\ Freed'
    BY <2>1, <2>4, <2>5
  <2>8. Sound'
    BY <2>1, <2>2, <2>4
  <2>q. QED
    BY <2>4, <2>6, <2>7, <2>8
<1>q. QED
  BY <1>1, <1>2, <1>3, <1>4, <1>5, <1>6, <1>7, <1>8 DEF Restoring

LEMMA Fails ==
  ASSUME IInv, Failing
  PROVE  IInv'
<1>1. CASE LooksFail
  <2>1. Return("failure") /\ UNCHANGED <<files, units, pod, restarts, paused, vol>>
    BY <1>1 DEF LooksFail
  <2> HIDE DEF Return
  <2>q. QED
    BY <2>1, Ends
<1>2. CASE UnpauseFails
  <2>1. /\ Return("failure") /\ paused' \in SUBSET paused
        /\ UNCHANGED <<files, units, pod, restarts, vol>>
    BY <1>2 DEF UnpauseFails
  <2> HIDE DEF Return
  <2>q. QED
    BY <2>1, Ends
<1>3. CASE RenderFails
  <2>1. files' \in Files /\ Sound'
    BY <1>3 DEF RenderFails, RenderPartly
  <2>2. GiveUp /\ UNCHANGED <<units, pod, restarts, paused, vol>>
    BY <1>3 DEF RenderFails
  <2>3. TypeOK'
    BY <2>1, <2>2, GivesUp
  <2>q. QED
    BY <2>1, <2>2, <2>3, GivesUp, Rests
<1>4. CASE HaltFails
  <2>1. /\ pod' \in {pod, Absent} /\ Return("failure")
        /\ UNCHANGED <<files, units, restarts, vol>>
    BY <1>4 DEF HaltFails, StopFails
  <2> HIDE DEF Return
  <2>2. CASE pod' = Absent
    <3>1. paused' = {}
      BY <1>4, <2>2 DEF HaltFails
    <3>q. QED
      BY <2>1, <2>2, <3>1, Ends
  <2>3. CASE pod' = pod /\ pod # Absent
    <3>1. paused' = paused
      BY <1>4, <2>3 DEF HaltFails
    <3>q. QED
      BY <2>1, <2>3, <3>1, Ends
  <2>q. QED
    BY <2>1, <2>2, <2>3
<1>5. CASE ReloadFails
  <2>1. /\ GiveUp /\ units' \in {units, files}
        /\ UNCHANGED <<files, pod, restarts, paused, vol>>
    BY <1>5 DEF ReloadFails, DaemonReloadFails
  <2>2. Sound'
    BY <2>1
  <2>3. TypeOK'
    BY <2>1, <2>2, GivesUp
  <2>q. QED
    BY <2>1, <2>2, <2>3, GivesUp, Rests
<1>6. CASE StartPodFails
  <2>1. GiveUp /\ StartFails /\ UNCHANGED <<files, restarts, paused, vol>>
    BY <1>6 DEF StartPodFails
  <2>2. Sound'
    BY <2>1, Runs
  <2>3. TypeOK'
    BY <2>1, <2>2, GivesUp, Runs
  <2>q. QED
    BY <2>1, <2>2, <2>3, GivesUp, Rests
<1>7. CASE RollbackFails
  <2>1. Return("down") /\ StartFails /\ UNCHANGED <<files, restarts, paused, vol>>
    BY <1>7 DEF RollbackFails
  <2>2. TypeOK'
    <3>1. exec' = [exec EXCEPT !.pc = "idle", !.result = "down"]
      BY <2>1
    <3>2. exec' \in Exec
      BY <3>1
    <3>q. QED
      BY <2>1, <3>2, Runs
  <2>3. Sound'
    BY <2>1, Runs
  <2>q. QED
    BY <2>1, <2>2, <2>3, Rests
<1>8. CASE HelperFails
  <2>1. PICK pc \in {"pause", "leave"} :
          exec' = [exec EXCEPT !.pc = pc, !.failed = TRUE]
    BY <1>8 DEF HelperFails, Quit
  <2>2. exec.pc \in Helper /\ UNCHANGED <<files, restarts>>
    BY <1>8 DEF HelperFails
  <2>3. \/ UNCHANGED <<pod, units, paused, vol>>
        \/ \E c \in exec.todo :
             /\ pod' = [pod EXCEPT ![c] = None] /\ paused' = paused \ {c}
             /\ UNCHANGED <<units, vol>>
        \/ \E c \in exec.todo :
             /\ vol' = [vol EXCEPT ![c] = "torn"]
             /\ UNCHANGED <<pod, units, paused>>
        \/ /\ \E S \in SUBSET Present : paused' = paused \cup S
           /\ UNCHANGED <<pod, units, vol>>
    BY <1>8 DEF HelperFails
  <2>4. TypeOK'
    <3>1. exec' \in [task : Task, payload : Version, todo : SUBSET DataServices,
                     pc : Pc, failed : BOOLEAN, result : Result,
                     mixed : BOOLEAN, late : BOOLEAN]
      BY <2>1
    <3>q. QED
      BY <2>2, <2>3, <3>1
  <2>5. units' = units
    BY <2>3
  <2>6. Sound'
    BY <2>2, <2>4, <2>5
  <2>q. QED
    BY <2>1, <2>2, <2>4, <2>6
<1>9. CASE AgentPauseFails
  <2>1. /\ Return("failure")
        /\ \E S \in SUBSET Present : paused' = paused \cup S
        /\ UNCHANGED <<files, units, pod, restarts, vol>>
    BY <1>9 DEF AgentPauseFails
  <2> HIDE DEF Return
  <2>q. QED
    BY <2>1, Ends
<1>10. CASE Crash
  <2>1. Return("none") /\ UNCHANGED <<files, units, pod, restarts, paused, vol>>
    BY <1>10 DEF Crash
  <2> HIDE DEF Return
  <2>q. QED
    BY <2>1, Ends
<1>q. QED
  BY <1>1, <1>2, <1>3, <1>4, <1>5, <1>6, <1>7, <1>8, <1>9, <1>10 DEF Failing

LEMMA Restarts ==
  ASSUME IInv, Restarted
  PROVE  IInv'
<1>1. /\ units' = files /\ pod' \in {files, Absent} /\ paused' = {}
      /\ exec' = [exec EXCEPT !.late = TRUE]
      /\ UNCHANGED <<files, vol>> /\ restarts' \in 0 .. MaxRestarts
  BY DEF Restarted, ManagerRestart, DaemonReload
<1>2. TypeOK'
  <2>1. exec' \in Exec
    BY <1>1
  <2>2. pod' \in Files /\ (pod'["pod"] = None => pod' = Absent)
    BY <1>1
  <2>q. QED
    BY <1>1, <2>1, <2>2
<1>3. Tasked' /\ Closed' /\ Written' /\ Sound'
  BY <1>1
<1>4. Freed'
  BY <1>1
<1>5. Changing'
  BY <1>1
<1>q. QED
  BY <1>2, <1>3, <1>4, <1>5

LEMMA OthersRest ==
  ASSUME IInv, OtherTask
  PROVE  IInv'
<1>1. exec'.pc = "idle" /\ TypeOK' /\ Sound'
  BY DEF OtherTask
<1>q. QED
  BY <1>1, Rests

LEMMA OpenInductive == IInv /\ [Next \/ OtherTask]_vars => IInv'
<1> SUFFICES ASSUME IInv, [Next \/ OtherTask]_vars PROVE IInv'
  OBVIOUS
<1>1. CASE UNCHANGED vars
  BY <1>1 DEF vars
<1>2. CASE \E task \in Task : Begin(task)
  BY <1>2, Begins
<1>q. QED
  BY <1>1, <1>2, Starts, Restores, Fails, Restarts, OthersRest DEF Next

LEMMA OpenInitially == OpenInit => IInv
BY DEF OpenInit

LEMMA OpenInvariant == OpenSpec => []IInv
<1> HIDE DEF IInv
<1>q. QED
  BY OpenInitially, OpenInductive, PTL DEF OpenSpec

(* A provisioned instance with no other task is one of the instances that  *)
(* OpenSpec takes its tasks to: what is proved of OpenSpec is so of Spec.  *)
THEOREM SpecIsOpen == Spec => OpenSpec
<1>1. Init => OpenInit
  <2>1. Init => At("idle")
    BY DEF Init
  <2>q. QED
    BY <2>1, Initially DEF OpenInit
<1>2. [Next]_vars => [Next \/ OtherTask]_vars
  OBVIOUS
<1>q. QED
  BY <1>1, <1>2, PTL DEF Spec, OpenSpec

LEMMA Invariant == Spec => []IInv
<1> HIDE DEF IInv
<1>q. QED
  BY SpecIsOpen, OpenInvariant, PTL

(* Type correctness, and that a container lives in its pod.                *)
THEOREM TypeCorrect == Spec => []TypeOK
<1>1. IInv => TypeOK
  OBVIOUS
<1>2. HIDE DEF IInv, TypeOK
<1>q. QED
  BY <1>1, Invariant, PTL

(* After an update or an undisturbed resize started the pod, none of its   *)
(* containers is from an earlier payload - whatever other tasks of the     *)
(* agent left of the instance before this one.                             *)
THEOREM OpenUpdated == OpenSpec => []UpToDate
<1>1. IInv => UpToDate
  BY DEF UpToDate
<1>2. HIDE DEF IInv
<1>q. QED
  BY <1>1, OpenInvariant, PTL

(* The same of the tasks of a provisioned instance.                        *)
THEOREM Updated == Spec => []UpToDate
BY SpecIsOpen, OpenUpdated, PTL

(* No owner of a volume runs while volumes are extracted, unless the user  *)
(* manager was restarted meanwhile - whatever other tasks left.            *)
THEOREM OpenAlone == OpenSpec => []WriteAlone
<1>1. IInv => WriteAlone
  BY DEF WriteAlone
<1>2. HIDE DEF IInv
<1>q. QED
  BY <1>1, OpenInvariant, PTL

(* The same of the tasks of a provisioned instance.                        *)
THEOREM Alone == Spec => []WriteAlone
BY SpecIsOpen, OpenAlone, PTL

(* A restore succeeds at its pause only, a resume once its pod is started. *)
LEMMA Succeeding ==
  ASSUME IInv, [Next \/ OtherTask]_vars, Returns("success")
  PROVE  /\ exec.task \in Restore => AgentPause
         /\ exec.task = "resume" => Report
<1> USE DEF Returns
<1>1. ~(\E task \in Task : Begin(task))
  BY DEF Begin
<1>2. CASE Starting
  <2>1. ~Inspect
    BY DEF Inspect
  <2>2. ~Unpause /\ ~RenderFiles /\ ~Reload /\ ~StartPod /\ ~Exists
    BY DEF Unpause, RenderFiles, Reload, StartPod, Exists
  <2>3. ~Verify
    <3>1. ASSUME Verify PROVE Return("failure") \/ GoTo("render")
      BY <3>1, Zenon DEF Verify
    <3>q. QED
      BY <3>1
  <2>4. ~Halt
    BY DEF Halt
  <2>5. ~Rollback
    BY DEF Rollback
  <2>6. Off => exec.task = "stop"
    BY DEF Off
  <2>7. Report => exec.task \notin Restore
    BY DEF Report
  <2>q. QED
    BY <1>2, <2>1, <2>2, <2>3, <2>4, <2>5, <2>6, <2>7 DEF Starting
<1>3. CASE Restoring
  <2>1. ~Wake
    BY DEF Wake
  <2>2. ~Fetch /\ ~Load /\ ~HelperPause
    BY DEF Fetch, Load, HelperPause
  <2>3. ASSUME NEW c, NEW pc \in Pc \ {"idle"}, Turn(c, pc) PROVE exec'.pc # "idle"
    BY <2>3 DEF Turn
  <2>4. ~\E c \in DataServices : StopOwner(c) \/ Extract(c) \/ StartOwner(c)
    BY <2>3 DEF StopOwner, Extract, StartOwner
  <2>5. AgentPause => exec.task # "resume"
    BY DEF AgentPause
  <2>q. QED
    BY <1>3, <2>1, <2>2, <2>4, <2>5 DEF Restoring
<1>4. ~Failing
  <2>1. ~\E result \in Result \ {"success"} : Return(result)
    <3> HIDE DEF IInv, Return
    <3>q. QED
      BY Ending DEF IInv, TypeOK
  <2>2. ~GiveUp
    <3>1. GiveUp => GoTo("rollback") \/ Return("failure")
      BY Zenon DEF GiveUp
    <3>2. ~GoTo("rollback")
      OBVIOUS
    <3> HIDE DEF Return, GoTo
    <3>q. QED
      BY <2>1, <3>1, <3>2
  <2>3. ~Quit
    <3>1. ASSUME NEW pc \in {"pause", "leave"},
                 exec' = [exec EXCEPT !.pc = pc, !.failed = TRUE]
          PROVE  FALSE
      BY <3>1
    <3>q. QED
      BY <3>1, Zenon DEF Quit
  <2> HIDE DEF Return, IInv
  <2>q. QED
    BY <2>1, <2>2, <2>3 DEF Failing, LooksFail, UnpauseFails, RenderFails, HaltFails,
      ReloadFails, StartPodFails, RollbackFails, HelperFails, AgentPauseFails, Crash
<1>5. CASE Restarted
  BY <1>5 DEF Restarted
<1>6. CASE UNCHANGED vars
  BY <1>6 DEF vars
<1>7. ~OtherTask
  BY DEF OtherTask
<1>q. QED
  BY <1>1, <1>2, <1>3, <1>4, <1>5, <1>6, <1>7 DEF Next

(* A restore that reports success has put every volume in place and leaves *)
(* every container frozen - whatever other tasks left of the instance.     *)
THEOREM OpenRestored == OpenSpec => RestoredAndPaused
<1>1. ASSUME IInv, AgentPause, Returns("success")
      PROVE  IsPaused' /\ \A c \in DataServices : vol'[c] = "restored"
  <2>1. ~exec.failed
    <3>1. ASSUME exec.failed PROVE FALSE
      <4>1. Return("failure")
        BY <1>1, <3>1, Zenon DEF AgentPause
      <4>q. QED
        BY <1>1, <4>1 DEF Returns
    <3>q. QED
      BY <3>1
  <2>2. paused' = Present /\ UNCHANGED <<node, vol>> /\ pod["pod"] # None
    BY <1>1 DEF AgentPause
  <2>3. exec.pc = "leave"
    BY <1>1 DEF AgentPause
  <2>q. QED
    BY <1>1, <2>1, <2>2, <2>3
<1>2. IInv /\ [Next \/ OtherTask]_vars =>
        [Returns("success") /\ exec.task \in Restore
           => IsPaused' /\ \A c \in DataServices : vol'[c] = "restored"]_vars
  BY <1>1, Succeeding
<1>3. HIDE DEF IInv
<1>q. QED
  BY <1>2, OpenInvariant, PTL DEF OpenSpec, RestoredAndPaused

(* The same of the tasks of a provisioned instance.                        *)
THEOREM Restored == Spec => RestoredAndPaused
BY SpecIsOpen, OpenRestored, PTL

(* A resume that reports success leaves nothing frozen, unless it found    *)
(* some containers frozen and some not - whatever other tasks left.        *)
THEOREM OpenUnfrozen == OpenSpec => UnfrozenUnlessMixed
<1>1. ASSUME IInv, Report, exec.task = "resume"
      PROVE  paused' = {} \/ exec.mixed
  BY <1>1 DEF Report
<1>2. IInv /\ [Next \/ OtherTask]_vars =>
        [Returns("success") /\ exec.task = "resume"
           => paused' = {} \/ exec.mixed]_vars
  BY <1>1, Succeeding
<1>3. HIDE DEF IInv
<1>q. QED
  BY <1>2, OpenInvariant, PTL DEF OpenSpec, UnfrozenUnlessMixed

(* The same of the tasks of a provisioned instance.                        *)
THEOREM Unfrozen == Spec => UnfrozenUnlessMixed
BY SpecIsOpen, OpenUnfrozen, PTL

-----------------------------------------------------------------------------
(* What these tasks promise the others: an instance that runs only with    *)
(* its files in place still does so at each of their steps.                *)
Underway ==
  \/ exec.pc \in Helper \cup {"halt", "reload", "start", "started", "rollback",
                             "leave"}
  \/ exec.task = "resize" /\ exec.pc = "render"

Sourced == pod # Absent \/ Underway => files["pod"] # None

(* Files are rendered, in part at least, and never removed.                *)
LEMMA Rendering ==
  ASSUME IInv, Next
  PROVE  /\ files["pod"] # None => files'["pod"] # None
         /\ files' # files => At("render") /\ files'["pod"] # None
<1>1. CASE RenderFiles
  BY <1>1 DEF RenderFiles
<1>2. CASE RenderFails
  <2>1. At("render") /\ exec.payload \in Version
    BY <1>2 DEF RenderFails
  <2>2. files' # files => files'["pod"] = exec.payload
    BY <1>2 DEF RenderFails, RenderPartly
  <2>q. QED
    BY <2>1, <2>2
<1>3. ASSUME Next, ~RenderFiles, ~RenderFails PROVE files' = files
  <2>1. CASE Starting
    BY <1>3, <2>1 DEF Starting, Inspect, Unpause, Verify, Halt, Reload,
      StartPod, Report, Off, Exists, Rollback
  <2>2. CASE Restoring
    BY <2>2 DEF Restoring, Wake, Fetch, Load, HelperPause, AgentPause,
      StopOwner, Extract, StartOwner
  <2>3. CASE Failing
    BY <1>3, <2>3 DEF Failing, LooksFail, UnpauseFails, HaltFails, ReloadFails,
      StartPodFails, RollbackFails, HelperFails, AgentPauseFails, Crash
  <2>q. QED
    BY <1>3, <2>1, <2>2, <2>3 DEF Next, Begin, Restarted, ManagerRestart
<1>q. QED
  BY <1>1, <1>2, <1>3

(* A task gets under way from a pod that is there or files it rendered.    *)
LEMMA GettingUnderway ==
  ASSUME IInv, Next, Underway'
  PROVE  Underway \/ pod # Absent \/ RenderFiles
<1> USE DEF Underway
<1>1. ~\E task \in Task : Begin(task)
  <2>1. ASSUME NEW task \in Task, Begin(task) PROVE FALSE
    <3>1. PICK v \in Version :
        exec' = [task |-> task, payload |-> v, todo |-> {},
                 pc |-> CASE task = "resume"    -> "inspect"
                          [] task = "stop"      -> "off"
                          [] task = "resize"    -> "exists"
                          [] task \in Restore   -> "wake"
                          [] OTHER              -> "render",
                 failed |-> FALSE, result |-> "none",
                 mixed |-> paused # {} /\ ~IsPaused, late |-> FALSE]
      BY <2>1 DEF Begin
    <3>q. QED
      BY <3>1
  <2>q. QED
    BY <2>1
<1>2. CASE Starting
  <2>1. ~Inspect
    BY DEF Inspect
  <2>2. ~Unpause
    BY DEF Unpause
  <2>3. ~Verify
    <3>1. ASSUME Verify PROVE Return("failure") \/ GoTo("render")
      BY <3>1, Zenon DEF Verify
    <3>2. Verify => exec.task = "resume"
      BY DEF Verify
    <3>3. ~Return("failure")
      BY Ending
    <3>4. exec.task = "resume" => ~GoTo("render")
      OBVIOUS
    <3>q. QED
      BY <3>1, <3>2, <3>3, <3>4
  <2>4. Exists => pod # Absent
    BY DEF Exists
  <2>5. Halt \/ Reload \/ StartPod \/ Report \/ Rollback => Underway
    BY DEF Halt, Reload, StartPod, Report, Rollback
  <2>6. ~Off
    <3>1. Off => Return("success")
      BY Zenon DEF Off
    <3>2. ~Return("success")
      BY Ending
    <3>q. QED
      BY <3>1, <3>2, Zenon
  <2>q. QED
    BY <1>2, <2>1, <2>2, <2>3, <2>4, <2>5, <2>6 DEF Starting
<1>3. CASE Restoring
  <2>1. ASSUME Wake PROVE pod # Absent
    <3>1. CASE pod["pod"] # None
      BY <3>1
    <3>2. CASE pod["pod"] = None
      <4>1. At("wake") /\ GoTo("render")
        BY <2>1, <3>2, Zenon DEF Wake
      <4>q. QED
        BY <4>1
    <3>q. QED
      BY <3>1, <3>2
  <2>2. Fetch \/ Load \/ HelperPause \/ AgentPause => Underway
    BY DEF Fetch, Load, HelperPause, AgentPause
  <2>3. (\E c \in DataServices : StopOwner(c) \/ Extract(c) \/ StartOwner(c)) => Underway
    BY DEF StopOwner, Extract, StartOwner
  <2>q. QED
    BY <1>3, <2>1, <2>2, <2>3 DEF Restoring
<1>4. CASE Failing
  <2>1. GiveUp /\ exec'.pc # "idle" => exec.task = "resize"
    <3>1. ASSUME GiveUp, exec.task # "resize" PROVE Return("failure")
      BY <3>1, Zenon DEF GiveUp
    <3>q. QED
      BY <3>1
  <2>2. ~(LooksFail \/ UnpauseFails \/ HaltFails \/ RollbackFails \/ AgentPauseFails \/ Crash)
    <3>1. \A result \in Result : ~Return(result)
      <4> HIDE DEF IInv, Return
      <4>1. exec \in Exec
        BY DEF IInv
      <4>q. QED
        BY <4>1, Ending
    <3>q. QED
      BY <3>1 DEF LooksFail, UnpauseFails, HaltFails, RollbackFails,
        AgentPauseFails, Crash
  <2>3. RenderFails \/ ReloadFails \/ StartPodFails => Underway
    BY <2>1 DEF RenderFails, ReloadFails, StartPodFails
  <2>4. HelperFails => Underway
    BY DEF HelperFails
  <2>q. QED
    BY <1>4, <2>2, <2>3, <2>4 DEF Failing
<1>5. CASE Restarted
  BY <1>5 DEF Restarted
<1>q. QED
  BY <1>1, <1>2, <1>3, <1>4, <1>5 DEF Next

(* Only a task that is under way starts a pod, or the user manager does.   *)
LEMMA Bringing ==
  ASSUME IInv, Next, pod' # Absent
  PROVE  Underway \/ pod # Absent \/ files["pod"] # None
<1> USE DEF Underway
<1>1. CASE \E task \in Task : Begin(task)
  BY <1>1 DEF Begin
<1>2. CASE Starting
  <2>1. StartPod \/ Rollback => Underway
    BY DEF StartPod, Rollback
  <2>q. QED
    BY <1>2, <2>1 DEF Starting, Inspect, Unpause, Verify, RenderFiles, Halt, Stop,
      Reload, Report, Off, Exists
<1>3. CASE Restoring
  <2>1. (\E c \in DataServices : StopOwner(c) \/ StartOwner(c)) => Underway
    BY DEF StopOwner, StartOwner
  <2>q. QED
    BY <1>3, <2>1 DEF Restoring, Wake, Fetch, Load, HelperPause, AgentPause, Extract
<1>4. CASE Failing
  <2>1. StartPodFails \/ RollbackFails \/ HelperFails => Underway
    BY DEF StartPodFails, RollbackFails, HelperFails
  <2>q. QED
    BY <1>4, <2>1 DEF Failing, LooksFail, UnpauseFails, RenderFails, HaltFails,
      StopFails, ReloadFails, AgentPauseFails, Crash
<1>5. CASE Restarted
  BY <1>5 DEF Restarted, ManagerRestart
<1>q. QED
  BY <1>1, <1>2, <1>3, <1>4, <1>5 DEF Next

LEMMA StaysSourced ==
  ASSUME IInv, Sourced, Next
  PROVE  Sourced'
<1>1. RenderFiles => files'["pod"] # None
  BY DEF RenderFiles
<1>2. HIDE DEF IInv, Underway, Absent
<1>q. QED
  BY <1>1, Rendering, GettingUnderway, Bringing DEF Sourced

-----------------------------------------------------------------------------
(* How far a task has come.  A resize renders after it stopped the pod.    *)
Position ==
  CASE exec.pc \in {"idle", "inspect", "exists", "off", "wake"} -> 0
    [] exec.pc = "unpause"  -> 1
    [] exec.pc = "verify"   -> 2
    [] exec.pc = "render"   -> IF exec.task = "resize" THEN 5 ELSE 3
    [] exec.pc = "halt"     -> 4
    [] exec.pc = "reload"   -> 6
    [] exec.pc = "start"    -> 7
    [] exec.pc \in {"started", "rollback", "fetch"} -> 8
    [] exec.pc \in {"load", "owners"} -> 9
    [] exec.pc = "extract"  -> 10
    [] exec.pc = "rerun"    -> 11
    [] exec.pc = "pause"    -> 12
    [] exec.pc = "leave"    -> 13

Further ==
  \/ exec'.pc = "idle"
  \/ Position' > Position
  \/ /\ Position' = Position
     /\ exec'.todo \subseteq exec.todo /\ exec'.todo # exec.todo

(* Positions are finitely many.                                            *)
LEMMA Positions ==
  ASSUME exec \in Exec
  PROVE  Position \in 0 .. 13
BY DEF Position

(* A volume's turn comes once.                                             *)
LEMMA TurnsFurther ==
  ASSUME IInv, NEW c \in exec.todo, NEW pc \in {"extract", "rerun", "pause"},
         Turn(c, pc),
         CASE pc = "extract" -> At("owners") [] pc = "rerun" -> At("extract")
           [] pc = "pause" -> At("rerun")
  PROVE  Further
<1>1. CASE exec.todo = {c}
  <2>1. exec' = [exec EXCEPT !.pc = pc, !.todo = DataServices]
    BY <1>1 DEF Turn
  <2>2. exec'.pc = pc /\ exec.pc \in {"owners", "extract", "rerun"}
    BY <2>1
  <2>3. CASE pc = "extract"
    BY <2>2, <2>3 DEF Further, Position
  <2>4. CASE pc = "rerun"
    BY <2>2, <2>4 DEF Further, Position
  <2>5. CASE pc = "pause"
    BY <2>2, <2>5 DEF Further, Position
  <2>q. QED
    BY <2>3, <2>4, <2>5
<1>2. CASE exec.todo # {c}
  <2>1. exec' = [exec EXCEPT !.todo = @ \ {c}]
    BY <1>2 DEF Turn
  <2>q. QED
    BY <2>1 DEF Further, Position
<1>q. QED
  BY <1>1, <1>2

(* No step of a task, failed or not, is one it has taken before: a task    *)
(* ends, whatever fails, in as many steps as it has positions and volumes. *)
THEOREM TasksGoOn == OpenSpec => [][Starting \/ Restoring \/ Failing => Further]_vars
<1> USE DEF Further, Position
<1>1. ASSUME IInv, Starting PROVE Further
  <2>1. CASE Verify
    <3>1. Return("failure") \/ GoTo("render")
      BY <2>1, Zenon DEF Verify
    <3>2. exec.pc = "verify" /\ exec'.pc \in {"idle", "render"}
      BY <1>1, <2>1, <3>1 DEF Verify
    <3>q. QED
      BY <3>2
  <2>2. CASE Inspect \/ Unpause \/ Exists
    BY <1>1, <2>2 DEF Inspect, Unpause, Exists
  <2>3. CASE RenderFiles \/ Halt \/ Reload
    BY <1>1, <2>3 DEF RenderFiles, Halt, Reload
  <2>4. CASE StartPod
    BY <1>1, <2>4 DEF StartPod
  <2>5. CASE Report \/ Off \/ Rollback
    BY <1>1, <2>5 DEF Report, Off, Rollback
  <2>q. QED
    BY <1>1, <2>1, <2>2, <2>3, <2>4, <2>5 DEF Starting
<1>2. ASSUME IInv, Restoring PROVE Further
  <2>1. CASE Wake
    <3>1. At("wake") /\ (GoTo("fetch") \/ GoTo("render"))
      BY <2>1, Zenon DEF Wake
    <3>q. QED
      BY <1>2, <3>1
  <2>2. CASE Fetch
    <3>1. exec.pc = "fetch" /\ exec'.pc \in {"load", "owners"}
      BY <1>2, <2>2 DEF Fetch
    <3>q. QED
      BY <3>1
  <2>3. CASE Load \/ HelperPause
    BY <1>2, <2>3 DEF Load, HelperPause
  <2>5. CASE AgentPause
    BY <1>2, <2>5 DEF AgentPause
  <2>4. CASE \E c \in DataServices : StopOwner(c) \/ Extract(c) \/ StartOwner(c)
    <3> HIDE DEF Further
    <3>q. QED
      BY <1>2, <2>4, TurnsFurther DEF StopOwner, Extract, StartOwner
  <2>q. QED
    BY <1>2, <2>1, <2>2, <2>3, <2>4, <2>5 DEF Restoring
<1>3. ASSUME IInv, Failing PROVE Further
  <2>1. GiveUp => exec'.pc = "idle" \/ exec' = [exec EXCEPT !.pc = "rollback"]
    <3>1. GiveUp => GoTo("rollback") \/ Return("failure")
      BY Zenon DEF GiveUp
    <3>2. Return("failure") => exec'.pc = "idle"
      BY <1>3, Ending
    <3>q. QED
      BY <3>1, <3>2, Zenon
  <2>2. CASE RenderFails \/ ReloadFails \/ StartPodFails
    BY <1>3, <2>1, <2>2 DEF RenderFails, ReloadFails, StartPodFails
  <2>3. CASE HelperFails
    <3>1. PICK pc \in {"pause", "leave"} :
            /\ exec' = [exec EXCEPT !.pc = pc, !.failed = TRUE]
            /\ exec.pc = "pause" => pc = "leave"
      BY <2>3 DEF HelperFails, Quit
    <3>2. exec.pc \in Helper
      BY <2>3 DEF HelperFails
    <3>q. QED
      BY <1>3, <3>1, <3>2
  <2>4. CASE LooksFail \/ UnpauseFails \/ HaltFails \/ RollbackFails \/ AgentPauseFails \/ Crash
    <3>1. \E result \in Result : Return(result)
      BY <2>4 DEF LooksFail, UnpauseFails, HaltFails, RollbackFails, AgentPauseFails, Crash
    <3>q. QED
      BY <1>3, <3>1
  <2>q. QED
    BY <1>3, <2>2, <2>3, <2>4 DEF Failing
<1>4. IInv /\ [Next \/ OtherTask]_vars => [Starting \/ Restoring \/ Failing => Further]_vars
  <2> HIDE DEF Further
  <2>q. QED
    BY <1>1, <1>2, <1>3
<1>5. HIDE DEF IInv, Further
<1>q. QED
  BY <1>4, OpenInvariant, PTL DEF OpenSpec
=============================================================================
