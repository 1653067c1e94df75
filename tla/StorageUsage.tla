---------------------------- MODULE StorageUsage ----------------------------
(***************************************************************************)
(* The storage checker of internal/agent/health.go (StartStorageChecker)   *)
(* beside the tasks of Node: a goroutine of its own lists pod files, takes *)
(* each name for an instance, reads the limit in the directory of that     *)
(* name, measures the first volume whose name starts with it and reports.  *)
(* Between any two of these steps a task may provision or remove.          *)
(***************************************************************************)
EXTENDS Node

CONSTANT
  Usage        \* what a volume can be filled to, in per cent of the limit

ASSUME UsageAssumption == 0 \in Usage /\ Usage \subseteq Nat

VARIABLES
  use,         \* [Volume -> Usage], 0 when there is no such volume
  check,       \* the storage checker
  posted       \* [Name -> what admirald last heard of its storage]

storageVars == <<nodeVars, use, check, posted>>

Name == {SafeName(i) : i \in Instance}
State == {"none", "unknown", "ok", "warning", "critical", "over_quota"}
CheckPc == {"startup", "idle", "next", "measure", "post"}
Finding == [state : State, of : Instance \cup {Nobody}]

StorageTypeOK ==
  /\ NodeTypeOK
  /\ use \in [Volume -> Usage]
  /\ check \in [pc : CheckPc, todo : SUBSET Name,
                name : Name \cup {Nobody}, vol : Volume \cup {Nobody},
                found : Finding]
  /\ posted \in [Name -> Finding]

Unheard == [state |-> "none", of |-> Nobody]
Unknown == [state |-> "unknown", of |-> Nobody]

Waiting == [pc |-> "idle", todo |-> {}, name |-> Nobody, vol |-> Nobody,
            found |-> Unheard]
Starting == [Waiting EXCEPT !.pc = "startup"]

StorageInit ==
  /\ NodeInit
  /\ use = [v \in Volume |-> 0]
  /\ check = Starting
  /\ posted = [n \in Name |-> Unheard]

-----------------------------------------------------------------------------
(* The timer of 30 seconds before the first tick.                          *)
StartUp ==
  /\ check.pc = "startup"
  /\ check' = Waiting
  /\ UNCHANGED <<nodeVars, use, posted>>

(* listQuadletPodFiles: the names of pod files stand for instances.        *)
Listed == {p[2] : p \in {q \in Pod : quadlet[q] # Nobody}}

ListPods ==
  /\ check.pc = "idle"
  /\ Listed # {}
  /\ check' = [check EXCEPT !.pc = "next", !.todo = Listed]
  /\ UNCHANGED <<nodeVars, use, posted>>

Look(name) ==
  /\ check.pc = "next" /\ name \in check.todo
  /\ UNCHANGED <<nodeVars, use, posted>>

(* Wrong variant: the first volume whatever its name.                      *)
AnyVolume(name) == {v \in Volume : podman[v] # Nobody}

(* The volumes of podman volume ls whose names start like the instance's.  *)
VolumesFor(name) ==
  {v \in Volume : podman[v] # Nobody /\ Prefix(name, v[2])}

(* readInstanceStorageLimit: the directory of that name has a limit.       *)
HasLimit(name) == name \in tier

(* findVolumeMountpoint takes the first volume it can inspect: any.        *)
Locate(name) ==
  /\ Look(name)
  /\ HasLimit(name)
  /\ \E v \in VolumesFor(name) :
       check' = [check EXCEPT !.pc = "measure", !.vol = v, !.name = name,
                              !.todo = @ \ {name}]

Report(name, finding) ==
  check' = [check EXCEPT !.pc = "post", !.name = name, !.vol = Nobody,
                         !.found = finding, !.todo = @ \ {name}]

(* "no storage limit configured", or "no volume mountpoint found"          *)
NothingToMeasure(name) ==
  /\ Look(name)
  /\ ~HasLimit(name) \/ VolumesFor(name) = {}
  /\ Report(name, Unknown)

(* Wrong variant: exactly full is not over quota.                          *)
ClassifyAbove(usedPct) ==
  IF usedPct > 100 THEN "over_quota"
  ELSE IF usedPct >= 80 THEN "critical"
  ELSE IF usedPct >= 60 THEN "warning" ELSE "ok"

(* classifyStorageState                                                    *)
Classify(usedPct) ==
  IF usedPct >= 100 THEN "over_quota"
  ELSE IF usedPct >= 80 THEN "critical"
  ELSE IF usedPct >= 60 THEN "warning" ELSE "ok"

(* du on the mountpoint, which may be gone by now.                         *)
Measure ==
  /\ check.pc = "measure"
  /\ LET made_by == podman[check.vol]
     IN Report(check.name,
               IF made_by = Nobody THEN Unknown
               ELSE [state |-> Classify(use[check.vol]), of |-> made_by])
  /\ UNCHANGED <<nodeVars, use, posted>>

(* Podman or du fails where it had something to find.                      *)
CallFails ==
  /\ \/ \E name \in check.todo :
          /\ Look(name) /\ HasLimit(name) /\ VolumesFor(name) # {}
          /\ Report(name, Unknown)
     \/ /\ check.pc = "measure" /\ podman[check.vol] # Nobody
        /\ Report(check.name, Unknown)
  /\ UNCHANGED <<nodeVars, use, posted>>

(* On to the next name, or to the next tick of the interval.               *)
GoOn ==
  check' = IF check.todo = {} THEN Waiting
           ELSE [Waiting EXCEPT !.pc = "next", !.todo = check.todo]

Post ==
  /\ check.pc = "post"
  /\ posted' = [posted EXCEPT ![check.name] = check.found]
  /\ GoOn
  /\ UNCHANGED <<nodeVars, use>>

(* A report that cannot be sent is only logged.  Where admirald holds the  *)
(* same already nothing is lost, and the step is that of Post.             *)
PostFails ==
  /\ check.pc = "post" /\ posted[check.name] # check.found
  /\ GoOn
  /\ UNCHANGED <<nodeVars, use, posted>>

-----------------------------------------------------------------------------
(* The rest of the node                                                    *)

(* Tasks go on beside the checker; a volume that goes takes its data.      *)
TaskStep ==
  /\ Tasks
  /\ use' = [v \in Volume |-> IF podman'[v] = Nobody THEN 0 ELSE use[v]]
  /\ UNCHANGED <<check, posted>>

(* The agent dies, in a task or between two.                               *)
AgentDies ==
  /\ Die \/ (check.pc # "startup" /\ UNCHANGED nodeVars)
  /\ check' = Starting
  /\ UNCHANGED <<use, posted>>

(* Workloads write to their volumes and delete from them.                  *)
Fill(v) ==
  /\ podman[v] # Nobody
  /\ \E u \in Usage \ {use[v]} : use' = [use EXCEPT ![v] = u]
  /\ UNCHANGED <<nodeVars, check, posted>>

Checking ==
  \/ StartUp \/ ListPods \/ Measure \/ Post
  \/ \E n \in Name : Locate(n) \/ NothingToMeasure(n)

Trouble == CallFails \/ PostFails \/ AgentDies

StorageNext ==
  TaskStep \/ Checking \/ Trouble \/ \E v \in Volume : Fill(v)

StorageSpec == StorageInit /\ [][StorageNext]_storageVars

(* The checker is a goroutine of its own that a ticker wakes.              *)
StorageFairSpec == StorageSpec /\ WF_storageVars(Checking)

-----------------------------------------------------------------------------
(* Properties                                                              *)

(* A storage usage admirald holds for a name was measured on a volume of   *)
(* the instance of that name - or of one whose name begins like it: the    *)
(* checker goes by prefixes of volume names.                               *)
UsageIsOwn ==
  \A n \in Name :
    LET j == posted[n].of
    IN j = Nobody \/ Prefix(n, SafeName(j)) \/ Prefix(SafeName(j), n)

(* An instance is over quota on every volume its name leads to.            *)
Exceeds(i) ==
  /\ quadlet[PodOf(i)] # Nobody
  /\ HasLimit(SafeName(i))
  /\ VolumesFor(SafeName(i)) # {}
  /\ \A v \in VolumesFor(SafeName(i)) : use[v] >= 100

(* Storage that stays over quota is in the end reported so, and for good,  *)
(* once the checker's calls and reports stop failing: findings made before *)
(* are overtaken, whatever tasks run beside it.                            *)
ExcessReported ==
  <>[][~Trouble]_storageVars =>
    \A i \in Instance :
      <>[]Exceeds(i) => <>[](posted[SafeName(i)].state = "over_quota")
=============================================================================
