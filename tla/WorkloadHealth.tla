--------------------------- MODULE WorkloadHealth ---------------------------
(***************************************************************************)
(* Health reports of application pods: internal/agent/health.go            *)
(* (StartHealthChecker, reportUnavailableQuadletPods, checkAllPods) and    *)
(* the reconciler of internal/agent/agent.go and cmd/admiral-fleet/main.go *)
(* (Reconcile, StartReconciler).                                           *)
(*                                                                         *)
(* Two goroutines report.  The checker watches the rootless systemd        *)
(* manager every 500 ms and probes the pods every five seconds while it    *)
(* sees the manager active; when it sees it stopped or replaced it reports *)
(* every pod stopped.  The reconciler probes at startup and every hour     *)
(* without looking at the manager.  A report is evaluated from listings    *)
(* taken earlier and posted later; a post may be lost and is not repeated. *)
(* A restart of Fleet is the initial state: any node, any earlier reports. *)
(***************************************************************************)
EXTENDS Naturals

CONSTANTS
  Instance,      \* deployed instances: each has a .pod file
  Probed,        \* instances that declare service health checks
  HealthEvery,   \* time units in a health interval
  MaxPid         \* bound: managers started in a behaviour

ASSUME HealthAssumption ==
  /\ Probed \subseteq Instance
  /\ HealthEvery \in Nat \ {0}
  /\ MaxPid \in Nat \ {0}

Goroutine == {"checker", "reconciler"}

(* What Podman says of an instance: its pod runs with every container, runs *)
(* without one of them, is listed but does not run, is not listed.          *)
PodState == {"running", "broken", "exited", "missing"}
Status == {"healthy", "unhealthy", "stopped"}

VARIABLES
  up,          \* the rootless manager is active
  pid,         \* its PID, or that of the last one
  answers,     \* Podman answers
  pod,         \* [Instance -> PodState]
  view,        \* [Instance -> Status], the last report admirald received
  run,         \* [Goroutine -> pass over the instances]
  available,   \* managerAvailable of the checker
  known,       \* managerStatus.PID of the checker, 0 before the first
  due,         \* time until healthTicker fires; 0: its tick is waiting
  quiet,       \* history: time since reports of a manager change were sent
  last         \* history: what became of the last report of an instance

node == <<up, pid, answers, pod>>
watch == <<available, known, due, quiet>>
vars == <<node, view, run, watch, last>>

(* A pass: why it runs, where it is, the instances it has yet to report    *)
(* with what the listings said of them, and the report being posted.       *)
Why == {"first", "probe", "stop", "change"}
Pc == {"start", "idle", "list", "containers", "report", "post"}
Left == UNION {[S -> PodState] : S \in SUBSET Instance}
Out == {{}} \cup {{r} : r \in Instance \X Status}
Pass == [why : Why, pc : Pc, left : Left, out : Out]

TypeOK ==
  /\ up \in BOOLEAN /\ pid \in 1 .. MaxPid /\ answers \in BOOLEAN
  /\ pod \in [Instance -> PodState]
  /\ view \in [Instance -> Status]
  /\ run \in [Goroutine -> Pass]
  /\ available \in BOOLEAN /\ known \in 0 .. MaxPid
  /\ due \in 0 .. HealthEvery /\ quiet \in 0 .. HealthEvery
  /\ last \in [Instance -> {"before", "lost"} \cup Goroutine]

Nothing == [i \in {} |-> "missing"]
NoPods == [i \in Instance |-> "missing"]

Init ==
  /\ up \in BOOLEAN /\ pid = 1 /\ answers \in BOOLEAN
  /\ pod \in [Instance -> PodState]
  /\ view \in [Instance -> Status]
  /\ run = [g \in Goroutine |->
             [why |-> "first", pc |-> "start", left |-> Nothing, out |-> {}]]
  /\ available = FALSE /\ known = 0
  /\ due = HealthEvery /\ quiet = HealthEvery
  /\ last = [i \in Instance |-> "before"]

-----------------------------------------------------------------------------
(* checkAllPods and reportUnavailableQuadletPods                           *)

Begin(g, why, pc, left) ==
  run' = [run EXCEPT ![g] = [why |-> why, pc |-> pc, left |-> left, out |-> {}]]

(* reportUnavailableQuadletPods: every instance with a .pod file.          *)
Invalidate(g, why) == Begin(g, why, "report", NoPods)

CheckAllPods(g, why) == Begin(g, why, "list", Nothing)

(* podman pod ps; on an error the pass reports nothing.                    *)
ListPods(g) ==
  /\ run[g].pc = "list"
  /\ run' = [run EXCEPT ![g].pc = IF answers THEN "containers" ELSE "report",
                        ![g].left = IF answers THEN pod ELSE @]
  /\ UNCHANGED <<node, view, watch, last>>

(* podman ps, a moment later; on an error no container is known to run.    *)
ListContainers(g) ==
  /\ run[g].pc = "containers"
  /\ run' = [run EXCEPT ![g].pc = "report",
                        ![g].left = [i \in DOMAIN @ |->
                           IF @[i] \notin {"running", "broken"} THEN @[i]
                           ELSE IF answers /\ pod[i] = "running" THEN "running"
                           ELSE "broken"]]
  /\ UNCHANGED <<node, view, watch, last>>

(* Wrong variant: Podman's own word is reported.                           *)
ReportedVerbatim(i, listed) == IF listed = "running" THEN "healthy" ELSE listed

(* What is reported of an instance that was listed so: declared checks are *)
(* run now, the rest is from the listings.                                 *)
Reported(i, listed) ==
  CASE listed \in {"exited", "missing"} -> "stopped"
    [] listed = "broken"  -> "unhealthy"
    [] listed = "running" ->
         IF i \in Probed /\ pod[i] # "running" THEN "unhealthy" ELSE "healthy"

(* Listed pods come before .pod files without a pod.                       *)
Evaluate(g) ==
  LET left == run[g].left IN
  /\ run[g].pc = "report"
  /\ \E i \in DOMAIN left :
       /\ left[i] = "missing" => \A j \in DOMAIN left : left[j] = "missing"
       /\ run' = [run EXCEPT ![g].pc = "post",
                             ![g].left = [j \in DOMAIN left \ {i} |-> left[j]],
                             ![g].out = {<<i, Reported(i, left[i])>>}]
  /\ UNCHANGED <<node, view, watch, last>>

AfterPost(g) == run' = [run EXCEPT ![g].pc = "report", ![g].out = {}]

PostOk(g, i) ==
  /\ run[g].pc = "post"
  /\ \E s \in Status :
       /\ run[g].out = {<<i, s>>}
       /\ view' = [view EXCEPT ![i] = s]
  /\ last' = [last EXCEPT ![i] = g]
  /\ AfterPost(g)
  /\ UNCHANGED <<node, watch>>

(* The report does not arrive: a warning is logged.                        *)
PostLost(g, i) ==
  /\ run[g].pc = "post"
  /\ \E s \in Status : run[g].out = {<<i, s>>}
  /\ last' = [last EXCEPT ![i] = "lost"]
  /\ AfterPost(g)
  /\ UNCHANGED <<node, view, watch>>

(* Wrong variant: the health ticker runs on through a manager change.      *)
EndPassKeepTicker(g) ==
  /\ run[g].pc = "report"
  /\ run[g].left = Nothing
  /\ run' = [run EXCEPT ![g].pc = "idle", ![g].why = "probe"]
  /\ quiet' = IF g = "checker" /\ run[g].why = "change" THEN 0 ELSE quiet
  /\ UNCHANGED <<node, view, due, available, known, last>>

(* The tickers start after the first pass, and the health ticker is reset  *)
(* and drained after the reports of a manager change.                      *)
EndPass(g) ==
  /\ run[g].pc = "report"
  /\ run[g].left = Nothing
  /\ run' = [run EXCEPT ![g].pc = "idle", ![g].why = "probe"]
  /\ IF g = "checker" /\ run[g].why \in {"first", "change"}
     THEN /\ due' = HealthEvery
          /\ quiet' = IF run[g].why = "change" THEN 0 ELSE quiet
     ELSE UNCHANGED <<due, quiet>>
  /\ UNCHANGED <<node, view, available, known, last>>

-----------------------------------------------------------------------------
(* StartHealthChecker                                                      *)

Idle(g) == run[g].pc = "idle"

(* The first look at the manager, which may fail to be read: probe if it   *)
(* is active, report every pod stopped otherwise.                          *)
CheckerStart ==
  /\ run["checker"].pc = "start"
  /\ \/ /\ up
        /\ available' = TRUE
        /\ known' = pid
        /\ CheckAllPods("checker", "first")
     \/ /\ available' = FALSE
        /\ known' \in {0} \cup (IF up THEN {} ELSE {pid})
        /\ Invalidate("checker", "first")
  /\ UNCHANGED <<node, view, due, quiet, last>>

(* observeManager: the manager is as it was, ...                           *)
SeesSame == up /\ available /\ known = pid

(* Wrong variant: a stopped manager withdraws no report.                   *)
SeeStopSilently ==
  /\ available
  /\ available' = FALSE
  /\ UNCHANGED <<known, run>>

(* ... is gone, or its state cannot be read, ...                           *)
SeeStop ==
  /\ available
  /\ available' = FALSE
  /\ known' \in {known} \cup (IF up THEN {} ELSE {pid})
  /\ Invalidate("checker", "stop")

(* ... or is active and was not there before.                              *)
SeeChange ==
  /\ up
  /\ ~available \/ known # pid
  /\ available' = TRUE
  /\ known' = pid
  /\ Invalidate("checker", "change")

(* managerTicker, every 500 ms.                                            *)
ManagerTick ==
  /\ Idle("checker")
  /\ SeeStop \/ SeeChange
  /\ UNCHANGED <<node, view, due, quiet, last>>

(* healthTicker: observe, and probe if all is well.  The tick may have     *)
(* waited for a pass to end, so the next comes within an interval.         *)
HealthTick ==
  /\ Idle("checker")
  /\ due = 0
  /\ due' \in 1 .. HealthEvery
  /\ \/ SeeStop
     \/ SeeChange
     \/ SeesSame /\ CheckAllPods("checker", "probe") /\ UNCHANGED <<available, known>>
     \/ ~available /\ UNCHANGED <<available, known, run>>
  /\ UNCHANGED <<node, view, quiet, last>>

(* Time passes, whatever the goroutines are doing.                         *)
Elapse ==
  /\ due > 0
  /\ due' = due - 1
  /\ quiet' = IF quiet < HealthEvery THEN quiet + 1 ELSE quiet
  /\ UNCHANGED <<node, view, run, available, known, last>>

(* Wrong variant: at startup only.                                         *)
ReconcileOnce ==
  /\ run["reconciler"].pc = "start"
  /\ CheckAllPods("reconciler", "probe")
  /\ UNCHANGED <<node, view, watch, last>>

(* Reconcile, at startup and every hour.                                   *)
Reconcile ==
  /\ run["reconciler"].pc \in {"start", "idle"}
  /\ CheckAllPods("reconciler", "probe")
  /\ UNCHANGED <<node, view, watch, last>>

-----------------------------------------------------------------------------
(* The node: managers stop and start, pods fail and are removed, and only  *)
(* an active manager starts them.                                          *)

ManagerStop ==
  /\ up
  /\ up' = FALSE
  /\ UNCHANGED <<pid, answers, pod, view, run, watch, last>>

ManagerStart ==
  /\ ~up
  /\ pid < MaxPid
  /\ up' = TRUE
  /\ pid' = pid + 1
  /\ UNCHANGED <<answers, pod, view, run, watch, last>>

PodmanChange ==
  /\ answers' = ~answers
  /\ UNCHANGED <<up, pid, pod, view, run, watch, last>>

PodChange(i) ==
  /\ \E s \in PodState \ {pod[i]} :
       /\ up \/ s # "running"
       /\ pod' = [pod EXCEPT ![i] = s]
  /\ UNCHANGED <<up, pid, answers, view, run, watch, last>>

Step(g) ==
  \/ ListPods(g) \/ ListContainers(g) \/ Evaluate(g) \/ EndPass(g)
  \/ \E i \in Instance : PostOk(g, i) \/ PostLost(g, i)

Next ==
  \/ \E g \in Goroutine : Step(g)
  \/ CheckerStart \/ ManagerTick \/ HealthTick \/ Elapse \/ Reconcile
  \/ ManagerStop \/ ManagerStart \/ PodmanChange
  \/ \E i \in Instance : PodChange(i)

Spec == Init /\ [][Next]_vars

(* Goroutines and clocks run; the manager's state can be read now and then *)
(* and the API be reached now and then.  Nothing is assumed of the node.   *)
Fairness ==
  /\ WF_vars(CheckerStart) /\ WF_vars(Elapse) /\ WF_vars(Reconcile)
  /\ WF_vars(ManagerTick /\ ~SeesSame)
  /\ WF_vars(HealthTick)
  /\ \A g \in Goroutine :
       /\ WF_vars(Step(g))
       /\ \A i \in Instance : SF_vars(PostOk(g, i))

FairSpec == Spec /\ Fairness

-----------------------------------------------------------------------------
(* Properties                                                              *)

(* The checker has reason not to call any pod healthy: it holds the        *)
(* manager for gone, or for new for less than a health interval.           *)
Holding == ~available \/ quiet < HealthEvery

(* While the checker holds, no instance is shown healthy on its word: what *)
(* it reported before it saw the change has been withdrawn, unless the     *)
(* withdrawal was lost or the reconciler has spoken since.                 *)
Withdrawn ==
  Idle("checker") /\ Holding =>
    \A i \in Instance : view[i] = "healthy" => last[i] # "checker"

(* After a change of manager the checker's next probe of the pods begins a *)
(* full health interval after its reports of the change, whatever tick was *)
(* already waiting and however long those reports took.                    *)
ProbeWaits ==
  [][Idle("checker") /\ run'["checker"].pc = "list"
       => quiet = HealthEvery]_vars

(* What is to be reported of a pod that stays as it is.                    *)
Truth(s) == CASE s = "running" -> "healthy"
              [] s = "broken"  -> "unhealthy"
              [] OTHER         -> "stopped"

(* When a pod stays as it is, Podman answers and the checker no longer     *)
(* changes its mind on the manager, the control plane comes to know the    *)
(* pod's state for good, even if reports are lost (StartReconciler).       *)
Converges ==
  \A i \in Instance, s \in PodState :
    <>[](answers /\ pod[i] = s) /\ <>[][UNCHANGED <<available, known>>]_vars
      => <>[](view[i] = Truth(s))
=============================================================================
