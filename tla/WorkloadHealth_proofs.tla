------------------------ MODULE WorkloadHealth_proofs -----------------------
(***************************************************************************)
(* Proofs of the type invariant of WorkloadHealth, of Withdrawn and of     *)
(* ProbeWaits, for every set of instances, health interval and number of   *)
(* managers.                                                               *)
(***************************************************************************)
EXTENDS WorkloadHealth, TLAPS

(* The health ticker does not fire before a full interval has passed since *)
(* the reports of a manager change.                                        *)
Ticking == quiet + due >= HealthEvery

(* Only a pass that posts has a report in hand, and the checker has seen   *)
(* no change before it starts.                                             *)
InStep ==
  /\ \A g \in Goroutine : run[g].pc # "post" => run[g].out = {}
  /\ run["checker"].pc = "start" => quiet = HealthEvery

Checker == run["checker"]

(* The checker holds, or is reporting a change it has seen.                *)
Withholding ==
  Checker.pc # "start" /\ (Holding \/ Checker.why = "change")

ToTell(i) == i \in DOMAIN Checker.left \/ <<i, "stopped">> \in Checker.out

(* While it does it only says that pods are stopped, and has said so, or   *)
(* is still to say so, of each instance it called healthy.                 *)
Withholds ==
  Withholding =>
    /\ Checker.pc \in {"report", "post", "idle"}
    /\ Checker.pc = "idle" => Checker.left = Nothing
    /\ \A i \in DOMAIN Checker.left : Checker.left[i] = "missing"
    /\ \A r \in Checker.out : r[2] = "stopped"
    /\ \A i \in Instance :
         view[i] = "healthy" /\ last[i] = "checker" => ToTell(i)

IInv == TypeOK /\ Ticking /\ InStep /\ Withholds

-----------------------------------------------------------------------------
(* Lemmas about passes                                                     *)

LEMMA LeftType ==
  /\ \A S \in SUBSET Instance : \A f \in [S -> PodState] : f \in Left
  /\ \A f \in Left : DOMAIN f \subseteq Instance /\ f \in [DOMAIN f -> PodState]
  /\ Nothing \in Left /\ DOMAIN Nothing = {}
  /\ NoPods \in Left /\ DOMAIN NoPods = Instance
<1>1. \A S \in SUBSET Instance : \A f \in [S -> PodState] : f \in Left
  BY DEF Left
<1>2. \A f \in Left : DOMAIN f \subseteq Instance /\ f \in [DOMAIN f -> PodState]
  BY DEF Left
<1>3. Nothing \in [{} -> PodState] /\ NoPods \in [Instance -> PodState]
  BY DEF Nothing, NoPods, PodState
<1> QED BY <1>1, <1>2, <1>3 DEF Nothing, NoPods

LEMMA BeginType ==
  ASSUME TypeOK, NEW g \in Goroutine, NEW why \in Why, NEW pc \in Pc,
         NEW left \in Left, Begin(g, why, pc, left)
  PROVE  /\ run' \in [Goroutine -> Pass]
         /\ run'[g] = [why |-> why, pc |-> pc, left |-> left, out |-> {}]
         /\ \A h \in Goroutine : h # g => run'[h] = run[h]
  BY DEF TypeOK, Begin, Pass, Out

(* The steps of a pass keep its reason, type and place, and those of the   *)
(* other goroutine.                                                        *)
LEMMA StepType ==
  ASSUME TypeOK, NEW g \in Goroutine, Step(g)
  PROVE  TypeOK' /\ \A h \in Goroutine : h # g => run'[h] = run[h]
<1>0. run[g] \in Pass /\ run[g].left \in Left /\ run[g].out \in Out
  BY DEF TypeOK, Pass
<1>1. CASE ListPods(g)
  <2>1. pod \in Left
    BY LeftType DEF TypeOK
  <2>2. run' \in [Goroutine -> Pass]
    BY <1>0, <1>1, <2>1 DEF ListPods, TypeOK, Pass, Pc
  <2> QED BY <1>1, <2>2 DEF ListPods, TypeOK, node, watch
<1>2. CASE ListContainers(g)
  <2> DEFINE f == [i \in DOMAIN run[g].left |->
                     IF run[g].left[i] \notin {"running", "broken"} THEN run[g].left[i]
                     ELSE IF answers /\ pod[i] = "running" THEN "running"
                     ELSE "broken"]
  <2>1. f \in Left
    <3>1. f \in [DOMAIN run[g].left -> PodState]
      BY <1>0, LeftType DEF PodState
    <3> QED BY <1>0, <3>1, LeftType
  <2> HIDE DEF f
  <2>2. run' = [run EXCEPT ![g] = [run[g] EXCEPT !.pc = "report", !.left = f]]
    BY <1>2 DEF ListContainers, TypeOK, f
  <2>3. run' \in [Goroutine -> Pass]
    BY <1>0, <2>1, <2>2 DEF TypeOK, Pass, Pc
  <2> QED BY <1>2, <2>2, <2>3 DEF ListContainers, TypeOK, node, watch
<1>3. CASE Evaluate(g)
  <2>1. PICK i \in DOMAIN run[g].left :
          run' = [run EXCEPT ![g].pc = "post",
                    ![g].left = [j \in DOMAIN run[g].left \ {i} |-> run[g].left[j]],
                    ![g].out = {<<i, Reported(i, run[g].left[i])>>}]
    BY <1>3 DEF Evaluate
  <2> DEFINE f == [j \in DOMAIN run[g].left \ {i} |-> run[g].left[j]]
  <2>2. f \in Left
    <3>1. f \in [DOMAIN run[g].left \ {i} -> PodState]
      BY <1>0, LeftType
    <3> QED BY <1>0, <3>1, LeftType
  <2>3. {<<i, Reported(i, run[g].left[i])>>} \in Out
    <3>1. i \in Instance /\ run[g].left[i] \in PodState
      BY <1>0, LeftType
    <3>2. Reported(i, run[g].left[i]) \in Status
      BY <3>1 DEF Reported, PodState, Status
    <3> QED BY <3>1, <3>2 DEF Out
  <2> HIDE DEF f
  <2>4. run' = [run EXCEPT ![g] = [run[g] EXCEPT !.pc = "post", !.left = f,
                   !.out = {<<i, Reported(i, run[g].left[i])>>}]]
    BY <2>1 DEF TypeOK, f
  <2>5. run' \in [Goroutine -> Pass]
    BY <1>0, <2>2, <2>3, <2>4 DEF TypeOK, Pass, Pc
  <2> QED BY <1>3, <2>4, <2>5 DEF Evaluate, TypeOK, node, watch
<1>4. ASSUME NEW i \in Instance, PostOk(g, i)
      PROVE  TypeOK' /\ \A h \in Goroutine : h # g => run'[h] = run[h]
  <2>1. run' \in [Goroutine -> Pass]
    BY <1>0, <1>4 DEF PostOk, AfterPost, TypeOK, Pass, Pc, Out
  <2> QED BY <1>4, <2>1 DEF PostOk, AfterPost, TypeOK, node, watch
<1>5. ASSUME NEW i \in Instance, PostLost(g, i)
      PROVE  TypeOK' /\ \A h \in Goroutine : h # g => run'[h] = run[h]
  <2>1. run' \in [Goroutine -> Pass]
    BY <1>0, <1>5 DEF PostLost, AfterPost, TypeOK, Pass, Pc, Out
  <2> QED BY <1>5, <2>1 DEF PostLost, AfterPost, TypeOK, node, watch
<1>6. CASE EndPass(g)
  <2>1. run' \in [Goroutine -> Pass]
    BY <1>0, <1>6 DEF EndPass, TypeOK, Pass, Pc, Why
  <2>2. due' \in 0 .. HealthEvery /\ quiet' \in 0 .. HealthEvery
    BY <1>6, HealthAssumption DEF EndPass, TypeOK
  <2> QED BY <1>6, <2>1, <2>2 DEF EndPass, TypeOK, node
<1> QED BY <1>1, <1>2, <1>3, <1>4, <1>5, <1>6 DEF Step

-----------------------------------------------------------------------------
(* The invariant                                                           *)

LEMMA InitIInv == Init => IInv
<1> SUFFICES ASSUME Init PROVE IInv
  OBVIOUS
<1>1. TypeOK
  <2>1. run \in [Goroutine -> Pass]
    BY LeftType DEF Init, Pass, Why, Pc, Out
  <2>2. last \in [Instance -> {"before", "lost"} \cup Goroutine]
    BY DEF Init
  <2>3. pid \in 1 .. MaxPid /\ known \in 0 .. MaxPid
    BY HealthAssumption DEF Init
  <2>4. due \in 0 .. HealthEvery /\ quiet \in 0 .. HealthEvery
    BY HealthAssumption DEF Init
  <2> QED BY <2>1, <2>2, <2>3, <2>4 DEF Init, TypeOK
<1>2. Ticking /\ InStep /\ Withholds
  BY HealthAssumption DEF Init, Ticking, InStep, Withholds, Withholding, Checker,
                          Goroutine
<1> QED BY <1>1, <1>2 DEF IInv

(* A step of a pass of the checker.                                        *)
LEMMA CheckerStep ==
  ASSUME IInv, Step("checker")
  PROVE  Ticking' /\ InStep' /\ Withholds'
<1> USE DEF IInv
<1>0. /\ "checker" \in Goroutine /\ "reconciler" \in Goroutine
      /\ Checker \in Pass /\ Checker.left \in Left /\ Checker.out \in Out
      /\ run'["reconciler"] = run["reconciler"]
      /\ run' \in [Goroutine -> Pass] /\ TypeOK'
  BY StepType DEF Goroutine, TypeOK, Pass, Checker
<1>1. CASE ListPods("checker") \/ ListContainers("checker")
  <2>1. /\ Checker'.why = Checker.why /\ Checker'.out = Checker.out
        /\ Checker.pc \in {"list", "containers"}
        /\ Checker'.pc \in {"containers", "report"}
        /\ UNCHANGED <<available, due, quiet>>
    <3>1. CASE ListPods("checker")
      BY <1>0, <3>1 DEF ListPods, Checker, TypeOK, Pass, watch
    <3>2. CASE ListContainers("checker")
      BY <1>0, <3>2 DEF ListContainers, Checker, TypeOK, Pass, watch
    <3> QED BY <1>1, <3>1, <3>2
  <2>2. ~Withholding
    BY <2>1 DEF Withholds
  <2>3. ~Withholding'
    BY <1>0, <2>1, <2>2 DEF Withholding, Holding, Pass
  <2>4. InStep'
    BY <1>0, <2>1 DEF InStep, Goroutine, Checker, Pass
  <2> QED BY <2>1, <2>3, <2>4 DEF Withholds, Ticking
<1>2. CASE Evaluate("checker")
  <2>1. PICK i \in DOMAIN Checker.left :
          run' = [run EXCEPT !["checker"].pc = "post",
                    !["checker"].left = [j \in DOMAIN Checker.left \ {i} |-> Checker.left[j]],
                    !["checker"].out = {<<i, Reported(i, Checker.left[i])>>}]
    BY <1>2 DEF Evaluate, Checker
  <2>2. /\ Checker'.pc = "post" /\ Checker'.why = Checker.why
        /\ Checker'.left = [j \in DOMAIN Checker.left \ {i} |-> Checker.left[j]]
        /\ Checker'.out = {<<i, Reported(i, Checker.left[i])>>}
        /\ Checker.pc = "report" /\ Checker.out = {}
        /\ UNCHANGED <<available, due, quiet, view, last>>
    BY <1>0, <1>2, <2>1 DEF Evaluate, Checker, TypeOK, Pass, watch, InStep
  <2>3. Withholding' => Withholding
    BY <2>2 DEF Withholding, Holding
  <2>4. ASSUME Withholding PROVE Withholds'
    <3>1. Reported(i, Checker.left[i]) = "stopped"
      <4>1. Checker.left[i] = "missing"
        BY <2>1, <2>4 DEF Withholds
      <4> QED BY <4>1 DEF Reported
    <3>2. \A j \in Instance : ToTell(j) => ToTell(j)'
      BY <2>2, <3>1 DEF ToTell
    <3>3. \A r \in Checker'.out : r[2] = "stopped"
      BY <2>2, <3>1
    <3>4. \A j \in DOMAIN Checker'.left : Checker'.left[j] = "missing"
      BY <2>2, <2>4 DEF Withholds
    <3> QED BY <2>2, <2>4, <3>2, <3>3, <3>4 DEF Withholds
  <2>5. Withholds'
    BY <2>3, <2>4 DEF Withholds
  <2> QED BY <1>0, <2>2, <2>5 DEF InStep, Ticking, Goroutine, Checker
<1>3. ASSUME NEW i \in Instance, PostOk("checker", i) \/ PostLost("checker", i)
      PROVE  Ticking' /\ InStep' /\ Withholds'
  <2>1. PICK s \in Status : Checker.out = {<<i, s>>}
    BY <1>3 DEF PostOk, PostLost, Checker
  <2>2. /\ Checker.pc = "post"
        /\ Checker' = [Checker EXCEPT !.pc = "report", !.out = {}]
        /\ UNCHANGED <<available, due, quiet>>
        /\ \A j \in Instance : j # i => view'[j] = view[j] /\ last'[j] = last[j]
        /\ last'[i] = "lost" \/ view'[i] = s
    <3>1. CASE PostOk("checker", i)
      <4>1. view' = [view EXCEPT ![i] = s]
        <5>1. PICK q \in Status : /\ Checker.out = {<<i, q>>}
                                  /\ view' = [view EXCEPT ![i] = q]
          BY <3>1 DEF PostOk, Checker
        <5>2. <<i, q>> = <<i, s>>
          BY <2>1, <5>1, Zenon
        <5> QED BY <5>1, <5>2
      <4>2. \A j \in Instance : j # i => view'[j] = view[j] /\ last'[j] = last[j]
        BY <3>1, <4>1 DEF PostOk, TypeOK
      <4>3. view'[i] = s
        BY <4>1 DEF TypeOK
      <4>4. Checker' = [Checker EXCEPT !.pc = "report", !.out = {}]
        BY <1>0, <3>1 DEF PostOk, AfterPost, Checker, TypeOK
      <4> QED BY <3>1, <4>2, <4>3, <4>4 DEF PostOk, Checker, watch
    <3>2. CASE PostLost("checker", i)
      BY <1>0, <2>1, <3>2 DEF PostLost, AfterPost, Checker, TypeOK, Pass, watch
    <3> QED BY <1>3, <3>1, <3>2
  <2>3. Withholding' => Withholding
    BY <1>0, <2>2 DEF Withholding, Holding, Pass
  <2>4. ASSUME Withholding PROVE Withholds'
    <3>1. s = "stopped"
      BY <2>1, <2>4 DEF Withholds
    <3>2. /\ Checker'.pc = "report" /\ Checker'.left = Checker.left
          /\ Checker'.out = {}
      BY <1>0, <2>2 DEF Pass
    <3>3. ASSUME NEW j \in Instance, view'[j] = "healthy", last'[j] = "checker"
          PROVE  ToTell(j)'
      <4>1. j # i
        BY <2>2, <3>1, <3>3
      <4> QED BY <2>1, <2>2, <2>4, <3>2, <3>3, <4>1 DEF Withholds, ToTell
    <3> QED BY <2>4, <3>2, <3>3 DEF Withholds
  <2>5. Withholds'
    BY <2>3, <2>4 DEF Withholds
  <2>6. InStep'
    BY <1>0, <2>2 DEF InStep, Goroutine, Checker, Pass
  <2> QED BY <2>2, <2>5, <2>6 DEF Ticking
<1>4. CASE EndPass("checker")
  <2>1. /\ Checker' = [Checker EXCEPT !.pc = "idle", !.why = "probe"]
        /\ Checker.pc = "report" /\ Checker.left = Nothing
        /\ available' = available /\ view' = view /\ last' = last
    BY <1>0, <1>4 DEF EndPass, Checker, TypeOK
  <2>2. Checker.out = {}
    BY <1>0, <2>1 DEF InStep, Checker
  <2>3. /\ Checker'.pc = "idle" /\ Checker'.why = "probe"
        /\ Checker'.left = Nothing /\ Checker'.out = {}
    BY <1>0, <2>1, <2>2 DEF Pass
  <2>4. Ticking'
    BY <1>4, HealthAssumption DEF EndPass, Ticking, TypeOK
  <2>5. Withholding' => Withholding
    BY <1>4, <2>1, <2>3 DEF Withholding, Holding, EndPass, Checker
  <2>6. ASSUME Withholding PROVE Withholds'
    BY <2>1, <2>2, <2>3, <2>6, LeftType DEF Withholds, ToTell
  <2>7. InStep'
    BY <1>0, <2>3 DEF InStep, Goroutine, Checker
  <2> QED BY <2>4, <2>5, <2>6, <2>7 DEF Withholds
<1> QED BY <1>1, <1>2, <1>3, <1>4 DEF Step

(* A step of a pass of the reconciler: it does not speak for the checker.  *)
LEMMA ReconcilerStep ==
  ASSUME IInv, Step("reconciler")
  PROVE  Ticking' /\ InStep' /\ Withholds'
<1> USE DEF IInv
<1>0. /\ "checker" \in Goroutine /\ "reconciler" \in Goroutine
      /\ run'["checker"] = run["checker"]
      /\ run["reconciler"] \in Pass /\ run' \in [Goroutine -> Pass]
  BY StepType DEF Goroutine, TypeOK
<1>1. UNCHANGED <<available, due, quiet>>
  BY DEF Step, ListPods, ListContainers, Evaluate, PostOk, PostLost, EndPass, watch
<1>2. \A i \in Instance :
        view'[i] = "healthy" /\ last'[i] = "checker"
          => view[i] = "healthy" /\ last[i] = "checker"
  BY DEF Step, ListPods, ListContainers, Evaluate, PostOk, PostLost, EndPass, TypeOK
<1>3. run'["reconciler"].pc # "post" => run'["reconciler"].out = {}
  <2>1. CASE ListPods("reconciler")
    BY <1>0, <2>1 DEF ListPods, TypeOK, Pass, InStep
  <2>2. CASE ListContainers("reconciler")
    BY <1>0, <2>2 DEF ListContainers, TypeOK, Pass, InStep
  <2>3. CASE Evaluate("reconciler")
    <3>1. run'["reconciler"].pc = "post"
      <4> DEFINE left == run["reconciler"].left
      <4>1. PICK i \in DOMAIN left :
              run' = [run EXCEPT !["reconciler"].pc = "post",
                        !["reconciler"].left = [j \in DOMAIN left \ {i} |-> left[j]],
                        !["reconciler"].out = {<<i, Reported(i, left[i])>>}]
        BY <2>3 DEF Evaluate
      <4> QED BY <1>0, <4>1 DEF TypeOK, Pass
    <3> QED BY <3>1
  <2>4. ASSUME NEW i \in Instance, PostOk("reconciler", i) \/ PostLost("reconciler", i)
        PROVE  run'["reconciler"].out = {}
    BY <1>0, <2>4 DEF PostOk, PostLost, AfterPost, TypeOK, Pass
  <2>5. CASE EndPass("reconciler")
    BY <1>0, <2>5 DEF EndPass, TypeOK, Pass, InStep
  <2> QED BY <2>1, <2>2, <2>3, <2>4, <2>5 DEF Step
<1> QED BY <1>0, <1>1, <1>2, <1>3
        DEF Ticking, InStep, Withholds, Withholding, Holding, ToTell, Checker, Goroutine

(* Invalidating takes every instance back, whatever was said before.       *)
LEMMA InvalidateWithholds ==
  ASSUME TypeOK, InStep, NEW why \in Why, Invalidate("checker", why)
  PROVE  /\ run' \in [Goroutine -> Pass]
         /\ InStep'
         /\ Withholds'
<1>1. "checker" \in Goroutine /\ "report" \in Pc /\ NoPods \in Left
  BY LeftType DEF Goroutine, Pc
<1>2. /\ run' \in [Goroutine -> Pass]
      /\ Checker' = [why |-> why, pc |-> "report", left |-> NoPods, out |-> {}]
      /\ \A h \in Goroutine : h # "checker" => run'[h] = run[h]
  BY <1>1, BeginType DEF Invalidate, Checker
<1>3. \A i \in Instance : ToTell(i)'
  BY <1>2, LeftType DEF ToTell
<1>4. \A i \in DOMAIN NoPods : NoPods[i] = "missing"
  BY DEF NoPods
<1> QED BY <1>2, <1>3, <1>4 DEF InStep, Withholds, Checker

(* A probe by the checker starts when it does not withhold.                *)
LEMMA ProbeWithholds ==
  ASSUME TypeOK, InStep, NEW why \in {"first", "probe"},
         CheckAllPods("checker", why), available', quiet' = HealthEvery
  PROVE  /\ run' \in [Goroutine -> Pass]
         /\ InStep'
         /\ Withholds'
<1>1. "checker" \in Goroutine /\ "list" \in Pc /\ Nothing \in Left /\ why \in Why
  BY LeftType DEF Goroutine, Pc, Why
<1>2. /\ run' \in [Goroutine -> Pass]
      /\ Checker' = [why |-> why, pc |-> "list", left |-> Nothing, out |-> {}]
      /\ \A h \in Goroutine : h # "checker" => run'[h] = run[h]
  BY <1>1, BeginType DEF CheckAllPods, Checker
<1>3. ~Withholding'
  BY <1>2, HealthAssumption DEF Withholding, Holding
<1> QED BY <1>2, <1>3 DEF InStep, Withholds, Checker

(* What the checker remembers of the manager is one it could have seen.    *)
LEMMA ObserveType ==
  ASSUME TypeOK, CheckerStart \/ ManagerTick \/ HealthTick
  PROVE  /\ UNCHANGED node
         /\ UNCHANGED <<view, quiet, last>>
         /\ available' \in BOOLEAN
         /\ known' \in 0 .. MaxPid
<1>1. UNCHANGED node /\ UNCHANGED <<view, quiet, last>>
  BY DEF CheckerStart, ManagerTick, HealthTick
<1>2. available' \in {TRUE, FALSE, available}
  BY DEF CheckerStart, ManagerTick, HealthTick, SeeStop, SeeChange
<1>3. known' \in {0, pid, known}
  BY Zenon DEF CheckerStart, ManagerTick, HealthTick, SeeStop, SeeChange
<1>4. available \in BOOLEAN /\ known \in 0 .. MaxPid /\ pid \in 1 .. MaxPid
  BY DEF TypeOK
<1>5. available' \in BOOLEAN
  BY <1>2, <1>4
<1>6. known' \in 0 .. MaxPid
  BY <1>3, <1>4, HealthAssumption
<1> QED BY <1>1, <1>5, <1>6

LEMMA NextIInv == IInv /\ [Next]_vars => IInv'
<1> SUFFICES ASSUME IInv, [Next]_vars PROVE IInv'
  OBVIOUS
<1> USE HealthAssumption
<1>0. "checker" \in Goroutine /\ "reconciler" \in Goroutine
  BY DEF Goroutine
<1>1. ASSUME NEW g \in Goroutine, Step(g) PROVE IInv'
  BY <1>1, StepType, CheckerStep, ReconcilerStep DEF IInv, Goroutine
<1>2. CASE CheckerStart
  <2>1. due' = due /\ quiet = HealthEvery /\ quiet' = quiet
    BY <1>2 DEF CheckerStart, IInv, InStep
  <2>2. run' \in [Goroutine -> Pass] /\ InStep' /\ Withholds'
    <3>1. CASE available' /\ CheckAllPods("checker", "first")
      BY <2>1, <3>1, ProbeWithholds DEF IInv
    <3>2. CASE Invalidate("checker", "first")
      BY <3>2, InvalidateWithholds DEF IInv, Why
    <3> QED BY <1>2, <3>1, <3>2 DEF CheckerStart
  <2> QED BY <1>2, <2>1, <2>2, ObserveType DEF IInv, TypeOK, Ticking, node
<1>3. CASE ManagerTick
  <2>1. due' = due
    BY <1>3 DEF ManagerTick
  <2>2. run' \in [Goroutine -> Pass] /\ InStep' /\ Withholds'
    BY <1>3, InvalidateWithholds DEF ManagerTick, SeeStop, SeeChange, IInv, Why
  <2> QED BY <1>3, <2>1, <2>2, ObserveType DEF IInv, TypeOK, Ticking, node
<1>4. CASE HealthTick
  <2>1. /\ UNCHANGED <<view, quiet, last>>
        /\ quiet = HealthEvery
        /\ due' \in 1 .. HealthEvery
    BY <1>4, ObserveType DEF HealthTick, IInv, TypeOK, Ticking
  <2>2. run' \in [Goroutine -> Pass] /\ InStep' /\ Withholds'
    <3>1. CASE SeeStop \/ SeeChange
      BY <3>1, InvalidateWithholds DEF SeeStop, SeeChange, IInv, Why
    <3>2. CASE SeesSame /\ CheckAllPods("checker", "probe") /\ UNCHANGED available
      BY <2>1, <3>2, ProbeWithholds DEF IInv, SeesSame
    <3>3. CASE ~available /\ UNCHANGED <<available, run>>
      BY <2>1, <3>3 DEF IInv, TypeOK, InStep, Withholds, Withholding, Holding,
                        ToTell, Checker
    <3> QED BY <1>4, <3>1, <3>2, <3>3 DEF HealthTick
  <2>3. Ticking'
    <3>1. quiet' = HealthEvery /\ due' \in Nat
      BY <2>1
    <3>2. \A m, n \in Nat : m + n >= m
      OBVIOUS
    <3>3. quiet' + due' >= HealthEvery
      BY <3>1, <3>2, Zenon
    <3> QED BY <3>3 DEF Ticking
  <2>4. TypeOK'
    BY <1>4, <2>1, <2>2, ObserveType DEF IInv, TypeOK, node
  <2> QED BY <2>2, <2>3, <2>4 DEF IInv
<1>5. CASE Elapse
  <2>1. /\ UNCHANGED <<node, view, run, available, known, last>>
        /\ due' \in 0 .. HealthEvery /\ quiet' \in 0 .. HealthEvery
        /\ quiet' + due' >= HealthEvery
        /\ quiet = HealthEvery => quiet' = HealthEvery
        /\ quiet' < HealthEvery => quiet < HealthEvery
    BY <1>5 DEF Elapse, IInv, TypeOK, Ticking
  <2> QED BY <2>1 DEF IInv, TypeOK, Ticking, InStep, Withholds, Withholding, Holding,
                      ToTell, Checker, node
<1>6. CASE Reconcile
  <2>1. UNCHANGED <<node, view, watch, last>>
    BY <1>6 DEF Reconcile
  <2>2. "probe" \in Why /\ "list" \in Pc /\ Nothing \in Left
    BY LeftType DEF Why, Pc
  <2>3. /\ run' \in [Goroutine -> Pass]
        /\ run'["reconciler"] = [why |-> "probe", pc |-> "list", left |-> Nothing,
                                 out |-> {}]
        /\ run'["checker"] = run["checker"]
    <3>1. Begin("reconciler", "probe", "list", Nothing) /\ TypeOK
      BY <1>6 DEF Reconcile, CheckAllPods, IInv
    <3> QED BY <1>0, <2>2, <3>1, BeginType
  <2> QED BY <2>1, <2>3 DEF IInv, TypeOK, Ticking, InStep, Withholds, Withholding,
                            Holding, ToTell, Checker, Goroutine, node, watch
<1>7. CASE ManagerStop \/ ManagerStart \/ PodmanChange \/ \E i \in Instance : PodChange(i)
  <2>1. UNCHANGED <<view, run, watch, last>>
    BY <1>7 DEF ManagerStop, ManagerStart, PodmanChange, PodChange
  <2>2. /\ up' \in BOOLEAN /\ pid' \in 1 .. MaxPid /\ answers' \in BOOLEAN
        /\ pod' \in [Instance -> PodState]
    <3>1. CASE ManagerStop
      BY <3>1 DEF ManagerStop, IInv, TypeOK
    <3>2. CASE ManagerStart
      BY <3>2 DEF ManagerStart, IInv, TypeOK
    <3>3. CASE PodmanChange
      BY <3>3 DEF PodmanChange, IInv, TypeOK
    <3>4. ASSUME NEW i \in Instance, PodChange(i)
          PROVE  UNCHANGED <<up, pid, answers>> /\ pod' \in [Instance -> PodState]
      BY <3>4 DEF PodChange, IInv, TypeOK
    <3> QED BY <1>7, <3>1, <3>2, <3>3, <3>4 DEF IInv, TypeOK
  <2> QED BY <2>1, <2>2 DEF IInv, TypeOK, Ticking, InStep, Withholds, Withholding,
                            Holding, ToTell, Checker, watch
<1>8. CASE UNCHANGED vars
  BY <1>8 DEF vars, node, watch, IInv, TypeOK, Ticking, InStep, Withholds, Withholding,
              Holding, ToTell, Checker
<1> QED BY <1>1, <1>2, <1>3, <1>4, <1>5, <1>6, <1>7, <1>8 DEF Next

-----------------------------------------------------------------------------
THEOREM Invariance == Spec => []IInv
  BY InitIInv, NextIInv, PTL DEF Spec

(* Passes, reports, tickers and the node's state are of their types.       *)
THEOREM TypeCorrect == Spec => []TypeOK
  BY Invariance, PTL DEF IInv

(* StartHealthChecker: while the checker holds the manager for gone or     *)
(* new, nothing it reported before stands as healthy.                      *)
THEOREM Withdraws == Spec => []Withdrawn
<1>1. IInv => Withdrawn
  <2> SUFFICES ASSUME IInv, Idle("checker"), Holding, NEW i \in Instance,
                      view[i] = "healthy", last[i] = "checker"
               PROVE  FALSE
    BY DEF Withdrawn
  <2>1. Checker.pc = "idle" /\ Checker.out = {}
    BY DEF Idle, Checker, IInv, InStep, Goroutine
  <2>2. i \in DOMAIN Checker.left
    BY <2>1 DEF IInv, Withholds, Withholding, ToTell
  <2> QED BY <2>1, <2>2, LeftType DEF IInv, Withholds, Withholding
<1> QED BY <1>1, Invariance, PTL

(* StartHealthChecker: the probe after a manager change comes a full       *)
(* health interval after its reports.                                      *)
THEOREM Waits == Spec => ProbeWaits
<1>1. ASSUME IInv, [Next]_vars, Idle("checker"), run'["checker"].pc = "list"
      PROVE  quiet = HealthEvery
  <2>1. HealthTick
    <3>1. run["checker"].pc = "idle" /\ "checker" \in Goroutine
      BY <1>1 DEF Idle, Goroutine
    <3>2. ~\E g \in Goroutine : Step(g)
      <4>1. ~Step("checker")
        BY <1>1, <3>1, StepType
        DEF Step, ListPods, ListContainers, Evaluate, PostOk, PostLost, EndPass
      <4>2. Step("reconciler") => run'["checker"] = run["checker"]
        BY <1>1, <3>1, StepType DEF IInv, Goroutine
      <4> QED BY <1>1, <3>1, <4>1, <4>2 DEF Goroutine
    <3>3. ~CheckerStart
      BY <3>1 DEF CheckerStart
    <3>4. ManagerTick => run'["checker"].pc = "report"
      <4>1. ManagerTick => \E why \in Why : Begin("checker", why, "report", NoPods)
        BY DEF ManagerTick, SeeStop, SeeChange, Invalidate, Why
      <4> QED BY <1>1, <3>1, <4>1 DEF Begin, IInv, TypeOK
    <3>5. Reconcile => run'["checker"] = run["checker"]
      BY <1>1, <3>1 DEF Reconcile, CheckAllPods, Begin, IInv, TypeOK
    <3>6. Elapse \/ ManagerStop \/ ManagerStart \/ PodmanChange
            \/ (\E i \in Instance : PodChange(i)) \/ UNCHANGED vars
          => run' = run
      BY DEF Elapse, ManagerStop, ManagerStart, PodmanChange, PodChange, vars
    <3> QED BY <1>1, <3>1, <3>2, <3>3, <3>4, <3>5, <3>6 DEF Next
  <2>2. due = 0
    BY <2>1 DEF HealthTick
  <2> QED BY <1>1, <2>2, HealthAssumption DEF IInv, TypeOK, Ticking
<1>2. IInv /\ [Next]_vars
        => [Idle("checker") /\ run'["checker"].pc = "list" => quiet = HealthEvery]_vars
  BY <1>1
<1> QED BY <1>2, Invariance, PTL DEF Spec, ProbeWaits
=============================================================================
