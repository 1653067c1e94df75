-------------------------- MODULE TaskClaim_proofs --------------------------
(***************************************************************************)
(* Proofs of the type invariant of TaskClaim and of OncePerSignature, for  *)
(* every set of tasks, window, lease, clock difference, setting of the     *)
(* clock and number of crashes.                                            *)
(***************************************************************************)
EXTENDS TaskClaim, TLAPS

(* A signature that this process accepted has aged as much as the memory   *)
(* of it, or is out of its window.                                         *)
Traced ==
  \A t \in DOMAIN used :
    \/ used[t].now = Window + 1
    \/ t \in DOMAIN seen /\ used[t].was + seen[t] <= used[t].now

(* While one of them is in hand, the memory of it is out of the window by  *)
(* no more than the time since the check.                                  *)
Checked ==
  again => /\ loop = "remember"
           /\ cur \in DOMAIN used /\ cur \in DOMAIN seen
           /\ used[cur].was <= Window
           /\ used[cur].was + seen[cur] <= Window + held

(* What makes OncePerSignature inductive.                                  *)
IInv == TypeOK /\ Traced /\ Checked

(* Pruning keeps what is not older than the window, as it is.              *)
LEMMA RememberedType ==
  ASSUME TypeOK
  PROVE  /\ DOMAIN Remembered = {u \in DOMAIN seen : seen[u] <= Window}
         /\ \A u \in DOMAIN Remembered : Remembered[u] = seen[u]
         /\ DOMAIN Remembered \subseteq Task
         /\ Remembered \in [DOMAIN Remembered -> Age]
  BY DEF TypeOK, Remembered

(* The parts of a use are ages.                                            *)
LEMMA UseType ==
  ASSUME TypeOK, NEW t \in DOMAIN used
  PROVE  used[t].was \in Age /\ used[t].now \in Age /\ t \in Task
  BY DEF TypeOK, Uses

(* No age is an age, and no function remembers nothing.                    *)
LEMMA Nothing ==
  /\ 0 \in Age /\ 0 \in SignatureAge
  /\ DOMAIN NoTasks = {}
  /\ NoTasks \in [DOMAIN NoTasks -> Age] /\ NoTasks \in [DOMAIN NoTasks -> Uses]
  BY ClaimAssumption DEF NoTasks, Age, SignatureAge

(* Ages stay ages, and grow by one until they are out of the window.       *)
LEMMA OlderAge ==
  /\ \A a \in Age : Older(a) \in Age /\ Older(a) <= a + 1
  /\ \A a \in SignatureAge : Older(a) \in SignatureAge
  /\ \A a \in Age : Older(a) = a + 1 \/ (a = Window + 1 /\ Older(a) = a)
  BY ClaimAssumption DEF Older, Age, SignatureAge

(* A clock set forward makes a signature older, or leaves it out of its    *)
(* window.                                                                 *)
LEMMA ForwardAge ==
  ASSUME NEW a \in Age, NEW d \in 1 .. MaxJump, NEW b \in Shifted(a, d)
  PROVE  b = Window + 1 \/ (a <= b /\ a # Window + 1)
  BY ClaimAssumption DEF Shifted, SignatureAge, Age

LEMMA InitIInv == Init => IInv
<1> SUFFICES ASSUME Init PROVE IInv
  OBVIOUS
<1>1. TypeOK
  <2>1. seen = NoTasks /\ used = NoTasks
    BY DEF Init
  <2>2. again \in BOOLEAN
    BY DEF Init
  <2> QED BY <2>1, <2>2, Nothing, ClaimAssumption DEF Init, TypeOK, Loop
<1> QED BY <1>1, Nothing DEF Init, IInv, Traced, Checked

(* Taking up an offer: one accepted before is in the window, hence         *)
(* remembered.                                                             *)
LEMMA VerifyIInv == ASSUME IInv, NEW t \in Task, ClaimVerify(t) PROVE IInv'
<1> USE ClaimAssumption DEF IInv
<1>1. age' \in SignatureAge
  BY UseType DEF ClaimVerify, Age, SignatureAge
<1>2. TypeOK'
  <2>1. again' \in BOOLEAN
    BY DEF ClaimVerify
  <2>2. lease' \in [Task -> 0 .. LeaseTime]
    BY DEF ClaimVerify, Offer, TypeOK
  <2> QED BY <1>1, <2>1, <2>2, Nothing DEF TypeOK, ClaimVerify, Loop
<1>3. Traced'
  BY DEF ClaimVerify, Traced
<1>4. ASSUME again' PROVE Checked'
  <2>1. t \in DOMAIN used /\ used[t].now <= Window /\ used[t].now \in Age
    BY <1>4, UseType DEF ClaimVerify, Valid
  <2>2. /\ t \in DOMAIN seen /\ used[t].was + seen[t] <= Window
        /\ used[t].was \in Age /\ seen[t] \in Age
    BY <2>1, UseType DEF Traced, Age, TypeOK
  <2> QED BY <2>1, <2>2 DEF Checked, ClaimVerify, Age
<1> QED BY <1>2, <1>3, <1>4 DEF Checked

(* Accepting it: the task is remembered from now on, and of what is        *)
(* forgotten the signature is out of its window.                           *)
LEMMA RememberIInv == ASSUME IInv, Remember PROVE IInv'
<1> USE ClaimAssumption DEF IInv
<1>1. /\ cur \in Task /\ DOMAIN seen' = DOMAIN Remembered \cup {cur}
      /\ seen'[cur] = 0
      /\ \A u \in DOMAIN Remembered : u # cur => seen'[u] = seen[u]
  BY RememberedType DEF Remember, With, TypeOK
<1>2. seen' \in [DOMAIN seen' -> Age] /\ DOMAIN seen' \subseteq Task
  BY <1>1, RememberedType DEF Remember, With, Age
<1>3. /\ DOMAIN used' \subseteq DOMAIN used \cup {cur}
      /\ \A u \in DOMAIN used' : u # cur => u \in DOMAIN used /\ used'[u] = used[u]
      /\ cur \in DOMAIN used' =>
           age >= 0 /\ used'[cur] = [was |-> age, now |-> age]
      /\ used' \in [DOMAIN used' -> Uses]
  <2>1. CASE age >= 0
    <3>1. [was |-> age, now |-> age] \in Uses
      BY <2>1 DEF Uses, TypeOK, SignatureAge, Age
    <3> QED BY <2>1, <3>1 DEF Remember, Used, With, TypeOK
  <2>2. CASE ~(age >= 0)
    BY <2>2 DEF Remember, Used, TypeOK
  <2> QED BY <2>1, <2>2
<1>4. TypeOK'
  <2>1. again' \in BOOLEAN /\ age' \in SignatureAge /\ held' \in Age
    BY Nothing DEF Remember, NothingInHand
  <2> QED BY <1>1, <1>2, <1>3, <2>1 DEF TypeOK, Remember, Loop
<1>5. ASSUME NEW u \in DOMAIN used'
      PROVE  \/ used'[u].now = Window + 1
             \/ u \in DOMAIN seen' /\ used'[u].was + seen'[u] <= used'[u].now
  <2>1. CASE u = cur
    BY <1>1, <1>3, <2>1 DEF TypeOK, SignatureAge
  <2>2. CASE u # cur /\ u \in DOMAIN Remembered
    BY <1>1, <1>3, <2>2, RememberedType DEF Traced
  <2>3. CASE u # cur /\ u \notin DOMAIN Remembered
    <3>1. u \in DOMAIN used /\ used'[u] = used[u]
      BY <1>3, <2>3
    <3>2. used[u].was \in Age /\ used[u].now \in Age
      BY <3>1, UseType
    <3>3. u \in DOMAIN seen => seen[u] = Window + 1
      BY <2>3, RememberedType DEF TypeOK, Age
    <3> QED BY <3>1, <3>2, <3>3 DEF Traced, Age
  <2> QED BY <2>1, <2>2, <2>3
<1> QED BY <1>4, <1>5 DEF Traced, Checked, Remember, NothingInHand

(* Refusing it forgets as accepting does.                                  *)
LEMMA RefuseIInv == ASSUME IInv, Refuse PROVE IInv'
<1> USE ClaimAssumption DEF IInv
<1>1. TypeOK'
  <2>1. again' \in BOOLEAN /\ age' \in SignatureAge /\ held' \in Age
    BY Nothing DEF Refuse, NothingInHand
  <2>2. seen' \in [DOMAIN seen' -> Age] /\ DOMAIN seen' \subseteq Task
    BY RememberedType DEF Refuse
  <2> QED BY <2>1, <2>2 DEF TypeOK, Refuse, Loop
<1>2. ASSUME NEW u \in DOMAIN used
      PROVE  \/ used[u].now = Window + 1
             \/ u \in DOMAIN Remembered
                /\ used[u].was + Remembered[u] <= used[u].now
  <2>1. used[u].was \in Age /\ used[u].now \in Age
    BY UseType
  <2>2. u \in DOMAIN seen /\ u \notin DOMAIN Remembered => seen[u] = Window + 1
    BY RememberedType DEF TypeOK, Age
  <2> QED BY <2>1, <2>2, RememberedType DEF Traced, Age
<1> QED BY <1>1, <1>2 DEF Traced, Checked, Refuse, NothingInHand

(* Time passes for the signature, the memory and the check alike.          *)
LEMMA TickIInv == ASSUME IInv, Tick PROVE IInv'
<1> USE ClaimAssumption DEF IInv
<1>1. /\ DOMAIN used' = DOMAIN used /\ DOMAIN seen' = DOMAIN seen
      /\ \A u \in DOMAIN used :
           used'[u] = [was |-> used[u].was, now |-> Older(used[u].now)]
      /\ \A u \in DOMAIN seen : seen'[u] = Older(seen[u])
  BY DEF Tick, TypeOK, Uses
<1>2. used' \in [DOMAIN used' -> Uses]
  <2>1. ASSUME NEW u \in DOMAIN used PROVE used'[u] \in Uses
    BY <1>1, OlderAge, UseType DEF Uses
  <2>2. used' = [u \in DOMAIN used |-> used'[u]]
    BY <1>1 DEF Tick
  <2> QED BY <1>1, <2>1, <2>2
<1>3. TypeOK'
  BY <1>1, <1>2, OlderAge DEF Tick, TypeOK
<1>4. ASSUME NEW u \in DOMAIN used'
      PROVE  \/ used'[u].now = Window + 1
             \/ u \in DOMAIN seen' /\ used'[u].was + seen'[u] <= used'[u].now
  <2>1. used[u].was \in Age /\ used[u].now \in Age /\ u \in DOMAIN used
    BY <1>1, <1>4, UseType
  <2>2. CASE u \in DOMAIN seen
    <3>1. seen[u] \in Age /\ seen'[u] = Older(seen[u])
      BY <1>1, <2>2 DEF TypeOK
    <3> QED BY <1>1, <2>1, <2>2, <3>1, OlderAge DEF Traced, Age
  <2>3. CASE u \notin DOMAIN seen
    BY <1>1, <2>1, <2>3, OlderAge DEF Traced, Age
  <2> QED BY <2>2, <2>3
<1>5. ASSUME again' PROVE Checked'
  <2>1. /\ again /\ loop = "remember" /\ cur \in DOMAIN used /\ cur \in DOMAIN seen
        /\ used[cur].was <= Window
        /\ used[cur].was + seen[cur] <= Window + held
        /\ loop' = loop /\ cur' = cur /\ held' = Older(held)
    BY <1>5 DEF Tick, Checked
  <2>2. used[cur].was \in Age /\ seen[cur] \in Age /\ held \in Age
    BY <2>1, UseType DEF TypeOK
  <2>3. used[cur].was + Older(seen[cur]) <= Window + Older(held)
    BY <2>1, <2>2, OlderAge DEF Age
  <2> QED BY <1>1, <2>1, <2>3 DEF Checked
<1> QED BY <1>3, <1>4, <1>5 DEF Traced, Checked

(* The wall clock goes forward: the window of a signature ends sooner.     *)
LEMMA ForwardIInv ==
  ASSUME IInv, NEW d \in 1 .. MaxJump, ClockForward(d) PROVE IInv'
<1> USE ClaimAssumption DEF IInv
<1>1. /\ DOMAIN used' = DOMAIN used /\ used' \in [DOMAIN used -> Uses]
      /\ \A u \in DOMAIN used : /\ used'[u].was = used[u].was
                              /\ used'[u].now \in Shifted(used[u].now, d)
  BY DEF ClockForward
<1>2. age' \in SignatureAge
  BY DEF ClockForward, Shifted, TypeOK
<1>3. TypeOK'
  BY <1>1, <1>2 DEF TypeOK, ClockForward
<1>4. ASSUME NEW u \in DOMAIN used
      PROVE  \/ used'[u].now = Window + 1
             \/ u \in DOMAIN seen /\ used'[u].was + seen[u] <= used'[u].now
  <2>1. used[u].was \in Age /\ used[u].now \in Age /\ u \in Task
    BY UseType
  <2>2. \/ used'[u].now = Window + 1
        \/ used[u].now <= used'[u].now /\ used[u].now # Window + 1
    BY <1>1, <2>1, ForwardAge
  <2>3. used'[u].now \in Age
    BY <1>1 DEF Uses
  <2> QED BY <1>1, <2>1, <2>2, <2>3 DEF Traced, TypeOK, Age
<1> QED BY <1>1, <1>3, <1>4 DEF Traced, Checked, ClockForward

(* The wall clock goes back: no use is followed any further.               *)
LEMMA BackIInv ==
  ASSUME IInv, NEW d \in 1 .. MaxJump, ClockBack(d) PROVE IInv'
<1> USE ClaimAssumption DEF IInv
<1>1. age' \in SignatureAge
  BY DEF ClockBack, Shifted, TypeOK
<1>2. again' \in BOOLEAN /\ used' = NoTasks
  BY DEF ClockBack
<1> QED BY <1>1, <1>2, Nothing DEF TypeOK, Traced, Checked, ClockBack

LEMMA NextIInv == IInv /\ [Next]_vars => IInv'
<1> SUFFICES ASSUME IInv, [Next]_vars PROVE IInv'
  OBVIOUS
<1> USE ClaimAssumption DEF IInv
<1>1. ASSUME NEW t \in Task, ClaimVerify(t) PROVE IInv'
  BY <1>1, VerifyIInv
<1>2. CASE Remember
  BY <1>2, RememberIInv
<1>3. CASE Refuse
  BY <1>3, RefuseIInv
<1>4. CASE Tick
  BY <1>4, TickIInv
<1>5. ASSUME NEW d \in 1 .. MaxJump, ClockForward(d) \/ ClockBack(d) PROVE IInv'
  BY <1>5, ForwardIInv, BackIInv
<1>6. ASSUME NEW t \in Task, ClaimInvalid(t) PROVE IInv'
  BY <1>6 DEF ClaimInvalid, Offer, TypeOK, Traced, Checked, inhand
<1>7. ASSUME NEW t \in Task, Renew(t) PROVE IInv'
  BY <1>7 DEF Renew, TypeOK, Traced, Checked, inhand
<1>8. ASSUME NEW t \in Task, Deliver(t) \/ RenewLost(t) PROVE IInv'
  BY <1>8 DEF Deliver, RenewLost, TypeOK, Traced, Checked, inhand
<1>9. CASE ReportOk \/ ReportFail \/ Finish
  BY <1>9 DEF ReportOk, ReportFail, Finish, TypeOK, Traced, Checked, inhand, Loop
<1>10. CASE Crash
  <2>1. /\ again' \in BOOLEAN /\ age' \in SignatureAge /\ held' \in Age
        /\ seen' = NoTasks /\ used' = NoTasks
    BY <1>10, Nothing DEF Crash, NothingInHand
  <2> QED BY <1>10, <2>1, Nothing DEF Crash, NothingInHand, TypeOK, Traced,
                                      Checked, Loop
<1>11. CASE Restart
  BY <1>11 DEF Restart, TypeOK, Traced, Checked, inhand, Loop
<1>12. CASE UNCHANGED vars
  BY <1>12 DEF vars, inhand, TypeOK, Traced, Checked
<1> QED
  BY <1>1, <1>2, <1>3, <1>4, <1>5, <1>6, <1>7, <1>8, <1>9, <1>10, <1>11, <1>12
     DEF Next

THEOREM Invariance == Spec => []IInv
  BY InitIInv, NextIInv, PTL DEF Spec

(* Every state of the claim loop, of the leases and of the signatures is   *)
(* of its type.                                                            *)
THEOREM TypeCorrect == Spec => []TypeOK
  BY Invariance, PTL DEF IInv

(* A process accepts an offer a second time only if more time passes       *)
(* between its check of the signature and the look at seenTasks than the   *)
(* signature was old at the first acceptance, when it was dated later than *)
(* the clock of the node, or when that clock was set back in between.      *)
THEOREM Once == Spec => OncePerSignature
<1>1. ASSUME IInv, [Next]_vars, loop = "remember", loop' = "report", again
      PROVE  held > used[cur].was
  <2>1. Remember
    BY <1>1 DEF Next, vars, Offer, ClaimVerify, ClaimInvalid, Deliver, Renew,
                RenewLost, Refuse, ReportOk, ReportFail, Finish, Tick,
                ClockForward, ClockBack, Crash, Restart
  <2>2. /\ cur \in DOMAIN used /\ cur \in DOMAIN seen
        /\ used[cur].was + seen[cur] <= Window + held
    BY <1>1 DEF IInv, Checked
  <2>3. seen[cur] > Window
    BY <1>1, <2>1, <2>2, RememberedType, ClaimAssumption
       DEF Remember, IInv, TypeOK, Age
  <2> QED BY <1>1, <2>2, <2>3, UseType, ClaimAssumption DEF IInv, TypeOK, Age
<1>2. IInv /\ [Next]_vars
        => [loop = "remember" /\ loop' = "report" /\ again
              => held > used[cur].was]_vars
  BY <1>1
<1> QED BY <1>2, Invariance, PTL DEF Spec, OncePerSignature
=============================================================================
