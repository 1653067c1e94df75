----------------------------- MODULE TaskClaim ------------------------------
(***************************************************************************)
(* Claiming, refusing, running and renewing tasks:                         *)
(* cmd/admiral-fleet/main.go (the claim loop) and internal/agent/agent.go  *)
(* (ClaimTaskContext, verifyTaskSignature, rememberTask, ReportRunning,    *)
(* StartLeaseRenewer, HandleTaskContext).                                  *)
(*                                                                         *)
(* admirald leases an open task to the node until the lease runs out, and  *)
(* offers it again, with the signature it had or with another.  Fleet      *)
(* refuses a signature older than Window and a task it accepted less than  *)
(* Window ago, so that one offer is not carried out twice.  The two are    *)
(* two readings of the clock: the age of a signature goes by the wall      *)
(* clock, which may be set, that of a remembered task by the monotonic     *)
(* one, later.  Time is kept as ages: what matters is how long ago a thing *)
(* was signed or accepted.  Every request may fail before or after         *)
(* admirald has acted on it.                                               *)
(***************************************************************************)
EXTENDS Integers

CONSTANTS
  Task,         \* tasks admirald has for this node
  NoTask,       \* none is in hand
  Window,       \* how long signatures and accepted tasks count (15 minutes)
  Ahead,        \* bound: how far in the future a signature may be dated
  LeaseTime,    \* bound: how long admirald leases a task
  MaxCrashes,   \* bound: crashes of Fleet in a behaviour
  MaxJump,      \* bound: how far the node's clock is set
  MaxSets       \* bound: how often it is set in a behaviour

ASSUME ClaimAssumption ==
  /\ Window \in Nat /\ Ahead \in Nat /\ LeaseTime \in Nat /\ MaxCrashes \in Nat
  /\ MaxJump \in Nat /\ MaxSets \in Nat

VARIABLES
  open,      \* SUBSET Task: admirald waits for a result
  lease,     \* [Task -> time left of the lease]
  seen,      \* seenTasks: accepted tasks, with how long ago
  loop,      \* where the claim loop is
  cur,       \* the task in hand
  renewing,  \* SUBSET Task: lease renewers that run
  late,      \* SUBSET Task: renewals sent by a renewer stopped since
  pending,   \* SUBSET Task: results in the outbox
  crashes,   \* history: crashes so far
  sets,      \* history: how often the clock was set so far
  age,       \* of the signature in hand, by the wall clock of the node,
             \* negative when dated ahead
  held,      \* history: time since the signature in hand was checked
  used,      \* history: the offers this process accepted, dated no later than
             \* its clock, which was not set back since: how old the signature
             \* was then, and is now
  again      \* history: the offer in hand is the one in used

inhand == <<age, held, again>>
vars == <<open, lease, seen, loop, cur, renewing, late, pending,
          crashes, sets, inhand, used>>

Age == 0 .. Window + 1               \* Window + 1: longer than Window
SignatureAge == (-Ahead) .. Window + 1
Uses == [was : Age, now : Age]
Loop == {"claim", "remember", "report", "handle", "down"}

TypeOK ==
  /\ open \subseteq Task
  /\ lease \in [Task -> 0 .. LeaseTime]
  /\ DOMAIN seen \subseteq Task /\ seen \in [DOMAIN seen -> Age]
  /\ loop \in Loop /\ cur \in Task \cup {NoTask}
  /\ loop \in {"remember", "report", "handle"} => cur \in Task
  /\ renewing \subseteq Task /\ late \subseteq Task /\ pending \subseteq Task
  /\ crashes \in 0 .. MaxCrashes /\ sets \in 0 .. MaxSets
  /\ age \in SignatureAge /\ held \in Age /\ again \in BOOLEAN
  /\ DOMAIN used \subseteq Task /\ used \in [DOMAIN used -> Uses]

NoTasks == [t \in {} |-> 0]

Init ==
  /\ open = Task
  /\ lease = [t \in Task |-> 0]
  /\ seen = NoTasks
  /\ loop = "claim" /\ cur = NoTask
  /\ renewing = {} /\ late = {} /\ pending = {}
  /\ crashes = 0 /\ sets = 0 /\ used = NoTasks
  /\ age = 0 /\ held = 0 /\ again = FALSE

-----------------------------------------------------------------------------
(* The claim loop                                                          *)

(* admirald leases t and answers.                                          *)
Offer(t) ==
  /\ loop = "claim"
  /\ t \in open
  /\ lease[t] = 0
  /\ lease' = [lease EXCEPT ![t] = LeaseTime]

(* verifyTaskSignature, for an authentic signature.                        *)
Valid(a) == -Window <= a /\ a <= Window

(* The signature of t is right and in the window: that of an offer         *)
(* accepted before, or another one, made at any earlier time by a clock    *)
(* that may be ahead.                                                      *)
ClaimVerify(t) ==
  /\ Offer(t)
  /\ \/ age' \in SignatureAge /\ again' = FALSE
     \/ t \in DOMAIN used /\ age' = used[t].now /\ again' = TRUE
  /\ Valid(age')
  /\ loop' = "remember"
  /\ cur' = t
  /\ held' = 0
  /\ UNCHANGED <<open, seen, renewing, late, pending, crashes, sets, used>>

(* It is out of the window or wrong, or the answer is lost.                *)
ClaimInvalid(t) ==
  /\ Offer(t)
  /\ UNCHANGED <<open, seen, loop, cur, renewing, late, pending, crashes,
                 sets, inhand, used>>

(* Wrong variant: a task is forgotten on the last tick of its window.      *)
RememberedShort == [t \in {u \in DOMAIN seen : seen[u] < Window} |-> seen[t]]

(* Wrong variant: a task is never forgotten.                               *)
RememberedForEver == seen

(* rememberTask first forgets what it accepted longer than Window ago.     *)
Remembered == [t \in {u \in DOMAIN seen : seen[u] <= Window} |-> seen[t]]

(* f with t mapped to v.                                                   *)
With(f, t, v) == [u \in DOMAIN f \cup {t} |-> IF u = t THEN v ELSE f[u]]

Used == IF age >= 0 THEN With(used, cur, [was |-> age, now |-> age])
        ELSE [u \in DOMAIN used \ {cur} |-> used[u]]

NothingInHand == age' = 0 /\ held' = 0 /\ again' = FALSE

(* Wrong variant: the task is remembered from when it was signed.          *)
RememberSigned ==
  /\ loop = "remember"
  /\ cur \notin DOMAIN Remembered
  /\ seen' = With(Remembered, cur, age)
  /\ used' = Used
  /\ loop' = "report"
  /\ NothingInHand
  /\ UNCHANGED <<open, lease, cur, renewing, late, pending, crashes, sets>>

(* The task is accepted, and remembered from now on.                       *)
Remember ==
  /\ loop = "remember"
  /\ cur \notin DOMAIN Remembered
  /\ seen' = With(Remembered, cur, 0)
  /\ used' = Used
  /\ loop' = "report"
  /\ NothingInHand
  /\ UNCHANGED <<open, lease, cur, renewing, late, pending, crashes, sets>>

(* It was accepted before.                                                 *)
Refuse ==
  /\ loop = "remember"
  /\ cur \in DOMAIN Remembered
  /\ seen' = Remembered
  /\ loop' = "claim" /\ cur' = NoTask
  /\ NothingInHand
  /\ UNCHANGED <<open, lease, renewing, late, pending, crashes, sets, used>>

(* ReportRunning, then StartLeaseRenewer.                                  *)
ReportOk ==
  /\ loop = "report"
  /\ loop' = "handle"
  /\ renewing' = renewing \cup {cur}
  /\ UNCHANGED <<open, lease, seen, cur, late, pending, crashes,
                 sets, inhand, used>>

(* The loop goes on to the next claim; the task stays remembered.          *)
ReportFail ==
  /\ loop = "report"
  /\ loop' = "claim" /\ cur' = NoTask
  /\ UNCHANGED <<open, lease, seen, renewing, late, pending, crashes,
                 sets, inhand, used>>

(* HandleTaskContext returns and the renewer is stopped, perhaps after it  *)
(* has sent a renewal.  The result was delivered, is in the outbox, or     *)
(* could not be stored.                                                    *)
Finish ==
  /\ loop = "handle"
  /\ loop' = "claim" /\ cur' = NoTask
  /\ renewing' = renewing \ {cur}
  /\ late' \in {late, late \cup {cur}}
  /\ \/ open' = open \ {cur} /\ UNCHANGED pending
     \/ pending' = pending \cup {cur} /\ UNCHANGED open
     \/ UNCHANGED <<open, pending>>
  /\ UNCHANGED <<lease, seen, crashes,
                 sets, inhand, used>>

-----------------------------------------------------------------------------
(* Other goroutines, admirald and the process                              *)

(* A flush of the outbox delivers the result.                              *)
Deliver(t) ==
  /\ loop # "down"
  /\ t \in pending
  /\ pending' = pending \ {t}
  /\ open' = open \ {t}
  /\ UNCHANGED <<lease, seen, loop, cur, renewing, late, crashes,
                 sets, inhand, used>>

(* A renewal reaches admirald; a failed one changes nothing.               *)
Renew(t) ==
  /\ t \in renewing \cup late
  /\ late' = late \ {t}
  /\ lease' = [lease EXCEPT ![t] = IF t \in open THEN LeaseTime ELSE @]
  /\ UNCHANGED <<open, seen, loop, cur, renewing, pending, crashes,
                 sets, inhand, used>>

(* A late renewal is lost.                                                 *)
RenewLost(t) ==
  /\ t \in late
  /\ late' = late \ {t}
  /\ UNCHANGED <<open, lease, seen, loop, cur, renewing, pending,
                 crashes,
                 sets, inhand, used>>

Older(a) == IF a <= Window THEN a + 1 ELSE a

(* What an age may be once the wall clock reads d more, or -d less.        *)
Shifted(a, d) ==
  {b \in SignatureAge : \/ a <= Window /\ b = a + d
                        \/ a + d > Window /\ b = Window + 1
                        \/ a > Window /\ b >= a + d}

(* Time passes, between any two steps.                                     *)
Tick ==
  /\ lease' = [t \in Task |-> IF lease[t] > 0 THEN lease[t] - 1 ELSE 0]
  /\ seen' = [t \in DOMAIN seen |-> Older(seen[t])]
  /\ used' = [t \in DOMAIN used |-> [used[t] EXCEPT !.now = Older(@)]]
  /\ age' = IF loop = "remember" THEN Older(age) ELSE age
  /\ held' = IF loop = "remember" THEN Older(held) ELSE held
  /\ UNCHANGED <<open, loop, cur, renewing, late, pending, crashes, sets, again>>

(* The wall clock of the node is set; the monotonic clock goes on.         *)
ClockForward(d) ==
  /\ sets < MaxSets
  /\ sets' = sets + 1
  /\ used' \in {f \in [DOMAIN used -> Uses] :
                 \A t \in DOMAIN used : /\ f[t].was = used[t].was
                                       /\ f[t].now \in Shifted(used[t].now, d)}
  /\ age' \in IF loop = "remember" THEN Shifted(age, d) ELSE {age}
  /\ UNCHANGED <<open, lease, seen, loop, cur, renewing, late, pending,
                 crashes, held, again>>

ClockBack(d) ==
  /\ sets < MaxSets
  /\ sets' = sets + 1
  /\ used' = NoTasks
  /\ again' = FALSE
  /\ age' \in IF loop = "remember" THEN Shifted(age, -d) ELSE {age}
  /\ UNCHANGED <<open, lease, seen, loop, cur, renewing, late, pending,
                 crashes, held>>

(* The process ends: what it remembers is lost, the outbox is not.         *)
Crash ==
  /\ loop # "down"
  /\ crashes < MaxCrashes
  /\ loop' = "down" /\ cur' = NoTask
  /\ seen' = NoTasks
  /\ used' = NoTasks
  /\ NothingInHand
  /\ renewing' = {}
  /\ late' \in {late, late \cup renewing}
  /\ crashes' = crashes + 1
  /\ UNCHANGED <<open, lease, pending, sets>>

Restart ==
  /\ loop = "down"
  /\ loop' = "claim"
  /\ UNCHANGED <<open, lease, seen, cur, renewing, late, pending, crashes,
                 sets, inhand, used>>

Next ==
  \/ \E t \in Task :
       \/ ClaimVerify(t) \/ ClaimInvalid(t)
       \/ Deliver(t) \/ Renew(t) \/ RenewLost(t)
  \/ \E d \in 1 .. MaxJump : ClockForward(d) \/ ClockBack(d)
  \/ Remember \/ Refuse \/ ReportOk \/ ReportFail \/ Finish
  \/ Tick \/ Crash \/ Restart

Spec == Init /\ [][Next]_vars

(* The process runs and time passes; admirald offers a task whose lease    *)
(* has run out now and then, freshly signed, when Fleet has forgotten it,  *)
(* and is reached now and then; a result in the outbox gets through        *)
(* (module Outbox).                                                        *)
Fairness ==
  /\ WF_vars(Tick) /\ WF_vars(Restart) /\ WF_vars(Finish)
  /\ WF_vars(Remember \/ Refuse) /\ WF_vars(ReportOk \/ ReportFail)
  /\ \A t \in Task :
       /\ SF_vars(ClaimVerify(t) /\ t \notin DOMAIN Remembered)
       /\ SF_vars(ReportOk /\ cur = t)
       /\ SF_vars(Finish /\ cur = t /\ (t \in open' => t \in pending'))
       /\ WF_vars(Renew(t) \/ RenewLost(t))
       /\ SF_vars(Deliver(t))

FairSpec == Spec /\ Fairness

-----------------------------------------------------------------------------
(* Properties                                                              *)

(* A process accepts an offer a second time only if more time passes       *)
(* between its check and the look at what is remembered (agent.go:193 and  *)
(* :220) than the signature was old when the offer was first accepted,     *)
(* when the signature was dated later than the node's clock then, or when  *)
(* that clock was set back in between (see used): but for these, a task is *)
(* remembered until its signature is out of the window, to the tick.       *)
OncePerSignature ==
  [][loop = "remember" /\ loop' = "report" /\ again => held > used[cur].was]_vars

(* Every task is carried out and its result known in the end: one that was *)
(* accepted and dropped, or whose result was lost, is still remembered and *)
(* leased, and is accepted again when it is not.                           *)
EveryTaskCloses == \A t \in Task : <>(t \notin open)
=============================================================================
