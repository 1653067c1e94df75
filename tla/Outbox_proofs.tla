---------------------------- MODULE Outbox_proofs ----------------------------
(***************************************************************************)
(* Proofs about Outbox for every number of results, limit and bound.       *)
(*                                                                         *)
(* The inductive invariant IInv adds to the types: only executed results   *)
(* are stored, listed or accepted; the result in hand has no complete file *)
(* until its own enqueue writes it; a flush about to remove a sent file    *)
(* holds an accepted result; and a flush misses no older complete file     *)
(* (Covered).                                                              *)
(***************************************************************************)
EXTENDS Outbox, FiniteSetTheorems, TLAPS

Numbered ==
  /\ accepted \subseteq 1 .. executed
  /\ \A n \in Result : outbox[n] # "absent" => n <= executed

InHand ==
  /\ HasResult => executed \in Result
  /\ loop \in {"send", "enqueue", "create"} => outbox[executed] = "absent"
  /\ loop = "write" => outbox[executed] # "full"

Listed ==
  \A g \in Goroutine :
    /\ flush[g].todo \subseteq 1 .. executed
    /\ flush[g].item <= executed
    /\ flush[g].pc \in {"discard", "send", "remove"} => flush[g].item \in Result
    /\ flush[g].pc = "remove" => flush[g].item \in accepted
    /\ \A m \in flush[g].todo : flush[g].item < m

(* An undelivered complete file is still to be read by a running flush, is *)
(* the one being sent, or is younger than all that flush has listed.       *)
Covered ==
  \A g \in Goroutine : flush[g].pc # "idle" =>
    \A n \in Result : outbox[n] = "full" /\ n \notin accepted =>
      \/ n \in flush[g].todo
      \/ flush[g].pc = "send" /\ flush[g].item = n
      \/ flush[g].item <= n /\ \A m \in flush[g].todo : m < n

IInv == TypeOK /\ Numbered /\ InHand /\ Listed /\ Covered

-----------------------------------------------------------------------------
(* A goroutine that is not flushing is well typed.                         *)
LEMMA NoFlushType ==
  [g \in Goroutine |-> NoFlush] \in
    [Goroutine -> [pc : FlushState, todo : SUBSET Result, item : 0 .. MaxResults]]
<1>1. NoFlush \in [pc : FlushState, todo : SUBSET Result, item : 0 .. MaxResults]
  BY BoundsAssumption DEF NoFlush, FlushState
<1> QED BY <1>1

LEMMA InitIInv == Init => IInv
<1> SUFFICES ASSUME Init PROVE IInv
  OBVIOUS
<1>1. TypeOK
  <2>1. flush \in [Goroutine -> [pc : FlushState, todo : SUBSET Result,
                                  item : 0 .. MaxResults]]
    BY NoFlushType DEF Init
  <2>2. outbox \in [Result -> FileState] /\ loop \in LoopState
    BY DEF Init, FileState, LoopState
  <2>3. accepted \in SUBSET Result /\ stopping \in BOOLEAN
    BY DEF Init
  <2>4. executed \in 0 .. MaxResults /\ stops \in 0 .. MaxStops
    BY BoundsAssumption DEF Init
  <2> QED BY <2>1, <2>2, <2>3, <2>4 DEF TypeOK
<1>2. Numbered /\ InHand /\ Listed /\ Covered
  BY BoundsAssumption
     DEF Init, Numbered, InHand, Listed, Covered, NoFlush, HasResult, Result
<1> QED BY <1>1, <1>2 DEF IInv

(* A flush that removes the file it has looked at or sent.                 *)
LEMMA RemoveIInv ==
  ASSUME IInv, NEW g \in Goroutine, flush[g].pc \in {"discard", "remove"}, Remove(g)
  PROVE  IInv'
<1> USE BoundsAssumption DEF IInv, TypeOK, Goroutine
<1>1. /\ flush' = [flush EXCEPT ![g].pc = "next"]
      /\ UNCHANGED <<accepted, executed, loop, stopping, stops>>
      /\ outbox' \in {outbox, [outbox EXCEPT ![flush[g].item] = "absent"]}
  BY DEF Remove
<1>2. \A n \in Result : outbox'[n] \in {outbox[n], "absent"}
  BY <1>1
<1>3. \A h \in Goroutine :
        /\ flush'[h].todo = flush[h].todo /\ flush'[h].item = flush[h].item
        /\ flush'[h].pc = IF h = g THEN "next" ELSE flush[h].pc
  BY <1>1
<1>4. TypeOK'
  BY <1>1 DEF FileState, FlushState
<1>5. Numbered' /\ InHand'
  BY <1>1, <1>2 DEF Numbered, InHand, HasResult, Result
<1>6. Listed'
  BY <1>1, <1>3 DEF Listed
<1>7. Covered'
  <2> SUFFICES ASSUME NEW h \in Goroutine, flush'[h].pc # "idle",
                      NEW n \in Result, outbox[n] = "full", n \notin accepted
               PROVE  \/ n \in flush[h].todo
                      \/ flush'[h].pc = "send" /\ flush[h].item = n
                      \/ flush[h].item <= n /\ \A m \in flush[h].todo : m < n
    BY <1>1, <1>2, <1>3 DEF Covered
  <2>1. flush[h].pc # "idle" /\ (flush[h].pc = "send" => flush'[h].pc = "send")
    BY <1>3
  <2> QED BY <2>1 DEF Covered
<1> QED BY <1>4, <1>5, <1>6, <1>7

(* Every step preserves the invariant.                                     *)
LEMMA NextIInv == IInv /\ [Next]_vars => IInv'
<1> SUFFICES ASSUME IInv, [Next]_vars PROVE IInv'
  OBVIOUS
<1> USE BoundsAssumption
    DEF IInv, TypeOK, Numbered, InHand, Listed, Covered, Result, Goroutine,
        FileState, LoopState, FlushState, NoFlush, HasResult, Files
<1>1. ASSUME NEW g \in Goroutine, FlushList(g) PROVE IInv'
  BY <1>1 DEF FlushList, MayFlush
<1>2. ASSUME NEW g \in Goroutine, FlushRead(g) PROVE IInv'
  BY <1>2 DEF FlushRead
<1>3. ASSUME NEW g \in Goroutine, FlushDiscard(g) PROVE IInv'
  BY <1>3, RemoveIInv DEF FlushDiscard
<1>4. ASSUME NEW g \in Goroutine, FlushSendOk(g) PROVE IInv'
  BY <1>4 DEF FlushSendOk
<1>5. ASSUME NEW g \in Goroutine, FlushSendFail(g) PROVE IInv'
  BY <1>5 DEF FlushSendFail, Return, AfterFlush
<1>6. ASSUME NEW g \in Goroutine, FlushRemove(g) PROVE IInv'
  BY <1>6, RemoveIInv DEF FlushRemove
<1>7. ASSUME NEW g \in Goroutine, FlushReturn(g) PROVE IInv'
  BY <1>7 DEF FlushReturn, Return, AfterFlush
<1>8. CASE StartTask
  BY <1>8 DEF StartTask
<1>9. CASE Execute
  BY <1>9 DEF Execute
<1>10. CASE SendOk
  BY <1>10 DEF SendOk
<1>11. CASE SendFail
  BY <1>11 DEF SendFail
<1>12. CASE EnqueueAdmit
  BY <1>12 DEF EnqueueAdmit
<1>13. CASE EnqueueRefuse
  BY <1>13 DEF EnqueueRefuse
<1>14. CASE EnqueueCreate
  BY <1>14 DEF EnqueueCreate
<1>15. CASE EnqueueWrite
  BY <1>15 DEF EnqueueWrite
<1>16. CASE EnqueueFail
  BY <1>16 DEF EnqueueFail
<1>17. CASE Interrupt
  BY <1>17 DEF Interrupt
<1>18. CASE LeaveLoop
  BY <1>18 DEF LeaveLoop
<1>19. CASE Exit
  <2>1. TypeOK'
    BY <1>19, NoFlushType DEF Exit, GoDown
  <2>2. Numbered' /\ InHand' /\ Listed' /\ Covered'
    BY <1>19 DEF Exit, GoDown
  <2> QED BY <2>1, <2>2
<1>20. CASE Crash
  <2>1. TypeOK'
    <3>1. (flush \in [Goroutine -> [pc : FlushState, todo : SUBSET Result,
                                     item : 0 .. MaxResults]])'
      BY <1>20, NoFlushType DEF Crash, GoDown
    <3>2. stops' \in 0 .. MaxStops
      BY <1>20 DEF Crash
    <3>3. loop' = "down" /\ stopping' = FALSE
          /\ UNCHANGED <<outbox, accepted, executed>>
      BY <1>20 DEF Crash, GoDown
    <3> QED BY <3>1, <3>2, <3>3
  <2>2. Numbered' /\ InHand' /\ Listed' /\ Covered'
    BY <1>20 DEF Crash, GoDown
  <2> QED BY <2>1, <2>2
<1>21. CASE Restart
  BY <1>21 DEF Restart
<1>22. CASE UNCHANGED vars
  BY <1>22 DEF vars
<1> QED
  BY <1>1, <1>2, <1>3, <1>4, <1>5, <1>6, <1>7, <1>8, <1>9, <1>10, <1>11, <1>12, <1>13, <1>14, <1>15, <1>16, <1>17, <1>18, <1>19, <1>20, <1>21, <1>22
     DEF Next, Flush, Task, Process

-----------------------------------------------------------------------------
(* The state of the outbox, the claim loop and the flushes is well typed   *)
(* and consistent in every reachable state.                                *)
THEOREM Invariance == Spec => []IInv
<1>1. Init => IInv
  BY InitIInv
<1>2. IInv /\ [Next]_vars => IInv'
  BY NextIInv
<1> QED BY <1>1, <1>2, PTL DEF Spec

(* Type correctness of Outbox.                                             *)
THEOREM TypeCorrect == Spec => []TypeOK
<1>1. IInv => TypeOK
  BY DEF IInv
<1> QED BY <1>1, Invariance, PTL

(* Stored results go out oldest first, however the claim loop, the flusher, *)
(* failures and restarts interleave.                                       *)
THEOREM InOrder == Spec => []StoredInOrder
<1>1. IInv => StoredInOrder
  <2> SUFFICES ASSUME IInv,
                      NEW g \in Goroutine, flush[g].pc = "send",
                      NEW n \in Result, n < flush[g].item, outbox[n] = "full"
               PROVE  n \in accepted
    BY DEF StoredInOrder
  <2>1. n \notin flush[g].todo
    BY BoundsAssumption DEF IInv, Listed, TypeOK, Result
  <2>2. flush[g].item # n /\ ~(flush[g].item <= n)
    BY BoundsAssumption DEF IInv, TypeOK, Result
  <2> QED BY <2>1, <2>2 DEF IInv, Covered
<1> QED BY <1>1, Invariance, PTL

(* An undelivered result leaves the outbox only through a flush that read  *)
(* its file before the content was there.                                  *)
LEMMA KeptUntilAccepted ==
  ASSUME IInv, [Next]_vars,
         NEW n \in Result, outbox[n] = "full", outbox'[n] # "full"
  PROVE  \/ n \in accepted
         \/ \E g \in Goroutine : flush[g].pc = "discard" /\ flush[g].item = n
<1> USE DEF IInv, TypeOK
<1>1. CASE \E g \in Goroutine : FlushDiscard(g)
  BY <1>1 DEF FlushDiscard, Remove
<1>2. CASE \E g \in Goroutine : FlushRemove(g)
  BY <1>2 DEF FlushRemove, Remove, Listed
<1>3. ~EnqueueCreate /\ ~EnqueueWrite
  BY DEF EnqueueCreate, EnqueueWrite, InHand, HasResult
<1>4. ~UNCHANGED outbox
  OBVIOUS
<1> QED
  BY <1>1, <1>2, <1>3, <1>4
     DEF Next, Flush, Task, Process, vars, FlushList, FlushRead, FlushSendOk,
         FlushSendFail, FlushReturn, StartTask, Execute, SendOk, SendFail,
         EnqueueAdmit, EnqueueRefuse, EnqueueFail, Interrupt, LeaveLoop,
         Exit, Crash, GoDown, Restart

(* So in every behaviour: two flushes, lost answers, failures and crashes  *)
(* beside each other remove no other undelivered result.                   *)
THEOREM Stored == Spec => StoredUntilAccepted
<1> DEFINE Kept == \A n \in Result :
                     outbox[n] = "full" /\ outbox'[n] # "full" =>
                       \/ n \in accepted
                       \/ \E g \in Goroutine :
                            flush[g].pc = "discard" /\ flush[g].item = n
<1>1. IInv /\ [Next]_vars => [Kept]_vars
  BY KeptUntilAccepted
<1> QED BY <1>1, Invariance, PTL DEF Spec, StoredUntilAccepted

-----------------------------------------------------------------------------
(* The outbox directory never holds more than maxOutboxItems files.        *)
THEOREM Bounded == Spec => []OutboxBounded
<1> DEFINE Room == /\ Cardinality(Files) <= MaxOutboxItems
                   /\ loop = "create" => Cardinality(Files) < MaxOutboxItems
<1>1. Init => Room
  <2> SUFFICES ASSUME Init PROVE Room
    OBVIOUS
  <2>1. Files = {}
    BY DEF Init, Files
  <2> QED BY <2>1, FS_EmptySet, BoundsAssumption DEF Init
<1>2. ASSUME IInv, Room, [Next]_vars PROVE Room'
  <2>1. IsFiniteSet(Files) /\ Cardinality(Files) \in Nat
    <3>1. IsFiniteSet(Result)
      BY FS_Interval, BoundsAssumption DEF Result
    <3> QED BY <3>1, FS_Subset, FS_CardinalityType DEF Files
  <2>2. CASE EnqueueCreate
    <3>1. Files' = Files \cup {executed}
      BY <1>2, <2>2 DEF EnqueueCreate, Files, IInv, TypeOK, InHand, HasResult
    <3>2. Cardinality(Files') <= Cardinality(Files) + 1
      BY <2>1, <3>1, FS_AddElement
    <3>3. IsFiniteSet(Files') /\ Cardinality(Files') \in Nat
      BY <2>1, <3>1, FS_AddElement, FS_CardinalityType
    <3> QED
      BY <1>2, <2>1, <2>2, <3>2, <3>3, BoundsAssumption DEF EnqueueCreate
  <2>3. CASE ~EnqueueCreate
    <3>1. Files' \subseteq Files
      BY <1>2, <2>3
         DEF IInv, TypeOK, Files, Next, Flush, Task, Process, vars, FlushList,
             FlushRead, FlushDiscard, FlushRemove, Remove, FlushSendOk,
             FlushSendFail, FlushReturn, StartTask, Execute, SendOk, SendFail,
             EnqueueAdmit, EnqueueRefuse, EnqueueWrite, EnqueueFail, Interrupt,
             LeaveLoop, Exit, Crash, GoDown, Restart
    <3>2. loop' = "create" => loop = "create" \/ EnqueueAdmit
      BY <1>2, <2>3
         DEF IInv, TypeOK, LoopState, Next, Flush, Task, Process, vars,
             FlushList, FlushRead, FlushDiscard, FlushRemove, Remove,
             FlushSendOk, FlushSendFail, FlushReturn, Return, AfterFlush,
             StartTask, Execute, SendOk, SendFail, EnqueueRefuse, EnqueueWrite,
             EnqueueFail, Interrupt, LeaveLoop, Exit, Crash, GoDown, Restart
    <3>3. EnqueueAdmit => Cardinality(Files) < MaxOutboxItems
      BY DEF EnqueueAdmit
    <3>4. Cardinality(Files') <= Cardinality(Files) /\ Cardinality(Files') \in Nat
      BY <2>1, <3>1, FS_Subset, FS_CardinalityType
    <3> QED BY <1>2, <2>1, <3>2, <3>3, <3>4, BoundsAssumption
  <2> QED BY <2>2, <2>3
<1>3. Room => OutboxBounded
  BY DEF OutboxBounded
<1> QED BY <1>1, <1>2, <1>3, Invariance, PTL DEF Spec

-----------------------------------------------------------------------------
(* Outbox implements ResultDelivery: initial states are initial states, and *)
(* every step moves one result, loses what was held, or stutters.          *)
LEMMA Still ==
  ASSUME \A m \in Result : statusBar'[m] = statusBar[m]
  PROVE  statusBar' = statusBar
BY DEF statusBar

LEMMA Moved ==
  ASSUME NEW n \in Result,
         \A m \in Result \ {n} : statusBar'[m] = statusBar[m]
  PROVE  statusBar' = [statusBar EXCEPT ![n] = statusBar'[n]]
BY DEF statusBar

LEMMA Simulation ==
  ASSUME IInv, IInv', Next
  PROVE  Delivery!Next \/ statusBar' = statusBar
<1> USE BoundsAssumption
    DEF IInv, TypeOK, Goroutine, Result, HasResult, Held
<1>1. ASSUME NEW g \in Goroutine, FlushList(g) PROVE statusBar' = statusBar
  <2>1. \A m \in Result : statusBar'[m] = statusBar[m]
    BY <1>1 DEF FlushList, statusBar
  <2> QED BY <2>1, Still
<1>2. ASSUME NEW g \in Goroutine, FlushRead(g) PROVE statusBar' = statusBar
  <2>1. PICK n \in flush[g].todo :
          /\ \A h \in Goroutine \ {g} : flush'[h] = flush[h]
          /\ flush'[g].item = n
          /\ flush'[g].pc = "send" => outbox[n] = "full"
    BY <1>2 DEF FlushRead, FileState
  <2>2. ASSUME NEW m \in Result, outbox[m] # "full" PROVE (Held(m))' <=> Held(m)
    <3>1. UNCHANGED <<loop, executed>> /\ flush[g].pc = "next"
      BY <1>2 DEF FlushRead
    <3>2. \A h \in Goroutine :
            flush'[h].pc = "send" /\ flush'[h].item = m
              <=> flush[h].pc = "send" /\ flush[h].item = m
      BY <2>1, <2>2, <3>1
    <3> QED BY <3>1, <3>2
  <2>3. UNCHANGED <<outbox, accepted, executed>>
    BY <1>2 DEF FlushRead
  <2> HIDE DEF Held
  <2>4. \A m \in Result : statusBar'[m] = statusBar[m]
    BY <2>2, <2>3 DEF statusBar
  <2> QED BY <2>4, Still
<1>3. ASSUME NEW g \in Goroutine, FlushRemove(g) PROVE statusBar' = statusBar
  <2>1. \A m \in Result : statusBar'[m] = statusBar[m]
    BY <1>3 DEF FlushRemove, Remove, statusBar, Listed
  <2> QED BY <2>1, Still
<1>4. ASSUME NEW g \in Goroutine, FlushReturn(g) PROVE statusBar' = statusBar
  <2>1. \A m \in Result : statusBar'[m] = statusBar[m]
    BY <1>4 DEF FlushReturn, Return, AfterFlush, NoFlush, statusBar
  <2> QED BY <2>1, Still
<1>5. ASSUME NEW g \in Goroutine,
             FlushDiscard(g) \/ FlushSendOk(g) \/ FlushSendFail(g)
      PROVE  Delivery!Next \/ statusBar' = statusBar
  <2> DEFINE n == flush[g].item
  <2>1. n \in Result /\ n <= executed
    BY <1>5 DEF FlushDiscard, FlushSendOk, FlushSendFail, Listed
  <2>2. \A m \in Result \ {n} : statusBar'[m] = statusBar[m]
    <3>1. /\ executed' = executed
          /\ accepted' \in {accepted, accepted \cup {n}}
          /\ outbox' \in {outbox, [outbox EXCEPT ![n] = "absent"]}
      BY <1>5 DEF FlushDiscard, Remove, FlushSendOk, FlushSendFail
    <3>2. /\ \A h \in Goroutine \ {g} : flush'[h] = flush[h]
          /\ flush[g].item = n
          /\ flush'[g].pc # "send"
      BY <1>5
         DEF FlushDiscard, Remove, FlushSendOk, FlushSendFail, Return, NoFlush
    <3>3. HasResult' /\ executed' = executed <=> HasResult /\ executed' = executed
      BY <1>5
         DEF FlushDiscard, Remove, FlushSendOk, FlushSendFail, Return, AfterFlush
    <3>4. \A m \in Result \ {n} : (Held(m))' <=> Held(m)
      BY <3>1, <3>2, <3>3
    <3> HIDE DEF HasResult, Held
    <3> QED BY <3>1, <3>4 DEF statusBar
  <2>3. CASE FlushDiscard(g)
    <3>1. \/ statusBar'[n] = statusBar[n]
          \/ statusBar[n] = "stored" /\ statusBar'[n] \in {"held", "lost"}
      BY <2>1, <2>3 DEF FlushDiscard, Remove, statusBar
    <3> QED
      BY <2>1, <2>2, <3>1, Moved, Still
         DEF Delivery!Next, Delivery!Withdraw, Delivery!Lose, Delivery!Move
  <2>4. CASE FlushSendOk(g) \/ FlushSendFail(g)
    <3>1. \/ statusBar'[n] = statusBar[n]
          \/ /\ statusBar[n] \in {"held", "stored"}
             /\ statusBar'[n] \in {"delivered", "lost"}
      BY <2>1, <2>4
         DEF FlushSendOk, FlushSendFail, Return, AfterFlush, NoFlush, statusBar
    <3> QED
      BY <2>1, <2>2, <3>1, Moved, Still
         DEF Delivery!Next, Delivery!Deliver, Delivery!Lose, Delivery!Move
  <2> QED BY <1>5, <2>3, <2>4
<1>6. CASE Execute
  <2> DEFINE n == executed'
  <2>1. n \in Result
    BY <1>6 DEF Execute
  <2>2. \A m \in Result \ {n} : statusBar'[m] = statusBar[m]
    BY <1>6 DEF Execute, statusBar
  <2>3. statusBar[n] = "none" /\ statusBar'[n] = "held"
    BY <1>6, <2>1 DEF Execute, statusBar, Numbered
  <2> QED
    BY <2>1, <2>2, <2>3, Moved
       DEF Delivery!Next, Delivery!Execute, Delivery!Move
<1>7. ASSUME SendOk \/ SendFail \/ EnqueueRefuse \/ EnqueueCreate
               \/ EnqueueWrite \/ EnqueueFail
      PROVE  Delivery!Next \/ statusBar' = statusBar
  <2> DEFINE n == executed
  <2> USE DEF SendOk, SendFail, EnqueueRefuse, EnqueueCreate, EnqueueWrite,
              EnqueueFail
  <2>1. n \in Result
    BY <1>7 DEF InHand
  <2>2. \A m \in Result \ {n} : statusBar'[m] = statusBar[m]
    BY <1>7, <2>1 DEF statusBar
  <2>3. \/ statusBar'[n] = statusBar[n]
        \/ /\ statusBar[n] = "held"
           /\ statusBar'[n] \in {"stored", "delivered", "lost"}
    BY <1>7, <2>1 DEF statusBar, InHand
  <2> QED
    BY <2>1, <2>2, <2>3, Moved, Still
       DEF Delivery!Next, Delivery!Store, Delivery!Deliver, Delivery!Lose,
           Delivery!Move
<1>8. ASSUME StartTask \/ EnqueueAdmit \/ Interrupt \/ LeaveLoop \/ Restart
      PROVE  statusBar' = statusBar
  <2>1. \A m \in Result : statusBar'[m] = statusBar[m]
    BY <1>8
       DEF StartTask, EnqueueAdmit, Interrupt, LeaveLoop, Restart, statusBar
  <2> QED BY <2>1, Still
<1>9. CASE Exit \/ Crash
  <2>1. \A m \in Result :
          statusBar'[m] = IF statusBar[m] = "held" THEN "lost" ELSE statusBar[m]
    BY <1>9 DEF Exit, Crash, GoDown, NoFlush, statusBar
  <2>2. statusBar' = [m \in Result |-> statusBar'[m]]
    BY DEF statusBar
  <2> QED BY <2>1, <2>2 DEF Delivery!Next, Delivery!Crash
<1> QED
  BY <1>1, <1>2, <1>3, <1>4, <1>5, <1>6, <1>7, <1>8, <1>9
     DEF Next, Flush, Task, Process

(* Whatever the two goroutines, the network and the disk do, each result   *)
(* lives the one-way life that ResultDelivery specifies.                   *)
THEOREM Implements == Spec => ImplementsDelivery
<1>1. Init => Delivery!Init
  BY BoundsAssumption DEF Init, Delivery!Init, statusBar, Result
<1>2. IInv /\ IInv' /\ [Next]_vars => [Delivery!Next]_statusBar
  <2>1. UNCHANGED vars => statusBar' = statusBar
    BY DEF vars, statusBar, Held, HasResult
  <2> QED BY <2>1, Simulation
<1> QED
  BY <1>1, <1>2, Invariance, PTL DEF Spec, Delivery!Spec, ImplementsDelivery

-----------------------------------------------------------------------------
(* How results are lost.  The promise that the outbox keeps a result until *)
(* it is delivered (PersistedUntilDelivered) is broken by one race only:   *)
(* a flush reads a file while enqueue is between creating and writing it,  *)
(* and removes it afterwards.  Without it the promise holds.               *)

(* No flush is about to discard a file that is being or has been written;  *)
(* it may still discard what a crash or a failed write left behind.        *)
Unraced ==
  \A g \in Goroutine : flush[g].pc = "discard" =>
    /\ outbox[flush[g].item] # "full"
    /\ ~(loop = "write" /\ flush[g].item = executed)

(* The only result that is in memory and in no complete file is the one in *)
(* the hands of the claim loop.                                            *)
OneAtRisk ==
  \A n \in Result : statusBar[n] = "held" => HasResult /\ n = executed

(* A result is lost only while the claim loop has it in hand: when the     *)
(* process ends, the outbox is full, or its file cannot be written.        *)
LostInHand ==
  [][\A n \in Result :
       statusBar[n] # "lost" /\ statusBar'[n] = "lost" =>
         /\ HasResult /\ n = executed
         /\ loop' = "down" \/ EnqueueRefuse \/ EnqueueFail]_vars

(* What a flush is sending is a complete file or delivered, and the file   *)
(* being written is where it was created.                                  *)
Sending ==
  \A g \in Goroutine : flush[g].pc = "send" =>
    \/ outbox[flush[g].item] = "full"
    \/ flush[g].item \in accepted

Writing == loop = "write" => outbox[executed] = "partial"

(* No flush works on the result in hand.                                   *)
Apart ==
  HasResult => \A g \in Goroutine :
    flush[g].pc \in {"send", "remove"} => flush[g].item # executed

UInv == IInv /\ Unraced /\ Sending /\ Writing /\ Apart

LEMMA UInvNext == UInv /\ Unraced' /\ [Next]_vars => UInv'
<1> SUFFICES ASSUME UInv, Unraced', [Next]_vars PROVE UInv'
  OBVIOUS
<1>1. IInv'
  BY NextIInv DEF UInv
<1> SUFFICES Sending' /\ Writing' /\ Apart'
  BY <1>1 DEF UInv
<1> USE BoundsAssumption
    DEF UInv, IInv, TypeOK, InHand, Listed, Sending, Writing, Apart, Goroutine,
        Result, HasResult
<1>2. ASSUME NEW g \in Goroutine, Flush(g) PROVE Sending' /\ Writing' /\ Apart'
  <2>1. CASE FlushList(g)
    BY <1>2, <2>1 DEF FlushList
  <2>6. CASE FlushRead(g)
    <3>1. PICK n \in flush[g].todo :
            /\ \A h \in Goroutine \ {g} : flush'[h] = flush[h]
            /\ flush'[g].item = n
            /\ flush'[g].pc = "send" => outbox[n] = "full"
            /\ flush'[g].pc \in {"next", "discard", "send"}
      BY <2>6 DEF FlushRead, FileState
    <3>2. UNCHANGED <<outbox, accepted, executed, loop, stopping, stops>>
      BY <2>6 DEF FlushRead
    <3>3. Sending'
      BY <3>1, <3>2
    <3>4. Writing'
      BY <3>2
    <3>5. HasResult => outbox[executed] # "full"
      BY DEF FileState
    <3>6. Apart'
      BY <3>1, <3>2, <3>5
    <3> QED BY <3>3, <3>4, <3>6
  <2>2. CASE FlushSendOk(g)
    BY <1>2, <2>2 DEF FlushSendOk
  <2>3. CASE FlushDiscard(g)
    BY <1>2, <2>3 DEF FlushDiscard, Remove, Unraced
  <2>4. CASE FlushRemove(g)
    BY <1>2, <2>4 DEF FlushRemove, Remove
  <2>5. CASE FlushSendFail(g) \/ FlushReturn(g)
    BY <1>2, <2>5 DEF FlushSendFail, FlushReturn, Return, AfterFlush, NoFlush
  <2> QED BY <1>2, <2>1, <2>2, <2>3, <2>4, <2>5, <2>6 DEF Flush
<1>3. CASE EnqueueCreate
  BY <1>3 DEF EnqueueCreate
<1>4. CASE EnqueueWrite
  BY <1>4 DEF EnqueueWrite
<1>5. CASE Exit \/ Crash
  BY <1>5 DEF Exit, Crash, GoDown, NoFlush
<1>6. CASE Task /\ ~EnqueueCreate /\ ~EnqueueWrite
  BY <1>6
     DEF Task, StartTask, Execute, SendOk, SendFail, EnqueueAdmit,
         EnqueueRefuse, EnqueueFail
<1>7. CASE Interrupt \/ LeaveLoop \/ Restart \/ UNCHANGED vars
  BY <1>7 DEF Interrupt, LeaveLoop, Restart, vars
<1> QED
  BY <1>1, <1>2, <1>3, <1>4, <1>5, <1>6, <1>7 DEF Next, Task, Process

LEMMA UInvInit == Init => UInv
<1>1. Init => IInv
  BY InitIInv
<1> QED BY <1>1 DEF Init, UInv, Unraced, Sending, Writing, Apart, NoFlush, HasResult

LEMMA UInvariance == Spec /\ []Unraced => []UInv
BY UInvInit, UInvNext, PTL DEF Spec

(* Until a flush takes a file from under a running enqueue, admirald has   *)
(* every result whose complete file leaves the directory.                  *)
THEOREM PersistedUnlessRaced == Spec /\ []Unraced => PersistedUntilDelivered
<1> DEFINE Kept == \A n \in Result :
                     outbox[n] = "full" /\ outbox'[n] # "full" =>
                       \/ n \in accepted
                       \/ \E g \in Goroutine :
                            flush[g].pc = "discard" /\ flush[g].item = n
           Safe == \A n \in Result :
                     outbox[n] = "full" /\ outbox'[n] # "full" => n \in accepted
<1>1. Unraced /\ [Kept]_vars => [Safe]_vars
  BY DEF Unraced
<1>2. Spec => [][Kept]_vars
  BY Stored DEF StoredUntilAccepted
<1> QED BY <1>1, <1>2, PTL DEF PersistedUntilDelivered

(* Nor is any result but the one in hand in danger: all others are         *)
(* delivered or complete files.                                            *)
THEOREM AtMostOneAtRisk == Spec /\ []Unraced => []OneAtRisk
<1>1. UInv => OneAtRisk
  BY DEF UInv, Sending, OneAtRisk, statusBar, Held
<1> QED BY <1>1, UInvariance, PTL

(* The step by which a result is lost.                                     *)
LEMMA LosesInHand ==
  ASSUME UInv, UInv', [Next]_vars, NEW n \in Result,
         statusBar[n] # "lost", statusBar'[n] = "lost"
  PROVE  /\ HasResult /\ n = executed
         /\ loop' = "down" \/ EnqueueRefuse \/ EnqueueFail
<1> USE BoundsAssumption
    DEF UInv, IInv, TypeOK, Goroutine, Result, HasResult
<1>1. /\ n <= executed' /\ n \notin accepted' /\ outbox'[n] # "full"
      /\ ~Held(n)'
  BY DEF statusBar
<1>2. accepted \subseteq accepted'
  BY DEF Next, Flush, Task, Process, vars, FlushList, FlushRead, FlushDiscard,
         FlushRemove, Remove, FlushSendOk, FlushSendFail, FlushReturn,
         StartTask, Execute, SendOk, SendFail, EnqueueAdmit, EnqueueRefuse,
         EnqueueCreate, EnqueueWrite, EnqueueFail, Interrupt, LeaveLoop, Exit,
         Crash, GoDown, Restart
<1>3. n <= executed
  <2>1. executed' = executed \/ Execute
    BY DEF Next, Flush, Task, Process, vars, FlushList, FlushRead,
           FlushDiscard, FlushRemove, Remove, FlushSendOk, FlushSendFail,
           FlushReturn, StartTask, SendOk, SendFail, EnqueueAdmit,
           EnqueueRefuse, EnqueueCreate, EnqueueWrite, EnqueueFail, Interrupt,
           LeaveLoop, Exit, Crash, GoDown, Restart
  <2>2. Execute => n # executed'
    BY <1>1 DEF Execute, Held
  <2>3. Execute => executed' = executed + 1
    BY DEF Execute
  <2> QED BY <1>1, <2>1, <2>2, <2>3
<1>4. outbox[n] # "full"
  BY <1>1, <1>2, KeptUntilAccepted DEF Unraced
<1>5. HasResult /\ n = executed
  BY <1>1, <1>2, <1>3, <1>4 DEF statusBar, Held, Sending
<1>6. ASSUME NEW g \in Goroutine, Flush(g) PROVE FALSE
  <2>1. executed' = executed /\ loop' = loop
    BY <1>5, <1>6
       DEF Flush, FlushList, FlushRead, FlushDiscard, FlushRemove, Remove,
           FlushSendOk, FlushSendFail, FlushReturn, Return, AfterFlush
  <2> QED BY <1>1, <1>5, <2>1 DEF Held
<1>7. ~EnqueueWrite
  <2>1. EnqueueWrite => outbox'[n] = "full"
    BY <1>5 DEF EnqueueWrite, Writing
  <2> QED BY <1>1, <2>1
<1>8. ~SendOk
  BY <1>1, <1>5 DEF SendOk
<1>9. \/ HasResult' /\ executed' = executed
      \/ loop' = "down" \/ EnqueueRefuse \/ EnqueueFail
  BY <1>5, <1>6, <1>7, <1>8
     DEF Next, Task, Process, vars, StartTask, Execute, SendFail,
         EnqueueAdmit, EnqueueCreate, Interrupt, LeaveLoop, Exit, Crash,
         GoDown, Restart
<1> QED BY <1>1, <1>5, <1>9 DEF Held

(* Until a flush takes a file from under a running enqueue, a result is    *)
(* lost only from the hands of the claim loop: when the process ends, the  *)
(* outbox is full, or the file cannot be written.                          *)
THEOREM OnlyInHandIsLost == Spec /\ []Unraced => LostInHand
<1> DEFINE Fault == \A n \in Result :
                      statusBar[n] # "lost" /\ statusBar'[n] = "lost" =>
                        /\ HasResult /\ n = executed
                        /\ loop' = "down" \/ EnqueueRefuse \/ EnqueueFail
<1>1. UInv /\ UInv' /\ [Next]_vars => [Fault]_vars
  BY LosesInHand
<1> QED BY <1>1, UInvariance, PTL DEF Spec, LostInHand

-----------------------------------------------------------------------------
(* How far the work on the file in hand has come, and the claim loop with  *)
(* a task or on its way out.                                               *)
Stage(call) ==
  CASE call.pc \in {"send", "discard"} -> 0
    [] call.pc = "remove"              -> 1
    [] call.pc \in {"next", "idle"}    -> 2

Place ==
  CASE loop \in {"claim", "preflush", "lastflush"} -> 0
    [] loop \in {"execute", "exit"}                -> 1
    [] loop = "send"                               -> 2
    [] loop \in {"enqueue", "postflush"}           -> 3
    [] loop = "create"                             -> 4
    [] loop = "write"                              -> 5
    [] loop = "down"                               -> 6

(* A flush goes on to a younger file and has fewer to do, or goes on with  *)
(* the one in hand.                                                        *)
FlushFurther(g) ==
  \/ flush'[g].pc = "idle"
  \/ /\ flush[g].item < flush'[g].item
     /\ flush'[g].todo \subseteq flush[g].todo
     /\ flush'[g].item \in flush[g].todo \ flush'[g].todo
  \/ /\ flush'[g].item = flush[g].item
     /\ flush'[g].todo = flush[g].todo
     /\ Stage(flush'[g]) > Stage(flush[g])

LoopFurther == loop' = "claim" \/ Place' > Place

LEMMA FlushGoesOn ==
  ASSUME IInv, NEW g \in Goroutine, Flush(g), flush[g].pc # "idle"
  PROVE  FlushFurther(g)
<1> USE BoundsAssumption DEF IInv, TypeOK, FlushFurther
<1>1. ~FlushList(g)
  BY DEF FlushList
<1>2. CASE FlushRead(g)
  <2>1. PICK n \in flush[g].todo :
          flush'[g].item = n /\ flush'[g].todo = flush[g].todo \ {n}
    BY <1>2 DEF FlushRead
  <2> QED BY <2>1 DEF Listed
<1>3. CASE FlushDiscard(g) \/ FlushRemove(g)
  <2>1. /\ flush[g].pc \in {"discard", "remove"}
        /\ flush' = [flush EXCEPT ![g].pc = "next"]
    BY <1>3 DEF FlushDiscard, FlushRemove, Remove
  <2>2. /\ flush'[g].item = flush[g].item /\ flush'[g].todo = flush[g].todo
        /\ flush'[g].pc = "next"
    BY <2>1
  <2> QED BY <2>1, <2>2 DEF Stage
<1>4. CASE FlushSendOk(g)
  <2>1. /\ flush[g].pc = "send"
        /\ flush'[g].item = flush[g].item /\ flush'[g].todo = flush[g].todo
        /\ flush'[g].pc = "remove"
    BY <1>4 DEF FlushSendOk
  <2> QED BY <2>1 DEF Stage
<1>5. CASE FlushSendFail(g) \/ FlushReturn(g)
  <2>1. flush' = [flush EXCEPT ![g] = NoFlush]
    BY <1>5 DEF FlushSendFail, FlushReturn, Return
  <2> QED BY <2>1 DEF NoFlush
<1> QED BY <1>1, <1>2, <1>3, <1>4, <1>5 DEF Flush

LEMMA TaskGoesOn == ASSUME Task, loop # "claim" PROVE LoopFurther
<1>1. ~StartTask
  BY DEF StartTask
<1>2. CASE EnqueueRefuse \/ EnqueueWrite \/ EnqueueFail
  <2>1. loop' = "claim"
    BY <1>2 DEF EnqueueRefuse, EnqueueWrite, EnqueueFail
  <2> QED BY <2>1 DEF LoopFurther
<1>3. CASE Execute \/ EnqueueAdmit \/ EnqueueCreate
  <2>1. \/ loop = "execute" /\ loop' = "send"
        \/ loop = "enqueue" /\ loop' = "create"
        \/ loop = "create" /\ loop' = "write"
    BY <1>3 DEF Execute, EnqueueAdmit, EnqueueCreate
  <2> QED BY <2>1 DEF LoopFurther, Place
<1>4. CASE SendOk \/ SendFail
  <2>1. loop = "send" /\ loop' \in {"postflush", "enqueue"}
    BY <1>4 DEF SendOk, SendFail
  <2> QED BY <2>1 DEF LoopFurther, Place
<1> QED BY <1>1, <1>2, <1>3, <1>4 DEF Task

LEMMA LoopGoesOn ==
  ASSUME TypeOK, [Next]_vars, loop # "claim"
  PROVE  loop' = loop \/ LoopFurther
<1> USE DEF LoopFurther
<1>1. ASSUME NEW g \in Goroutine, Flush(g) PROVE loop' = loop \/ LoopFurther
  <2>1. loop' \in {loop, AfterFlush}
    BY <1>1
       DEF Flush, FlushList, FlushRead, FlushDiscard, FlushRemove, Remove,
           FlushSendOk, FlushSendFail, FlushReturn, Return
  <2> QED BY <2>1 DEF AfterFlush, Place
<1>2. CASE Task
  BY <1>2, TaskGoesOn
<1>3. CASE Interrupt \/ UNCHANGED vars
  BY <1>3 DEF Interrupt, vars
<1>4. CASE LeaveLoop \/ Restart
  BY <1>4 DEF LeaveLoop, Restart
<1>5. CASE Exit \/ Crash
  <2>1. loop' = "down" /\ loop # "down"
    BY <1>5 DEF Exit, Crash, GoDown
  <2> QED BY <2>1 DEF Place, TypeOK, LoopState
<1> QED BY <1>1, <1>2, <1>3, <1>4, <1>5 DEF Next, Process

(* No step of another goroutine sets a running flush back: it is at one's  *)
(* own pace or ends with the process.                                      *)
LEMMA FlushAlone ==
  ASSUME IInv, [Next]_vars, NEW g \in Goroutine, ~Flush(g)
  PROVE  flush'[g] = flush[g] \/ flush'[g].pc = "idle"
<1> USE DEF IInv, TypeOK
<1>1. ASSUME NEW h \in Goroutine, Flush(h) PROVE flush'[g] = flush[g]
  <2>1. h # g
    BY <1>1
  <2>2. \A k \in Goroutine \ {h} : flush'[k] = flush[k]
    BY <1>1
       DEF Flush, FlushList, FlushRead, FlushDiscard, FlushRemove, Remove,
           FlushSendOk, FlushSendFail, FlushReturn, Return
  <2> QED BY <2>1, <2>2
<1>2. CASE Task \/ Interrupt \/ LeaveLoop \/ Restart \/ UNCHANGED vars
  BY <1>2
     DEF Task, StartTask, Execute, SendOk, SendFail, EnqueueAdmit,
         EnqueueRefuse, EnqueueCreate, EnqueueWrite, EnqueueFail, Interrupt,
         LeaveLoop, Restart, vars
<1>3. CASE Exit \/ Crash
  BY <1>3 DEF Exit, Crash, GoDown, NoFlush
<1> QED BY <1>1, <1>2, <1>3 DEF Next, Process

(* No flush goes round in a circle or takes a file twice, whatever the     *)
(* other goroutine stores and removes meanwhile and whatever is lost on    *)
(* the way: each of its steps goes on with the file in hand, or to a       *)
(* younger one of those it has left, or ends it.  The claim loop, too,     *)
(* goes only forward until it is ready for the next task or the process    *)
(* is down, whatever fails.                                                *)
THEOREM TasksGoOn ==
  Spec => [][/\ \A g \in Goroutine :
                  flush[g].pc # "idle" => flush'[g] = flush[g] \/ FlushFurther(g)
             /\ loop # "claim" => loop' = loop \/ LoopFurther]_vars
<1>1. ASSUME IInv, [Next]_vars
      PROVE  /\ \A g \in Goroutine :
                  flush[g].pc # "idle" => flush'[g] = flush[g] \/ FlushFurther(g)
             /\ loop # "claim" => loop' = loop \/ LoopFurther
  <2>1. ASSUME NEW g \in Goroutine, flush[g].pc # "idle"
        PROVE  flush'[g] = flush[g] \/ FlushFurther(g)
    <3>1. CASE Flush(g)
      BY <1>1, <2>1, <3>1, FlushGoesOn
    <3>2. CASE ~Flush(g)
      BY <1>1, <2>1, <3>2, FlushAlone DEF FlushFurther
    <3> QED BY <3>1, <3>2
  <2>2. loop # "claim" => loop' = loop \/ LoopFurther
    BY <1>1, LoopGoesOn DEF IInv
  <2> QED BY <2>1, <2>2
<1>2. IInv /\ [Next]_vars =>
        [/\ \A g \in Goroutine :
              flush[g].pc # "idle" => flush'[g] = flush[g] \/ FlushFurther(g)
         /\ loop # "claim" => loop' = loop \/ LoopFurther]_vars
  BY <1>1
<1> QED BY <1>2, Invariance, PTL DEF Spec
=============================================================================
