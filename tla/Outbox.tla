------------------------------- MODULE Outbox -------------------------------
(***************************************************************************)
(* The way a task result takes from the executor to admirald:              *)
(* internal/agent/agent.go (HandleTaskContext, send, StartOutboxFlusher,   *)
(* FlushOutbox), internal/agent/outbox.go (enqueue, flush) and the claim   *)
(* loop of cmd/admiral-fleet/main.go that calls them.                      *)
(*                                                                         *)
(* Two goroutines share the outbox directory without a lock: the claim     *)
(* loop ("main"), which executes, sends, enqueues and flushes, and the     *)
(* 30-second flusher ("flusher"), which only flushes.  A file is created   *)
(* empty and written afterwards (os.WriteFile), so the other goroutine can *)
(* see it before its content.  The process may be killed between any two   *)
(* steps; the directory survives.                                          *)
(*                                                                         *)
(* Results are numbered in execution order.  A file is named by the time   *)
(* it was enqueued, and only the claim loop enqueues, so the number of the *)
(* result is also the place of its file in the sorted listing.             *)
(***************************************************************************)
EXTENDS Naturals, FiniteSets

CONSTANTS
  MaxResults,       \* bound: executions in a behaviour
  MaxOutboxItems,   \* outbox.go maxOutboxItems
  MaxStops          \* bound: crashes and interrupts in a behaviour

ASSUME BoundsAssumption ==
  /\ MaxResults \in Nat
  /\ MaxOutboxItems \in Nat
  /\ MaxStops \in Nat

Result == 1 .. MaxResults
Goroutine == {"main", "flusher"}

VARIABLES
  outbox,     \* the directory: [Result -> FileState]
  accepted,   \* results admirald has taken
  executed,   \* how many tasks have been executed; the last is the one in hand
  loop,       \* where the claim loop stands
  flush,      \* [Goroutine -> [pc, todo, item]], a call of outbox.flush
  stopping,   \* an interrupt has cancelled the root context
  stops       \* crashes and interrupts so far

vars == <<outbox, accepted, executed, loop, flush, stopping, stops>>

FileState == {"absent", "partial", "full"}

LoopState ==
  {"claim", "preflush", "execute", "send", "enqueue", "create", "write",
   "postflush", "lastflush", "exit", "down"}

FlushState == {"idle", "next", "discard", "send", "remove"}

NoFlush == [pc |-> "idle", todo |-> {}, item |-> 0]

(* The claim loop is in HandleTaskContext with a result not yet delivered. *)
HasResult == loop \in {"send", "enqueue", "create", "write"}

Files == {n \in Result : outbox[n] # "absent"}

TypeOK ==
  /\ outbox \in [Result -> FileState]
  /\ accepted \in SUBSET Result
  /\ executed \in 0 .. MaxResults
  /\ loop \in LoopState
  /\ flush \in [Goroutine -> [pc : FlushState, todo : SUBSET Result,
                              item : 0 .. MaxResults]]
  /\ stopping \in BOOLEAN
  /\ stops \in 0 .. MaxStops

Init ==
  /\ outbox = [n \in Result |-> "absent"]
  /\ accepted = {}
  /\ executed = 0
  /\ loop = "claim"
  /\ flush = [g \in Goroutine |-> NoFlush]
  /\ stopping = FALSE
  /\ stops = 0

-----------------------------------------------------------------------------
(* outbox.flush                                                            *)

(* main flushes at three places of its program, the flusher at any time    *)
(* while the process lives (the timer may win the select even after the    *)
(* context is cancelled).                                                  *)
MayFlush(g) ==
  IF g = "main" THEN loop \in {"preflush", "postflush", "lastflush"}
                ELSE loop # "down"

(* Where main goes when its flush returns, whatever it returns: errors are *)
(* only logged.                                                            *)
AfterFlush ==
  CASE loop = "preflush"  -> "execute"
    [] loop = "postflush" -> "claim"
    [] loop = "lastflush" -> "exit"
    [] OTHER              -> loop

Return(g) ==
  /\ flush' = [flush EXCEPT ![g] = NoFlush]
  /\ loop' = IF g = "main" THEN AfterFlush ELSE loop

(* Wrong variant: the flusher finds no names, only main's flushes do.      *)
FlushListInMain(g) ==
  /\ flush[g].pc = "idle"
  /\ MayFlush(g)
  /\ flush' = [flush EXCEPT ![g] =
                 [pc |-> "next", todo |-> IF g = "main" THEN Files ELSE {},
                  item |-> 0]]
  /\ UNCHANGED <<outbox, accepted, executed, loop, stopping, stops>>

(* os.ReadDir: the names present now.                                      *)
FlushList(g) ==
  /\ flush[g].pc = "idle"
  /\ MayFlush(g)
  /\ flush' = [flush EXCEPT ![g] = [pc |-> "next", todo |-> Files, item |-> 0]]
  /\ UNCHANGED <<outbox, accepted, executed, loop, stopping, stops>>

(* Wrong variant: a file that does not decode is sent all the same.        *)
FlushReadAny(g) ==
  /\ flush[g].pc = "next"
  /\ \E n \in flush[g].todo :
       /\ \A m \in flush[g].todo : n <= m
       /\ flush' = [flush EXCEPT ![g] =
                      [pc |-> IF outbox[n] = "absent" THEN "next" ELSE "send",
                       todo |-> flush[g].todo \ {n},
                       item |-> n]]
  /\ UNCHANGED <<outbox, accepted, executed, loop, stopping, stops>>

(* os.ReadFile and json.Unmarshal of the next listed name: a file that is  *)
(* gone is skipped, one that does not decode is discarded, a decoded       *)
(* result is sent.                                                         *)
FlushRead(g) ==
  /\ flush[g].pc = "next"
  /\ \E n \in flush[g].todo :
       /\ \A m \in flush[g].todo : n <= m
       /\ flush' = [flush EXCEPT ![g] =
                      [pc |-> CASE outbox[n] = "absent"  -> "next"
                                [] outbox[n] = "partial" -> "discard"
                                [] outbox[n] = "full"    -> "send",
                       todo |-> flush[g].todo \ {n},
                       item |-> n]]
  /\ UNCHANGED <<outbox, accepted, executed, loop, stopping, stops>>

(* os.Remove of the file being worked on; its error is ignored.            *)
Remove(g) ==
  /\ \/ outbox' = [outbox EXCEPT ![flush[g].item] = "absent"]
     \/ outbox' = outbox
  /\ flush' = [flush EXCEPT ![g].pc = "next"]
  /\ UNCHANGED <<accepted, executed, loop, stopping, stops>>

FlushDiscard(g) == flush[g].pc = "discard" /\ Remove(g)

FlushSendOk(g) ==
  /\ flush[g].pc = "send"
  /\ accepted' = accepted \cup {flush[g].item}
  /\ flush' = [flush EXCEPT ![g].pc = "remove"]
  /\ UNCHANGED <<outbox, executed, loop, stopping, stops>>

(* Wrong variant: after a failed send the flush goes on to the next file.  *)
FlushSendFailGoesOn(g) ==
  /\ flush[g].pc = "send"
  /\ accepted' \in {accepted, accepted \cup {flush[g].item}}
  /\ flush' = [flush EXCEPT ![g].pc = "next"]
  /\ UNCHANGED <<outbox, executed, loop, stopping, stops>>

(* Wrong variant: the file is removed although the send failed.            *)
FlushSendFailRemoves(g) ==
  /\ flush[g].pc = "send"
  /\ accepted' \in {accepted, accepted \cup {flush[g].item}}
  /\ flush' = [flush EXCEPT ![g].pc = "remove"]
  /\ UNCHANGED <<outbox, executed, loop, stopping, stops>>

(* The request or its answer is lost, or the answer is not 2xx: the flush  *)
(* returns at the first error and keeps the file.                          *)
FlushSendFail(g) ==
  /\ flush[g].pc = "send"
  /\ accepted' \in {accepted, accepted \cup {flush[g].item}}
  /\ Return(g)
  /\ UNCHANGED <<outbox, executed, stopping, stops>>

FlushRemove(g) == flush[g].pc = "remove" /\ Remove(g)

FlushReturn(g) ==
  /\ flush[g].pc = "next"
  /\ flush[g].todo = {}
  /\ Return(g)
  /\ UNCHANGED <<outbox, accepted, executed, stopping, stops>>

-----------------------------------------------------------------------------
(* The claim loop and HandleTaskContext                                    *)

(* A task is claimed and reported running; HandleTaskContext begins.  A    *)
(* failed claim or a failed report only goes round the loop.               *)
StartTask ==
  /\ loop = "claim"
  /\ ~stopping
  /\ executed < MaxResults
  /\ loop' = "preflush"
  /\ UNCHANGED <<outbox, accepted, executed, flush, stopping, stops>>

(* Wrong variant: a task claimed over the bound is executed too.           *)
ExecuteTwice ==
  /\ loop = "execute"
  /\ executed' = executed + 2
  /\ loop' = "send"
  /\ UNCHANGED <<outbox, accepted, flush, stopping, stops>>

(* exec.Execute always returns a result, also when it fails, times out or  *)
(* is cancelled.                                                           *)
Execute ==
  /\ loop = "execute"
  /\ executed < MaxResults
  /\ executed' = executed + 1
  /\ loop' = "send"
  /\ UNCHANGED <<outbox, accepted, flush, stopping, stops>>

SendOk ==
  /\ loop = "send"
  /\ accepted' = accepted \cup {executed}
  /\ loop' = "postflush"
  /\ UNCHANGED <<outbox, executed, flush, stopping, stops>>

SendFail ==
  /\ loop = "send"
  /\ accepted' \in {accepted, accepted \cup {executed}}
  /\ loop' = "enqueue"
  /\ UNCHANGED <<outbox, executed, flush, stopping, stops>>

(* Wrong variant: one file too many is admitted.                           *)
EnqueueAdmitOneMore ==
  /\ loop = "enqueue"
  /\ Cardinality(Files) <= MaxOutboxItems
  /\ loop' = "create"
  /\ UNCHANGED <<outbox, accepted, executed, flush, stopping, stops>>

(* enqueue inspects the directory and counts; below the limit it goes on   *)
(* to create the file ...                                                  *)
EnqueueAdmit ==
  /\ loop = "enqueue"
  /\ Cardinality(Files) < MaxOutboxItems
  /\ loop' = "create"
  /\ UNCHANGED <<outbox, accepted, executed, flush, stopping, stops>>

(* ... at the limit it refuses.  HandleTaskContext logs the error and the  *)
(* result is gone.                                                         *)
EnqueueRefuse ==
  /\ loop = "enqueue"
  /\ Cardinality(Files) >= MaxOutboxItems
  /\ loop' = "claim"
  /\ UNCHANGED <<outbox, accepted, executed, flush, stopping, stops>>

(* os.WriteFile: the file appears empty, then receives its content.        *)
EnqueueCreate ==
  /\ loop = "create"
  /\ outbox' = [outbox EXCEPT ![executed] = "partial"]
  /\ loop' = "write"
  /\ UNCHANGED <<accepted, executed, flush, stopping, stops>>

(* A file removed meanwhile stays removed: the content goes to an unlinked *)
(* file and WriteFile reports success.                                     *)
EnqueueWrite ==
  /\ loop = "write"
  /\ outbox' = [outbox EXCEPT ![executed] =
                  IF @ = "partial" THEN "full" ELSE @]
  /\ loop' = "claim"
  /\ UNCHANGED <<accepted, executed, flush, stopping, stops>>

(* The directory cannot be inspected, or the file created or filled: the   *)
(* error is logged and what was written stays.                             *)
EnqueueFail ==
  /\ loop \in {"enqueue", "create", "write"}
  /\ loop' = "claim"
  /\ UNCHANGED <<outbox, accepted, executed, flush, stopping, stops>>

-----------------------------------------------------------------------------
(* Shutdown, crash and restart of the process                              *)

(* signal.NotifyContext cancels the root context.                          *)
Interrupt ==
  /\ loop # "down"
  /\ ~stopping
  /\ stops < MaxStops
  /\ stopping' = TRUE
  /\ stops' = stops + 1
  /\ UNCHANGED <<outbox, accepted, executed, loop, flush>>

(* The loop sees the cancelled context and leaves for the last flush.      *)
LeaveLoop ==
  /\ loop = "claim"
  /\ stopping
  /\ loop' = "lastflush"
  /\ UNCHANGED <<outbox, accepted, executed, flush, stopping, stops>>

(* main returns and takes the flusher with it, wherever that stands.       *)
GoDown ==
  /\ loop' = "down"
  /\ flush' = [g \in Goroutine |-> NoFlush]
  /\ stopping' = FALSE
  /\ UNCHANGED <<outbox, accepted, executed>>

Exit == loop = "exit" /\ GoDown /\ UNCHANGED stops

(* A kill, a panic, a power cut.  SIGTERM is one of them: NotifyContext is *)
(* given os.Interrupt and os.Kill only.                                    *)
Crash ==
  /\ loop # "down"
  /\ stops < MaxStops
  /\ stops' = stops + 1
  /\ GoDown

Restart ==
  /\ loop = "down"
  /\ loop' = "claim"
  /\ UNCHANGED <<outbox, accepted, executed, flush, stopping, stops>>

-----------------------------------------------------------------------------
Flush(g) ==
  \/ FlushList(g) \/ FlushRead(g) \/ FlushDiscard(g) \/ FlushSendOk(g)
  \/ FlushSendFail(g) \/ FlushRemove(g) \/ FlushReturn(g)

Task ==
  \/ StartTask \/ Execute \/ SendOk \/ SendFail
  \/ EnqueueAdmit \/ EnqueueRefuse \/ EnqueueCreate \/ EnqueueWrite
  \/ EnqueueFail

Process == Interrupt \/ LeaveLoop \/ Exit \/ Crash \/ Restart

Next == (\E g \in Goroutine : Flush(g)) \/ Task \/ Process

Spec == Init /\ [][Next]_vars

(* The goroutines run and systemd restarts the process; admirald is        *)
(* reachable again and again and refuses no result for ever: a goroutine   *)
(* that keeps sending a result gets it through.  (One refused for ever     *)
(* would keep every younger file from being sent, see StoredInOrder.)      *)
(* Claims, interrupts and crashes are not owed to anybody.                 *)
Fairness ==
  /\ WF_vars(Restart) /\ WF_vars(Exit) /\ WF_vars(LeaveLoop)
  /\ WF_vars(Task /\ loop # "claim")
  /\ \A g \in Goroutine :
       /\ WF_vars(Flush(g))
       /\ \A n \in Result : SF_vars(flush[g].item = n /\ FlushSendOk(g))

FairSpec == Spec /\ Fairness

-----------------------------------------------------------------------------
(* Properties                                                              *)

(* A complete file leaves the outbox directory only for a result admirald  *)
(* has taken, or through the hands of a flush that read it before its      *)
(* content was there (the read-then-remove of outbox.flush against the     *)
(* create-then-write of outbox.enqueue).  No other order of sends, lost    *)
(* answers, double flushes and crashes removes an undelivered result.      *)
StoredUntilAccepted ==
  [][\A n \in Result :
       outbox[n] = "full" /\ outbox'[n] # "full" =>
         \/ n \in accepted
         \/ \E g \in Goroutine :
              flush[g].pc = "discard" /\ flush[g].item = n]_vars

(* HandleTaskContext "persists a retryable result if the callback cannot   *)
(* be delivered": a complete file leaves the directory only once admirald  *)
(* has its result.                                                         *)
PersistedUntilDelivered ==
  [][\A n \in Result :
       outbox[n] = "full" /\ outbox'[n] # "full" => n \in accepted]_vars

(* The directory never holds more files than maxOutboxItems, although the  *)
(* count of enqueue and the creation are separate steps and the flusher    *)
(* runs between them.                                                      *)
OutboxBounded == Cardinality(Files) <= MaxOutboxItems

(* Stored results go out oldest first, in spite of files appearing and     *)
(* disappearing under the listing, of discarded files and of two flushes   *)
(* at once: while a goroutine sends the result of a file, every older      *)
(* complete file is of a result admirald already has.                      *)
StoredInOrder ==
  \A g \in Goroutine :
    flush[g].pc = "send" =>
      \A n \in Result :
        n < flush[g].item /\ outbox[n] = "full" => n \in accepted

(* A result that reached the outbox as a complete file is eventually taken *)
(* by admirald or discarded unread: nothing waits there forever, although  *)
(* each flush stops at its first failure.                                  *)
StoredEventuallyLeaves ==
  \A n \in Result :
    (outbox[n] = "full") ~> (n \in accepted \/ outbox[n] = "absent")

-----------------------------------------------------------------------------
(* The abstract life of a result that this module implements               *)

Held(n) ==
  \/ HasResult /\ n = executed
  \/ \E g \in Goroutine : flush[g].pc = "send" /\ flush[g].item = n

statusBar ==
  [n \in Result |->
     IF n > executed THEN "none"
     ELSE IF n \in accepted THEN "delivered"
     ELSE IF outbox[n] = "full" THEN "stored"
     ELSE IF Held(n) THEN "held"
     ELSE "lost"]

Delivery == INSTANCE ResultDelivery WITH status <- statusBar

(* Outbox implements ResultDelivery: no interleaving of the two goroutines *)
(* with failures and restarts un-delivers, resurrects or invents a result. *)
ImplementsDelivery == Delivery!Spec
=============================================================================
