--------------------------- MODULE ResultDelivery ---------------------------
(***************************************************************************)
(* What Fleet promises about the result of a task it has executed, seen    *)
(* from outside: every result lives a one-way life                         *)
(*                                                                         *)
(*    none -> held -> stored -> delivered                                  *)
(*                                                                         *)
(* where "held" means only in the memory of the running process, "stored"  *)
(* means a complete file of the outbox directory, and "delivered" means    *)
(* admirald has taken it.  A result may be delivered straight from memory. *)
(* It may be lost, but "lost" and "delivered" are final: nothing delivers  *)
(* a result that was never executed, un-delivers one, or resurrects one.   *)
(* A crash loses what was only in memory and nothing else.                 *)
(***************************************************************************)
EXTENDS Naturals

CONSTANT Result        \* the results tasks may produce

VARIABLE status        \* [Result -> Status]

Status == {"none", "held", "stored", "delivered", "lost"}

TypeOK == status \in [Result -> Status]

Init == status = [n \in Result |-> "none"]

(* Each action names the move of one result; a crash moves all held ones.  *)
Move(n, from, to) ==
  /\ status[n] \in from
  /\ status' = [status EXCEPT ![n] = to]

Execute(n) == Move(n, {"none"}, "held")

Store(n) == Move(n, {"held"}, "stored")

Deliver(n) == Move(n, {"held", "stored"}, "delivered")

(* The file goes while somebody still holds the decoded result.            *)
Withdraw(n) == Move(n, {"stored"}, "held")

Lose(n) == Move(n, {"held", "stored"}, "lost")

Crash ==
  status' = [n \in Result |-> IF status[n] = "held" THEN "lost" ELSE status[n]]

Next ==
  \/ \E n \in Result :
       Execute(n) \/ Store(n) \/ Deliver(n) \/ Withdraw(n) \/ Lose(n)
  \/ Crash

Spec == Init /\ [][Next]_status
=============================================================================
