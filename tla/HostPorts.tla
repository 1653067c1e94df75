----------------------------- MODULE HostPorts -----------------------------
(***************************************************************************)
(* Allocation of host ports to application instances:                      *)
(* internal/executor/executor_provision.go (allocateHostPorts,             *)
(* loadHostPorts), with the removal of an instance's directory by          *)
(* executor_deprovision.go.                                                *)
(*                                                                         *)
(* The node keeps one counter file, next_port, and one ports.json per      *)
(* instance.  Both are written by writeFileNoFollow: truncated, then       *)
(* filled.  A crash or a failed write between the two leaves an empty      *)
(* file, which the code reads as it reads an absent one, so an unreadable  *)
(* counter is 0 here and an unreadable ports.json the empty set.  A file   *)
(* that is whole may still be misread: any error of a read counts as an    *)
(* absent file.  portMu serialises the allocations of a process.           *)
(***************************************************************************)
EXTENDS Naturals, FiniteSets

CONSTANTS
  Instance,    \* application instances
  Needs,       \* [Instance -> Nat], services of the instance with a port
  MinPort,     \* minHostPort
  MaxPort      \* maxHostPort

ASSUME PortsAssumption ==
  /\ MinPort \in Nat \ {0}
  /\ MaxPort \in Nat
  /\ MinPort <= MaxPort
  /\ Needs \in [Instance -> Nat]

Port == MinPort .. MaxPort

VARIABLES
  counter,     \* next_port: the next port to hand out, 0 when unreadable
  file,        \* [Instance -> SUBSET Port], ports.json, {} when unreadable
  pc,          \* where allocateHostPorts stands
  inst,        \* the instance it allocates for
  next,        \* the first port it has chosen
  torn         \* history: next_port was ever left truncated, or one of the
               \* files was misread and ports were chosen on that

vars == <<counter, file, pc, inst, next, torn>>

TypeOK ==
  /\ counter \in {0} \cup MinPort .. (MaxPort + 1)
  /\ file \in [Instance -> SUBSET Port]
  /\ pc \in {"idle", "truncate", "persist", "store"}
  /\ inst \in Instance
  /\ next \in MinPort .. (MaxPort + 1)
  /\ torn \in BOOLEAN

Init ==
  /\ counter = 0
  /\ file = [i \in Instance |-> {}]
  /\ pc = "idle"
  /\ inst \in Instance
  /\ next = MinPort
  /\ torn = FALSE

(* An absent, empty or too small counter starts the range again.           *)
NextPort == IF counter < MinPort THEN MinPort ELSE counter

(* The ports the instance in hand gets, one after the other.               *)
Chosen == next .. (next + Needs[inst] - 1)

(* Wrong variant: the port after the range counts as one of it.            *)
FitsOneMore(i) == NextPort + Needs[i] <= MaxPort + 2

Fits(i) == NextPort + Needs[i] <= MaxPort + 1

(* Wrong variant: ports are chosen anew although ports.json lists some.    *)
ChooseAnew(i) ==
  /\ pc = "idle"
  /\ Fits(i)
  /\ inst' = i
  /\ next' = NextPort
  /\ pc' = "truncate"
  /\ UNCHANGED <<counter, file, torn>>

(* An instance whose ports.json lists ports keeps them: nothing happens.   *)
(* Otherwise the counter is read and the ports are chosen.                 *)
Choose(i) ==
  /\ pc = "idle"
  /\ file[i] = {}
  /\ Fits(i)
  /\ inst' = i
  /\ next' = NextPort
  /\ pc' = "truncate"
  /\ UNCHANGED <<counter, file, torn>>

(* A read fails in passing: ports are chosen anew although ports.json      *)
(* lists some, or from the start of the range.                             *)
Misread(i) ==
  /\ pc = "idle"
  /\ next' \in {NextPort, MinPort}
  /\ file[i] # {} \/ next' = MinPort
  /\ inst' = i
  /\ \/ next' + Needs[i] <= MaxPort + 1 /\ pc' = "truncate" /\ torn' = TRUE
     \/ next' + Needs[i] > MaxPort + 1 /\ UNCHANGED <<pc, torn>>
  /\ UNCHANGED <<counter, file>>

(* "no available host ports in range": nothing has been written yet.       *)
Exhausted(i) ==
  /\ pc = "idle"
  /\ file[i] = {}
  /\ ~Fits(i)
  /\ inst' = i
  /\ next' = NextPort
  /\ UNCHANGED <<counter, file, pc, torn>>

(* os.OpenFile(next_port, O_TRUNC)                                         *)
Truncate ==
  /\ pc = "truncate"
  /\ counter' = 0
  /\ pc' = "persist"
  /\ UNCHANGED <<file, inst, next, torn>>

(* file.Write: the counter passes the chosen ports ...                     *)
Persist ==
  /\ pc = "persist"
  /\ counter' = next + Needs[inst]
  /\ pc' = "store"
  /\ UNCHANGED <<file, inst, next, torn>>

(* ... or the write fails and the file stays empty.                        *)
PersistFail ==
  /\ pc = "persist"
  /\ pc' = "idle"
  /\ torn' = TRUE
  /\ UNCHANGED <<counter, file, inst, next>>

(* ports.json is written; a failed write leaves it empty.                  *)
Store ==
  /\ pc = "store"
  /\ file' \in {file, [file EXCEPT ![inst] = Chosen]}
  /\ pc' = "idle"
  /\ UNCHANGED <<counter, inst, next, torn>>

(* deprovision removes the instance's directory, and ports.json with it.   *)
(* The counter stays where it is.                                          *)
Deprovision(i) ==
  /\ pc = "idle"
  /\ file' = [file EXCEPT ![i] = {}]
  /\ UNCHANGED <<counter, pc, inst, next, torn>>

(* The process dies anywhere; next_port may be caught truncated.           *)
Crash ==
  /\ pc # "idle"
  /\ pc' = "idle"
  /\ torn' = (torn \/ pc = "persist")
  /\ UNCHANGED <<counter, file, inst, next>>

Next ==
  \/ \E i \in Instance : Choose(i) \/ Misread(i) \/ Exhausted(i) \/ Deprovision(i)
  \/ Truncate \/ Persist \/ PersistFail \/ Store \/ Crash

Spec == Init /\ [][Next]_vars

-----------------------------------------------------------------------------
(* Two instances never hold the same host port, whatever allocations are   *)
(* interrupted or retried and whatever instances are removed, as long as   *)
(* next_port has never been caught between its truncation and its write    *)
(* and no read of the files has failed.                                    *)
DistinctUnlessTorn ==
  torn \/ \A i, j \in Instance : i # j => file[i] \cap file[j] = {}

(* Even so the ports being handed out now are in nobody's ports.json, at   *)
(* every point of an allocation.                                           *)
FreshUnlessTorn ==
  torn \/ pc = "idle" \/ \A i \in Instance : file[i] \cap Chosen = {}

(* An instance keeps its ports until it is deprovisioned: a retried        *)
(* allocation, after any crash, never replaces them by others, as long as  *)
(* no read of the files has failed.                                        *)
PortsKept ==
  [][torn' \/ \A i \in Instance : file[i] # {} => file'[i] \in {file[i], {}}]_vars

-----------------------------------------------------------------------------
(* The allocator as its users see it, through the files of the instances   *)
Leases == INSTANCE PortLeases WITH lease <- file, broken <- torn

(* HostPorts implements PortLeases: through every interrupted, retried or  *)
(* failed allocation an instance gets all the ports it needs or none, only *)
(* when it has none, and none that another holds - unless next_port was    *)
(* caught between its truncation and its write, or a file was misread.     *)
ImplementsLeases == Leases!Spec
=============================================================================
