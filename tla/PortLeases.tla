----------------------------- MODULE PortLeases -----------------------------
(***************************************************************************)
(* What the allocator of host ports promises, seen from outside: an        *)
(* instance leases a range of as many ports as it needs, all of it at      *)
(* once, and later gives it back, all at once.  A lease is given to an     *)
(* instance that has none and never overlaps the lease of another, until   *)
(* the memory of what was handed out breaks, which nothing repairs: from   *)
(* then on leases may overlap and be replaced.                             *)
(***************************************************************************)
EXTENDS Naturals

CONSTANTS
  Instance,    \* who leases
  Needs,       \* [Instance -> Nat], how many ports each of them needs
  Port         \* the ports

VARIABLES
  lease,       \* [Instance -> SUBSET Port]
  broken       \* leases may overlap and be replaced from now on

vars == <<lease, broken>>

Init ==
  /\ lease = [i \in Instance |-> {}]
  /\ broken = FALSE

Held == UNION {lease[i] : i \in Instance}

Range(first, count) == first .. (first + count - 1)

Lease(i) ==
  /\ broken \/ lease[i] = {}
  /\ \E first \in Port :
       LET range == Range(first, Needs[i])
       IN /\ range \subseteq Port
          /\ broken \/ range \cap Held = {}
          /\ lease' = [lease EXCEPT ![i] = range]
  /\ UNCHANGED broken

Release(i) ==
  /\ lease' = [lease EXCEPT ![i] = {}]
  /\ UNCHANGED broken

Break == broken' = TRUE /\ UNCHANGED lease

Next == (\E i \in Instance : Lease(i) \/ Release(i)) \/ Break

Spec == Init /\ [][Next]_vars
=============================================================================
