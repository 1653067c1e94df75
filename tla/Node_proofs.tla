----------------------------- MODULE Node_proofs -----------------------------
(***************************************************************************)
(* Proofs about HostPorts and about Node, for every set of instances and   *)
(* every way to name them and their parts, every port range and every      *)
(* number of published services.                                           *)
(*                                                                         *)
(* HostPorts: the inductive invariant says that a counter that was never   *)
(* torn, with no file misread, stays above every port handed out: read     *)
(* from the file when no allocation is between truncation and write, and   *)
(* remembered in next while one is.                                        *)
(*                                                                         *)
(* Node: every step is a step of HostPorts or leaves the ports alone, so   *)
(* what is proved of HostPorts holds of it.  Its own invariant follows who *)
(* made each file and object: an instance that had a task, and one of      *)
(* whose names the object has.  Two instances that could lay hands on the  *)
(* same object then have names of which one begins with the other.         *)
(***************************************************************************)
EXTENDS StorageUsage, TLAPS

-----------------------------------------------------------------------------
(* HostPorts                                                               *)

Below(b) == \A i \in Instance : \A p \in file[i] : p < b

Choosing ==
  pc # "idle" => /\ next + Needs[inst] <= MaxPort + 1
                 /\ torn \/ file[inst] = {}

Above ==
  torn \/ /\ pc \in {"idle", "truncate", "store"} => Below(counter)
          /\ pc # "idle" => Below(next)
          /\ pc = "store" => counter = next + Needs[inst]

Disjoint == torn \/ \A i, j \in Instance : i # j => file[i] \cap file[j] = {}

IInv == TypeOK /\ Choosing /\ Above /\ Disjoint

-----------------------------------------------------------------------------
LEMMA InitIInv == Init => IInv
<1> SUFFICES ASSUME Init PROVE IInv
  OBVIOUS
<1>1. TypeOK
  <2>1. torn \in BOOLEAN
    BY DEF Init
  <2>2. file \in [Instance -> SUBSET Port]
    BY DEF Init
  <2>3. next \in MinPort .. (MaxPort + 1)
    BY PortsAssumption DEF Init
  <2> QED BY <2>1, <2>2, <2>3 DEF Init, TypeOK
<1>2. Choosing /\ Above /\ Disjoint
  BY DEF Init, Choosing, Above, Below, Disjoint
<1> QED BY <1>1, <1>2 DEF IInv

(* Every step preserves the invariant.                                     *)
LEMMA NextIInv == IInv /\ [Next]_vars => IInv'
<1> SUFFICES ASSUME IInv, [Next]_vars PROVE IInv'
  OBVIOUS
<1> USE PortsAssumption DEF IInv, TypeOK, Choosing, Above, Below, Disjoint, Port
<1>1. ASSUME NEW i \in Instance, Choose(i) PROVE IInv'
  BY <1>1 DEF Choose, NextPort, Fits
<1>2. ASSUME NEW i \in Instance, Exhausted(i) PROVE IInv'
  BY <1>2 DEF Exhausted, NextPort
<1>10. ASSUME NEW i \in Instance, Misread(i) PROVE IInv'
  <2>1. /\ pc = "idle" /\ inst' = i /\ UNCHANGED <<counter, file>>
        /\ next' \in {NextPort, MinPort}
        /\ \/ next' + Needs[i] <= MaxPort + 1 /\ pc' = "truncate" /\ torn' = TRUE
           \/ UNCHANGED <<pc, torn>>
    BY <1>10 DEF Misread
  <2>2. next' \in MinPort .. (MaxPort + 1)
    BY <2>1 DEF NextPort
  <2>3. CASE next' + Needs[i] <= MaxPort + 1 /\ pc' = "truncate" /\ torn' = TRUE
    <3>1. torn' \in BOOLEAN /\ torn'
      BY <2>3
    <3> QED BY <2>1, <2>2, <2>3, <3>1
  <2>4. CASE UNCHANGED <<pc, torn>>
    BY <2>1, <2>2, <2>4
  <2> QED BY <2>1, <2>3, <2>4
<1>3. ASSUME NEW i \in Instance, Deprovision(i) PROVE IInv'
  BY <1>3 DEF Deprovision
<1>4. CASE Truncate
  BY <1>4 DEF Truncate
<1>5. CASE Persist
  BY <1>5 DEF Persist
<1>6. CASE PersistFail
  BY <1>6 DEF PersistFail
<1>7. CASE Store
  <2>1. /\ pc = "store" /\ pc' = "idle"
        /\ file' \in {file, [file EXCEPT ![inst] = Chosen]}
        /\ UNCHANGED <<counter, inst, next, torn>>
    BY <1>7 DEF Store
  <2>2. Chosen \subseteq Port /\ \A p \in Chosen : next <= p /\ p < next + Needs[inst]
    BY <2>1 DEF Chosen
  <2>3. TypeOK' /\ Choosing'
    BY <2>1, <2>2
  <2>4. Above'
    BY <2>1, <2>2
  <2>5. torn \/ \A i \in Instance : file[i] \cap Chosen = {}
    BY <2>1, <2>2
  <2>6. Disjoint'
    <3> SUFFICES ASSUME ~torn, NEW i \in Instance, NEW j \in Instance, i # j
                 PROVE  file'[i] \cap file'[j] = {}
      BY <2>1
    <3>1. file[i] \cap file[j] = {} /\ file[i] \cap Chosen = {} /\ file[j] \cap Chosen = {}
      BY <2>5
    <3>2. CASE file' = file
      BY <3>1, <3>2
    <3>3. CASE file' = [file EXCEPT ![inst] = Chosen]
      <4>1. \A k \in Instance : file'[k] = IF k = inst THEN Chosen ELSE file[k]
        BY <3>3
      <4> QED BY <3>1, <4>1
    <3> QED BY <2>1, <3>2, <3>3
  <2> QED BY <2>3, <2>4, <2>6
<1>8. CASE Crash
  BY <1>8 DEF Crash
<1>9. CASE UNCHANGED vars
  BY <1>9 DEF vars
<1> QED
  BY <1>1, <1>2, <1>3, <1>4, <1>5, <1>6, <1>7, <1>8, <1>9, <1>10 DEF Next

(* What was misread or left truncated stays so.                            *)
LEMMA TornStays == [Next]_vars /\ torn => torn'
  BY DEF Next, vars, Choose, Misread, Exhausted, Deprovision, Truncate, Persist,
         PersistFail, Store, Crash

LEMMA Invariance == Spec => []IInv
BY InitIInv, NextIInv, PTL DEF Spec

(* Type correctness of HostPorts.                                          *)
THEOREM TypeCorrect == Spec => []TypeOK
<1>1. IInv => TypeOK
  BY DEF IInv
<1> QED BY <1>1, Invariance, PTL

(* No two instances hold a common host port, through any sequence of       *)
(* allocations, failures, crashes and removals, unless next_port was       *)
(* caught between truncation and write or one of the files was misread.    *)
THEOREM Distinct == Spec => []DistinctUnlessTorn
<1>1. IInv => DistinctUnlessTorn
  BY DEF IInv, Disjoint, DistinctUnlessTorn
<1> QED BY <1>1, Invariance, PTL

(* Nor does a running allocation hand out a port somebody holds.           *)
THEOREM Fresh == Spec => []FreshUnlessTorn
<1>1. IInv => FreshUnlessTorn
  BY PortsAssumption
     DEF IInv, TypeOK, Above, Below, FreshUnlessTorn, Chosen, Port
<1> QED BY <1>1, Invariance, PTL

(* The ports of an instance change only when it is deprovisioned, as long  *)
(* as no file was caught truncated or misread.                             *)
THEOREM Kept == Spec => PortsKept
<1> DEFINE Keep == torn' \/ \A i \in Instance : file[i] # {} => file'[i] \in {file[i], {}}
<1>1. IInv /\ [Next]_vars => Keep
  BY DEF IInv, TypeOK, Choosing, Next, vars, Choose, Misread, Exhausted, Deprovision,
         Truncate, Persist, PersistFail, Store, Crash
<1>2. Keep => [Keep]_vars
  OBVIOUS
<1> QED BY <1>1, <1>2, Invariance, PTL DEF Spec, PortsKept

-----------------------------------------------------------------------------
(* HostPorts implements PortLeases: the steps of an allocation before the  *)
(* last change no lease, and the last gives a whole range or nothing.      *)
LEMMA Stored ==
  ASSUME IInv, Store, file' # file
  PROVE  Leases!Lease(inst)
<1> USE PortsAssumption DEF IInv, TypeOK
<1>1. /\ pc = "store" /\ inst \in Instance
      /\ file' = [file EXCEPT ![inst] = Chosen]
      /\ torn' = torn
  BY DEF Store
<1>2. (torn \/ file[inst] = {}) /\ next + Needs[inst] <= MaxPort + 1
  BY <1>1 DEF Choosing
<1>3. Chosen = Leases!Range(next, Needs[inst]) /\ Chosen \subseteq Port
  BY <1>1, <1>2 DEF Chosen, Leases!Range, Port
<1>4. \E first \in Port : Chosen = Leases!Range(first, Needs[inst])
  <2>1. CASE Needs[inst] = 0
    <3>1. MinPort \in Port /\ Chosen = {} /\ Leases!Range(MinPort, 0) = {}
      BY <2>1 DEF Port, Chosen, Leases!Range
    <3> QED BY <2>1, <3>1
  <2>2. CASE Needs[inst] # 0
    <3>1. Needs[inst] \in Nat /\ next \in MinPort .. (MaxPort + 1)
      BY <1>1
    <3>2. next \in Port
      BY <1>2, <2>2, <3>1 DEF Port
    <3> QED BY <1>3, <3>2
  <2> QED BY <2>1, <2>2
<1>5. torn \/ Chosen \cap Leases!Held = {}
  BY <1>1 DEF Above, Below, Chosen, Leases!Held, Port
<1> QED BY <1>1, <1>2, <1>3, <1>4, <1>5 DEF Leases!Lease

THEOREM HostPortsImplementsLeases == Spec => ImplementsLeases
<1>1. Init => Leases!Init
  BY DEF Init, Leases!Init
<1>2. ASSUME IInv, [Next]_vars PROVE [Leases!Next]_<<file, torn>>
  <2> USE DEF IInv, TypeOK
  <2>1. ASSUME NEW i \in Instance, Deprovision(i) PROVE Leases!Next
    BY <2>1 DEF Deprovision, Leases!Next, Leases!Release
  <2>2. CASE Store
    <3>1. CASE file' = file
      BY <2>2, <3>1 DEF Store
    <3>2. CASE file' # file
      BY <1>2, <2>2, <3>2, Stored DEF Leases!Next
    <3> QED BY <3>1, <3>2
  <2>3. CASE PersistFail
    BY <2>3 DEF PersistFail, Leases!Next, Leases!Break
  <2>4. CASE Crash
    <3>1. file' = file /\ (torn' = torn \/ torn' = TRUE)
      BY <1>2, <2>4 DEF Crash
    <3> QED BY <3>1 DEF Leases!Next, Leases!Break
  <2>5. CASE UNCHANGED <<file, torn>>
    BY <2>5
  <2>6. ASSUME NEW i \in Instance, Misread(i)
        PROVE  Leases!Break \/ UNCHANGED <<file, torn>>
    BY <2>6 DEF Misread, Leases!Break
  <2> QED
    BY <1>2, <2>1, <2>2, <2>3, <2>4, <2>5, <2>6
       DEF Next, vars, Choose, Exhausted, Truncate, Persist, Leases!Next
<1>3. IInv /\ [Next]_vars => [Leases!Next]_Leases!vars
  BY <1>2 DEF Leases!vars
<1> QED
  BY <1>1, <1>3, Invariance, PTL DEF Spec, Leases!Spec, ImplementsLeases

-----------------------------------------------------------------------------
(* Names                                                                   *)

USE DEF Names

LEMMA SafeNameType ==
  ASSUME NEW s \in Seq(Character)
  PROVE  /\ SafeName(s) \in Seq(Character)
         /\ Len(SafeName(s)) = Len(s)
BY NodeAssumption DEF SafeName

LEMMA UnderType ==
  ASSUME NEW i \in Seq(Character), NEW s \in Seq(Character)
  PROVE  /\ Under(i, s) \in Seq(Character)
         /\ Prefix(SafeName(i), Under(i, s))
         /\ Prefix(SafeName(i) \o <<"-">>, Under(i, s))
<1> DEFINE p == SafeName(i)
           q == SafeName(s)
<1>1. p \in Seq(Character) /\ q \in Seq(Character) /\ <<"-">> \in Seq(Character)
  BY SafeNameType, NodeAssumption
<1> HIDE DEF p, q
<1>2. p \o <<"-">> \in Seq(Character)
  BY <1>1
<1>3. (p \o <<"-">>) \o q \in Seq(Character)
  BY <1>1, <1>2
<1>4. Prefix(p, (p \o <<"-">>) \o q) /\ Prefix(p \o <<"-">>, (p \o <<"-">>) \o q)
  BY <1>1, <1>2, <1>3 DEF Prefix
<1> QED BY <1>3, <1>4 DEF Under, p, q

(* Of two beginnings of one name, one begins with the other.               *)
LEMMA Comparable ==
  ASSUME NEW p \in Seq(Character), NEW q \in Seq(Character),
         NEW t \in Seq(Character), Prefix(p, t), Prefix(q, t)
  PROVE  Prefix(p, q) \/ Prefix(q, p)
BY DEF Prefix

LEMMA Reflexive == ASSUME NEW p PROVE Prefix(p, p) \/ Len(p) \notin Nat
BY DEF Prefix

(* What an instance is made of begins with its name.                       *)
LEMMA ObjectNames ==
  ASSUME NEW i \in Instance, NEW o \in ObjectsOf(i)
  PROVE  o[2] \in Seq(Character) /\ Prefix(SafeName(i), o[2])
<1> USE NodeAssumption
<1>1. SafeName(i) \in Seq(Character) /\ Len(SafeName(i)) \in Nat
  BY SafeNameType
<1>2. CASE o = PodOf(i)
  BY <1>1, <1>2, Reflexive DEF PodOf
<1>3. ASSUME NEW s \in ServiceOf[i], o = <<"container", Under(i, s)>>
      PROVE  o[2] \in Seq(Character) /\ Prefix(SafeName(i), o[2])
  BY <1>3, UnderType
<1>4. ASSUME NEW v \in VolumeOf[i], o = <<"volume", Under(i, v)>>
      PROVE  o[2] \in Seq(Character) /\ Prefix(SafeName(i), o[2])
  BY <1>4, UnderType
<1>5. ASSUME NEW k \in SecretOf[i], o = <<"secret", Under(i, k)>>
      PROVE  o[2] \in Seq(Character) /\ Prefix(SafeName(i), o[2])
  BY <1>5, UnderType
<1> QED
  BY <1>2, <1>3, <1>4, <1>5
     DEF ObjectsOf, FilesOf, ContainersOf, VolumesOf, SecretsOf

(* A name that begins an object of one instance and is the name of another *)
(* relates the two.                                                        *)
LEMMA Clash ==
  ASSUME NEW i \in Instance, NEW j \in Instance, i # j,
         NEW o \in ObjectsOf(i), Prefix(SafeName(j), o[2])
  PROVE  Related(i, j)
<1>1. SafeName(i) \in Seq(Character) /\ SafeName(j) \in Seq(Character)
  BY SafeNameType, NodeAssumption
<1> QED BY <1>1, ObjectNames, Comparable DEF Related

LEMMA Shared ==
  ASSUME NEW i \in Instance, NEW j \in Instance, i # j,
         NEW o \in ObjectsOf(i), o \in ObjectsOf(j)
  PROVE  Related(i, j)
BY ObjectNames, Clash

LEMMA SameName ==
  ASSUME NEW i \in Instance, NEW j \in Instance, i # j,
         SafeName(i) = SafeName(j)
  PROVE  Related(i, j)
<1>1. Len(SafeName(i)) \in Nat
  BY SafeNameType, NodeAssumption
<1> QED BY <1>1, Reflexive DEF Related

-----------------------------------------------------------------------------
(* Node implements HostPorts                                               *)

LEMMA NodeStepIsPortStep ==
  ASSUME job.of \in Instance, [NodeNext]_nodeVars
  PROVE  [Next]_vars
<1> USE DEF ports
<1>1. ASSUME NEW i \in Instance, Already(i) \/ Provision(i) \/ Remove(i)
      PROVE  [Next]_vars
  BY <1>1 DEF Already, Provision, Remove
<1>2. CASE Allocate
  BY <1>2 DEF Allocate, Next, Of
<1>3. CASE Reuse \/ RenderPod \/ RenderPodFails \/ Render
  BY <1>3 DEF Reuse, RenderPod, RenderPodFails, Render
<1>4. CASE CreateSecrets \/ Start \/ StartFails
  BY <1>4 DEF CreateSecrets, Start, StartFails
<1>5. CASE Clear \/ RemoveFiles
  BY <1>5 DEF Clear, RemoveFiles
<1>6. CASE RemoveDir
  BY <1>6 DEF RemoveDir, Next, Of
<1>7. CASE Die
  BY <1>7 DEF Die, Next
<1>8. CASE UNCHANGED nodeVars
  BY <1>8 DEF nodeVars
<1> QED
  BY <1>1, <1>2, <1>3, <1>4, <1>5, <1>6, <1>7, <1>8 DEF NodeNext, Tasks

-----------------------------------------------------------------------------
(* The inductive invariant of Node                                         *)

Types ==
  /\ quadlet \in [File -> Instance \cup {Nobody}]
  /\ publish \in [Pod -> SUBSET Port]
  /\ tier \in SUBSET Instance
  /\ podman \in [Object -> Instance \cup {Nobody}]
  /\ job \in [of : Instance, pc : JobPc]
  /\ used \in SUBSET Instance
  /\ up \in SUBSET Instance
  /\ failed \in 0 .. MaxFailed

(* Files and objects were made by instances that had a task and whose they *)
(* are by name.                                                            *)
Owned ==
  /\ \A f \in File : quadlet[f] # Nobody =>
       quadlet[f] \in used /\ f \in FilesOf(quadlet[f])
  /\ \A o \in Object : podman[o] # Nobody =>
       podman[o] \in used /\ o \in ObjectsOf(podman[o])

Busy == job.pc # "idle" => job.of \in used

Staged ==
  /\ job.pc = "files" => quadlet[PodOf(job.of)] = job.of
  /\ job.pc \in {"secrets", "start"} =>
       \A f \in FilesOf(job.of) : quadlet[f] = job.of
  /\ job.pc = "start" => \A o \in SecretsOf(job.of) : podman[o] = job.of
  /\ job.pc \in {"clear", "remove", "dir"} => job.of \notin up
  /\ job.pc = "dir" => \A p \in Pod : quadlet[p] # job.of

(* A pod file publishes ports its instance holds.                          *)
Published ==
  torn \/ \A p \in Pod :
    publish[p] \subseteq (IF quadlet[p] = Nobody THEN {} ELSE file[quadlet[p]])

NInv == IInv /\ Types /\ Owned /\ Busy /\ Staged /\ Published /\ KeptUnlessRelated

LEMMA Subsets ==
  /\ Pod \subseteq File /\ File \subseteq Object /\ Container \subseteq Object
  /\ \A i \in Instance : /\ PodOf(i) \in Pod /\ PodOf(i) \in FilesOf(i)
                         /\ FilesOf(i) \subseteq File
                         /\ FilesOf(i) \subseteq ObjectsOf(i)
                         /\ ObjectsOf(i) \subseteq Object
                         /\ SecretsOf(i) \subseteq ObjectsOf(i)
                         /\ VolumesOf(i) \subseteq ObjectsOf(i)
                         /\ SecretsOf(i) \cap File = {}
BY DEF Pod, File, Object, Container, FilesOf, ObjectsOf, PodOf, ContainersOf,
       VolumesOf, SecretsOf

LEMMA NInvInit == NodeInit => NInv
<1> SUFFICES ASSUME NodeInit PROVE NInv
  OBVIOUS
<1> USE NodeAssumption DEF NodeInit
<1>1. IInv /\ inst \in Instance
  BY InitIInv DEF Init
<1>2. Types
  BY <1>1 DEF Types, JobPc
<1>3. Owned /\ Busy /\ Staged /\ Published /\ KeptUnlessRelated
  BY Subsets DEF Owned, Busy, Staged, Published, KeptUnlessRelated
<1> QED BY <1>1, <1>2, <1>3 DEF NInv

(* What is left alone, or made the instance's own, keeps it intact.        *)
LEMMA Keeping ==
  ASSUME KeptUnlessRelated, used \subseteq used', up' \subseteq up,
         \A i \in up' :
           \/ \E j \in used' : Related(i, j)
           \/ /\ \A f \in FilesOf(i) : quadlet'[f] \in {quadlet[f], i}
              /\ \A o \in ObjectsOf(i) : podman'[o] \in {podman[o], i}
  PROVE  KeptUnlessRelated'
BY DEF KeptUnlessRelated, Intact

LEMMA Undisturbed ==
  ASSUME KeptUnlessRelated, used \subseteq used', up' \subseteq up,
         UNCHANGED <<quadlet, podman>>
  PROVE  KeptUnlessRelated'
BY Keeping

-----------------------------------------------------------------------------
(* Every step preserves it: types first                                    *)

LEMMA TypesNext ==
  ASSUME IInv, Types, [NodeNext]_nodeVars
  PROVE  Types'
<1> USE NodeAssumption DEF Types, JobPc, GoTo, End, Quit, Of, At, disk, history
<1>1. ASSUME NEW i \in Instance, Already(i) \/ Provision(i) \/ Remove(i)
      PROVE  Types'
  BY <1>1 DEF Already, Provision, Remove, Take
<1>2. CASE Allocate \/ Reuse
  BY <1>2 DEF Allocate, Reuse
<1>3. CASE RenderPod \/ RenderPodFails
  <2>1. file[Of] \in SUBSET Port
    BY DEF IInv, TypeOK
  <2>2. tier' \in {tier, tier \cup {Of}, tier \ {Of}} /\ Of \in Instance
    BY <1>3 DEF RenderPod, RenderPodFails
  <2>3. tier' \in SUBSET Instance
    BY <2>2
  <2>4. /\ quadlet' \in [File -> Instance \cup {Nobody}]
        /\ publish' \in [Pod -> SUBSET Port]
        /\ UNCHANGED <<podman, used, up>>
    BY <1>3, <2>1 DEF RenderPod, RenderPodFails
  <2>5. job' \in [of : Instance, pc : JobPc] /\ failed' \in 0 .. MaxFailed
    BY <1>3 DEF RenderPod, RenderPodFails
  <2> QED BY <2>3, <2>4, <2>5
<1>4. CASE Render
  <2>1. /\ quadlet' \in [File -> Instance \cup {Nobody}]
        /\ UNCHANGED <<publish, tier, podman, used, up>>
    BY <1>4 DEF Render, Write
  <2>2. job' \in [of : Instance, pc : JobPc] /\ failed' \in 0 .. MaxFailed
    BY <1>4 DEF Render
  <2> QED BY <2>1, <2>2
<1>5. CASE CreateSecrets
  BY <1>5 DEF CreateSecrets
<1>6. ASSUME NEW units, Started(units), units \subseteq Units
      PROVE  podman' \in [Object -> Instance \cup {Nobody}]
  BY <1>6 DEF Started, Units
<1>7. CASE Start \/ StartFails
  BY <1>6, <1>7 DEF Start, StartFails
<1>8. CASE Clear \/ RemoveFiles
  BY <1>8 DEF Clear, RemoveFiles
<1>9. CASE RemoveDir \/ Die
  BY <1>9 DEF RemoveDir, Die
<1>10. CASE UNCHANGED nodeVars
  BY <1>10 DEF nodeVars
<1> QED
  BY <1>1, <1>2, <1>3, <1>4, <1>5, <1>7, <1>8, <1>9, <1>10
     DEF NodeNext, Tasks

(* The files and objects a step writes get the maker they are named for.   *)
LEMMA OwnedNext ==
  ASSUME NInv, [NodeNext]_nodeVars
  PROVE  Owned' /\ Busy'
<1> USE NodeAssumption, Subsets
    DEF NInv, Types, Owned, Busy, GoTo, End, Quit, Of, At, disk, history
<1>1. ASSUME NEW i \in Instance, Already(i) \/ Provision(i) \/ Remove(i)
      PROVE  Owned' /\ Busy'
  BY <1>1 DEF Already, Provision, Remove, Take
<1>2. CASE Allocate \/ Reuse
  BY <1>2 DEF Allocate, Reuse
<1>3. CASE RenderPod \/ RenderPodFails
  <2>1. /\ Of \in used /\ used' = used /\ podman' = podman /\ job'.of = job.of
        /\ quadlet' \in {quadlet, [quadlet EXCEPT ![PodOf(Of)] = Of]}
    BY <1>3 DEF RenderPod, RenderPodFails
  <2>2. PodOf(Of) \in File /\ PodOf(Of) \in FilesOf(Of)
    OBVIOUS
  <2>3. ASSUME NEW f \in File, quadlet'[f] # Nobody
        PROVE  quadlet'[f] \in used /\ f \in FilesOf(quadlet'[f])
    BY <2>1, <2>2, <2>3
  <2> QED BY <2>1, <2>3
<1>4. CASE Render
  BY <1>4 DEF Render, Write
<1>5. CASE CreateSecrets
  BY <1>5 DEF CreateSecrets
<1>6. ASSUME NEW units, Started(units), units \subseteq Units
      PROVE  \A o \in Object : podman'[o] # Nobody =>
               podman'[o] \in used /\ o \in ObjectsOf(podman'[o])
  BY <1>6 DEF Started, Units, SamePod
<1>7. CASE Start \/ StartFails
  BY <1>6, <1>7 DEF Start, StartFails
<1>8. CASE Clear \/ RemoveFiles
  BY <1>8 DEF Clear, RemoveFiles
<1>9. CASE RemoveDir \/ Die
  BY <1>9 DEF RemoveDir, Die
<1>10. CASE UNCHANGED nodeVars
  BY <1>10 DEF nodeVars
<1> QED
  BY <1>1, <1>2, <1>3, <1>4, <1>5, <1>7, <1>8, <1>9, <1>10
     DEF NodeNext, Tasks

(* What the task in hand has done so far is there when it goes on.         *)
LEMMA StagedNext ==
  ASSUME NInv, [NodeNext]_nodeVars
  PROVE  Staged'
<1> USE NodeAssumption, Subsets
    DEF NInv, Types, Staged, GoTo, End, Quit, Of, At, disk, history
<1>1. ASSUME NEW i \in Instance, Already(i) \/ Provision(i) \/ Remove(i)
      PROVE  Staged'
  BY <1>1 DEF Already, Provision, Remove, Take
<1>2. CASE Allocate \/ Reuse
  BY <1>2 DEF Allocate, Reuse
<1>3. CASE RenderPod \/ RenderPodFails
  BY <1>3 DEF RenderPod, RenderPodFails
<1>4. CASE Render
  BY <1>4 DEF Render, Write
<1>5. CASE CreateSecrets
  BY <1>5 DEF CreateSecrets
<1>6. CASE Start \/ StartFails
  BY <1>6 DEF Start, StartFails
<1>7. CASE Clear
  <2>1. job.pc = "clear" /\ UNCHANGED <<quadlet, up>> /\ job'.of = job.of
    BY <1>7 DEF Clear
  <2>2. job'.pc \in {"idle", "remove"}
    BY <1>7 DEF Clear
  <2> QED BY <2>1, <2>2
<1>8. CASE RemoveFiles
  <2>1. \A p \in Pod : p \in FilesOf(Of) => p \in Matching
    BY ObjectNames DEF Matching
  <2>2. PICK files \in SUBSET Matching :
          /\ quadlet' = [f \in File |-> IF f \in files THEN Nobody ELSE quadlet[f]]
          /\ IF files = Matching THEN GoTo("dir") ELSE Quit
    BY <1>8 DEF RemoveFiles
  <2>3. job.pc = "remove" /\ up' = up /\ job'.of = job.of
    BY <1>8, <2>2 DEF RemoveFiles
  <2>4. (job'.pc = "dir" /\ files = Matching) \/ job'.pc = "idle"
    BY <2>2
  <2>5. ASSUME files = Matching, NEW p \in Pod PROVE quadlet'[p] # Of
    <3>1. CASE p \in Matching
      BY <2>2, <2>5, <3>1
    <3>2. CASE p \notin Matching
      BY <2>1, <2>2, <2>5, <3>2 DEF Owned
    <3> QED BY <3>1, <3>2
  <2> QED BY <2>3, <2>4, <2>5
<1>9. CASE RemoveDir \/ Die
  BY <1>9 DEF RemoveDir, Die
<1>10. CASE UNCHANGED nodeVars
  BY <1>10 DEF nodeVars
<1> QED
  BY <1>1, <1>2, <1>3, <1>4, <1>5, <1>6, <1>7, <1>8, <1>9, <1>10
     DEF NodeNext, Tasks

(* Pod files publish what ports.json lists; ports.json goes last.          *)
LEMMA PublishedNext ==
  ASSUME NInv, [NodeNext]_nodeVars
  PROVE  Published'
<1> USE NodeAssumption, Subsets
    DEF NInv, Types, Published, GoTo, End, Quit, Of, At, ports, vars, disk,
        history
<1>0. file \in [Instance -> SUBSET Port] /\ inst \in Instance
  BY DEF IInv, TypeOK
<1>t. torn => torn'
  BY NodeStepIsPortStep, TornStays
<1> SUFFICES ASSUME ~torn, ~torn' PROVE Published'
  BY <1>t
<1>1. ASSUME UNCHANGED <<file, quadlet, publish>>
      PROVE  Published'
  BY <1>1
<1>2. ASSUME NEW i \in Instance, Already(i) \/ Provision(i) \/ Remove(i)
      PROVE  Published'
  BY <1>1, <1>2 DEF Already, Provision, Remove
<1>3. CASE Allocate
  <2>1. UNCHANGED <<quadlet, publish>>
    BY <1>3 DEF Allocate
  <2>2. CASE Store
    <3>1. file' = file \/ (file[inst] = {} /\ file' = [file EXCEPT ![inst] = Chosen])
      BY <2>2 DEF Store, IInv, Choosing
    <3>2. \A j \in Instance : file[j] \subseteq file'[j]
      BY <3>1, <1>0
    <3> QED BY <2>1, <3>2
  <2>3. CASE ~Store
    <3>1. file' = file
      BY <1>3, <2>3 DEF Allocate, Choose, Misread, Exhausted, Truncate, Persist, PersistFail
    <3> QED BY <1>1, <2>1, <3>1
  <2> QED BY <2>2, <2>3
<1>4. CASE Reuse
  BY <1>1, <1>4 DEF Reuse
<1>5. CASE RenderPod \/ RenderPodFails
  <2>1. file' = file
    BY <1>5 DEF RenderPod, RenderPodFails
  <2>2. \/ UNCHANGED <<quadlet, publish>>
        \/ /\ quadlet' = [quadlet EXCEPT ![PodOf(Of)] = Of]
           /\ \/ publish' = [publish EXCEPT ![PodOf(Of)] = file[Of]]
              \/ publish' = [publish EXCEPT ![PodOf(Of)] = {}]
    BY <1>5 DEF RenderPod, RenderPodFails
  <2>3. ASSUME NEW p \in Pod, p # PodOf(Of)
        PROVE  quadlet'[p] = quadlet[p] /\ publish'[p] = publish[p]
    BY <2>2, <2>3
  <2>4. \/ UNCHANGED <<quadlet, publish>>
        \/ quadlet'[PodOf(Of)] = Of /\ publish'[PodOf(Of)] \subseteq file[Of]
    BY <2>2
  <2> QED BY <2>1, <2>3, <2>4
<1>6. CASE Render
  <2>1. UNCHANGED <<file, publish>>
    BY <1>6 DEF Render
  <2>2. PICK files : Write(files) /\ files \subseteq FilesOf(Of)
                     /\ (job'.pc = "secrets" \/ PodOf(Of) \notin files)
    BY <1>6 DEF Render
  <2>3. job.pc = "files"
    BY <1>6 DEF Render
  <2>4. quadlet[PodOf(Of)] = Of
    BY <2>3 DEF Staged
  <2>5. \A p \in Pod : p \in FilesOf(Of) => p = PodOf(Of)
    BY DEF Pod, FilesOf, PodOf, ContainersOf, VolumesOf
  <2>6. \A p \in Pod : quadlet'[p] = quadlet[p]
    BY <2>2, <2>4, <2>5 DEF Write
  <2> QED BY <2>1, <2>6
<1>7. CASE CreateSecrets \/ Start \/ StartFails \/ Clear
  BY <1>1, <1>7 DEF CreateSecrets, Start, StartFails, Clear
<1>8. CASE RemoveFiles
  BY <1>8 DEF RemoveFiles
<1>9. CASE RemoveDir
  <2>1. UNCHANGED <<quadlet, publish>> /\ job.pc = "dir"
    BY <1>9 DEF RemoveDir
  <2>2. file' = [file EXCEPT ![Of] = {}] \/ file' = file
    BY <1>9 DEF RemoveDir, Deprovision
  <2>3. \A p \in Pod : quadlet[p] # Of
    BY <2>1 DEF Staged
  <2> QED BY <1>0, <2>1, <2>2, <2>3
<1>10. CASE Die
  BY <1>1, <1>10 DEF Die, Crash
<1>11. CASE UNCHANGED nodeVars
  BY <1>1, <1>11 DEF nodeVars
<1> QED
  BY <1>2, <1>3, <1>4, <1>5, <1>6, <1>7, <1>8, <1>9, <1>10, <1>11
     DEF NodeNext, Tasks

(* Whoever touches an object of an instance is the instance itself or has  *)
(* a related name.                                                         *)
LEMMA KeptNext ==
  ASSUME NInv, [NodeNext]_nodeVars
  PROVE  KeptUnlessRelated'
<1> USE NodeAssumption, Subsets
    DEF NInv, Types, GoTo, End, Quit, Of, At, disk, history
<1>1. ASSUME NEW i \in Instance, Already(i) \/ Provision(i) \/ Remove(i)
      PROVE  KeptUnlessRelated'
  BY <1>1, Undisturbed DEF Already, Provision, Remove, Take
<1>2. CASE Allocate \/ Reuse
  BY <1>2, Undisturbed DEF Allocate, Reuse
<1>3. CASE RenderPod \/ RenderPodFails
  <2>1. /\ quadlet' \in {quadlet, [quadlet EXCEPT ![PodOf(Of)] = Of]}
        /\ UNCHANGED <<podman, used, up>> /\ Of \in used
    BY <1>3 DEF RenderPod, RenderPodFails, Busy
  <2>2. ASSUME NEW i \in up, NEW f \in FilesOf(i)
        PROVE  quadlet'[f] \in {quadlet[f], i} \/ Related(i, Of)
    <3>1. CASE f = PodOf(Of)
      BY <2>1, <3>1, Shared
    <3>2. CASE f # PodOf(Of)
      BY <2>1, <3>2
    <3> QED BY <3>1, <3>2
  <2> QED BY <2>1, <2>2, Keeping
<1>12. CASE Render
  <2>1. PICK files : files \subseteq FilesOf(Of) /\ Write(files)
    BY <1>12 DEF Render
  <2>2. UNCHANGED <<podman, used, up>> /\ Of \in used
    BY <1>12 DEF Render, Busy
  <2>3. ASSUME NEW i \in up, NEW f \in FilesOf(i)
        PROVE  quadlet'[f] \in {quadlet[f], i} \/ Related(i, Of)
    BY <2>1, Shared DEF Write
  <2> QED BY <2>2, <2>3, Keeping
<1>4. CASE CreateSecrets
  <2>1. PICK made \in SUBSET SecretsOf(Of) :
          podman' = [o \in Object |-> IF o \in made THEN Of ELSE podman[o]]
    BY <1>4 DEF CreateSecrets
  <2>2. UNCHANGED <<quadlet, used, up>> /\ Of \in used
    BY <1>4 DEF CreateSecrets, Busy
  <2>3. ASSUME NEW i \in up, NEW o \in ObjectsOf(i)
        PROVE  podman'[o] \in {podman[o], i} \/ Related(i, Of)
    BY <2>1, Shared
  <2> QED BY <2>2, <2>3, Keeping
<1>5. ASSUME NEW units, Started(units), units \subseteq Units,
             NEW i \in Instance, NEW o \in ObjectsOf(i)
      PROVE  podman'[o] \in {podman[o], i} \/ \E j \in used : Related(i, j)
  <2>1. CASE o \in units /\ podman'[o] = quadlet[o]
    <3>1. quadlet[o] \in used /\ o \in ObjectsOf(quadlet[o])
      BY <1>5, <2>1 DEF Units, SamePod, Owned
    <3> QED BY <2>1, <3>1, Shared
  <2>2. CASE podman'[o] = podman[o]
    BY <2>2
  <2> QED BY <1>5, <2>1, <2>2 DEF Started
<1>6. CASE Start
  <2>1. /\ Started(Units) /\ UNCHANGED <<quadlet, used>> /\ up' = up \cup {Of}
        /\ job.pc = "start"
    BY <1>6 DEF Start
  <2>2. \A f \in FilesOf(Of) : f \in Units
    BY <2>1 DEF Staged, Units, SamePod
  <2>3. ASSUME NEW o \in ObjectsOf(Of)
        PROVE  podman'[o] = Of \/ \E j \in used : Related(Of, j)
    <3>1. CASE o \in FilesOf(Of) /\ podman'[o] = quadlet[o]
      BY <2>1, <3>1 DEF Staged
    <3>2. CASE o \in FilesOf(Of) /\ podman[o] # Nobody /\ podman'[o] = podman[o]
      BY <3>2, Shared DEF Owned
    <3>3. CASE o \in SecretsOf(Of)
      BY <2>1, <3>3 DEF Staged, Started, Units
    <3> QED BY <2>1, <2>2, <3>1, <3>2, <3>3 DEF Started, ObjectsOf
  <2>4. ASSUME NEW i \in Instance, i = Of
        PROVE  Intact(i)' \/ \E j \in used' : Related(i, j)
    BY <2>1, <2>3, <2>4 DEF Intact, Staged
  <2>5. ASSUME NEW i \in up
        PROVE  Intact(i)' \/ \E j \in used' : Related(i, j)
    <3>1. CASE \E j \in used : Related(i, j)
      BY <2>1, <3>1
    <3>2. CASE Intact(i) /\ ~ \E j \in used : Related(i, j)
      <4>1. \A o \in ObjectsOf(i) : podman'[o] = i
        BY <1>5, <2>1, <3>2 DEF Intact
      <4>2. \A f \in FilesOf(i) : quadlet'[f] = i
        BY <2>1, <3>2 DEF Intact
      <4> QED BY <4>1, <4>2 DEF Intact
    <3> QED BY <3>1, <3>2 DEF KeptUnlessRelated
  <2>6. ASSUME NEW i \in up'
        PROVE  (Intact(i) \/ \E j \in used : Related(i, j))'
    BY <2>1, <2>4, <2>5
  <2> QED BY <2>6 DEF KeptUnlessRelated
<1>7. CASE StartFails
  <2>1. PICK units : Started(units) /\ units \subseteq Units
    BY <1>7 DEF StartFails
  <2>2. UNCHANGED <<quadlet, used>> /\ up' \subseteq up
    BY <1>7 DEF StartFails
  <2> QED BY <1>5, <2>1, <2>2, Keeping
<1>8. CASE Clear
  <2>1. PICK gone \in SUBSET Gone :
          podman' = [o \in Object |-> IF o \in gone THEN Nobody ELSE podman[o]]
    BY <1>8 DEF Clear
  <2>2. UNCHANGED <<quadlet, used, up>> /\ Of \in used /\ Of \notin up
    BY <1>8 DEF Clear, Busy, Staged
  <2>3. ASSUME NEW i \in up, NEW o \in ObjectsOf(i), o \in Gone
        PROVE  \E j \in used : Related(i, j)
    <3>1. CASE o \in ObjectsOf(Of)
      BY <2>2, <3>1, Shared
    <3>2. ASSUME podman[o] # Nobody, podman[o] # i
          PROVE  \E j \in used : Related(i, j)
      BY <3>2, Shared DEF Owned
    <3>3. CASE podman[o] = i /\ SafeName(i) = SafeName(Of)
      BY <2>2, <3>3, SameName
    <3>4. CASE podman[o] = i /\ VolumesOf(i) \cap VolumesOf(Of) # {}
      BY <2>2, <3>4, Shared
    <3> QED BY <2>3, <3>1, <3>2, <3>3, <3>4 DEF Gone, SamePod
  <2> QED BY <2>1, <2>2, <2>3, Keeping
<1>9. CASE RemoveFiles
  <2>1. PICK files \in SUBSET Matching :
          quadlet' = [f \in File |-> IF f \in files THEN Nobody ELSE quadlet[f]]
    BY <1>9 DEF RemoveFiles
  <2>2. UNCHANGED <<podman, used, up>> /\ Of \in used /\ Of \notin up
    BY <1>9 DEF RemoveFiles, Busy, Staged
  <2>3. ASSUME NEW i \in up, NEW f \in FilesOf(i), f \in Matching
        PROVE  Related(i, Of)
    BY <2>2, <2>3, Clash DEF Matching
  <2> QED BY <2>1, <2>2, <2>3, Keeping
<1>10. CASE RemoveDir \/ Die
  BY <1>10, Undisturbed DEF RemoveDir, Die
<1>11. CASE UNCHANGED nodeVars
  BY <1>11, Undisturbed DEF nodeVars
<1> QED
  BY <1>1, <1>2, <1>3, <1>4, <1>6, <1>7, <1>8, <1>9, <1>10, <1>11, <1>12
     DEF NodeNext, Tasks

(* The invariant holds of every behaviour of Node.                         *)
LEMMA NInvNext == NInv /\ [NodeNext]_nodeVars => NInv'
<1> SUFFICES ASSUME NInv, [NodeNext]_nodeVars PROVE NInv'
  OBVIOUS
<1>1. [Next]_vars
  BY NodeStepIsPortStep DEF NInv, Types
<1>2. IInv'
  BY <1>1, NextIInv DEF NInv
<1>3. Types'
  BY TypesNext DEF NInv
<1> QED
  BY <1>2, <1>3, OwnedNext, StagedNext, PublishedNext, KeptNext DEF NInv

LEMMA NodeInvariance == NodeSpec => []NInv
BY NInvInit, NInvNext, PTL DEF NodeSpec

(* Node implements HostPorts: rendering, starting, removing and failing    *)
(* beside it, the tasks of a node allocate and release ports only as the   *)
(* allocator does.                                                         *)
THEOREM NodeImplementsHostPorts == NodeSpec => HostPortsSpec
<1>1. NodeInit => Init
  BY DEF NodeInit
<1>2. NInv /\ [NodeNext]_nodeVars => [Next]_vars
  BY NodeStepIsPortStep DEF NInv, Types
<1> QED BY <1>1, <1>2, NodeInvariance, PTL DEF NodeSpec, HostPortsSpec, Spec

(* Type correctness of Node.                                               *)
THEOREM NodeTypeCorrect == NodeSpec => []NodeTypeOK
<1>1. NInv => NodeTypeOK
  BY DEF NInv, IInv, Types, NodeTypeOK
<1> QED BY <1>1, NodeInvariance, PTL

(* On a whole node, whatever its tasks do, no two instances hold a common  *)
(* host port unless next_port was caught between truncation and write or   *)
(* one of the files was misread.                                           *)
THEOREM NodeDistinct == NodeSpec => []DistinctUnlessTorn
BY NodeImplementsHostPorts, Distinct, PTL DEF HostPortsSpec

(* Nor is a port handed out that some instance of the node still holds.    *)
THEOREM NodeFresh == NodeSpec => []FreshUnlessTorn
BY NodeImplementsHostPorts, Fresh, PTL DEF HostPortsSpec

(* On a whole node every instance has all the ports its pod file needs or  *)
(* none, and no two overlap until next_port was caught truncated or one of *)
(* the files was misread: Node implements PortLeases through HostPorts.    *)
THEOREM NodeLeasesPorts == NodeSpec => ImplementsLeases
BY NodeImplementsHostPorts, HostPortsImplementsLeases, PTL DEF HostPortsSpec

(* The tasks of a node change the ports of an instance only by removing    *)
(* it, as long as no file was caught truncated or misread.                 *)
THEOREM NodeKeepsPorts == NodeSpec => PortsKept
BY NodeImplementsHostPorts, Kept, PTL DEF HostPortsSpec

(* A provisioned instance stays intact beside any others of unrelated      *)
(* names, however many there are.                                          *)
THEOREM NeighboursKeepAway == NodeSpec => []KeptUnlessRelated
<1>1. NInv => KeptUnlessRelated
  BY DEF NInv
<1> QED BY <1>1, NodeInvariance, PTL

(* No two pod files publish the same host port, torn counters and misread  *)
(* files aside.                                                            *)
THEOREM PodsPublishApart == NodeSpec => []PublishedDistinct
<1>1. ASSUME NInv, ~torn, NEW p \in Pod, NEW q \in Pod, p # q
      PROVE  publish[p] \cap publish[q] = {}
  <2>1. CASE quadlet[p] = Nobody \/ quadlet[q] = Nobody
    BY <1>1, <2>1 DEF NInv, Published
  <2>2. CASE quadlet[p] # Nobody /\ quadlet[q] # Nobody
    <3>1. \A j \in Instance, r \in Pod : r \in FilesOf(j) => r = PodOf(j)
      BY DEF Pod, FilesOf, PodOf, ContainersOf, VolumesOf
    <3>2. /\ quadlet[p] \in Instance /\ quadlet[q] \in Instance
          /\ p = PodOf(quadlet[p]) /\ q = PodOf(quadlet[q])
      BY <1>1, <2>2, <3>1, Subsets DEF NInv, Types, Owned
    <3>3. file[quadlet[p]] \cap file[quadlet[q]] = {}
      BY <1>1, <3>2 DEF NInv, IInv, Disjoint
    <3> QED BY <1>1, <2>2, <3>3 DEF NInv, Published
  <2> QED BY <2>1, <2>2
<1>2. NInv => PublishedDistinct
  BY <1>1 DEF PublishedDistinct
<1> QED BY <1>2, NodeInvariance, PTL

(* A container file the health checker takes for an instance is its own,   *)
(* unless some other name and its dash are comparable with its own.        *)
LEMMA DeclaredIsOwn ==
  ASSUME NInv, NEW i \in Instance, NEW c \in Declared(SafeName(i)),
         \A j \in used \ {i} :
           /\ ~Prefix(SafeName(i) \o <<"-">>, SafeName(j) \o <<"-">>)
           /\ ~Prefix(SafeName(j) \o <<"-">>, SafeName(i) \o <<"-">>)
  PROVE  c \in ContainersOf(i)
<1> DEFINE j == quadlet[c]
<1>1. /\ c \in Container /\ j # Nobody
      /\ Prefix(SafeName(i) \o <<"-">>, c[2])
  BY DEF Declared
<1>2. j \in used /\ j \in Instance /\ c \in ContainersOf(j)
  <2>1. c \in File /\ c[1] = "container"
    BY <1>1 DEF Container, File, FilesOf, ContainersOf
  <2>2. j \in used /\ c \in FilesOf(j) /\ j \in Instance
    BY <1>1, <2>1 DEF NInv, Owned, Types
  <2> QED BY <2>1, <2>2 DEF FilesOf, PodOf, VolumesOf
<1>3. PICK s \in ServiceOf[j] : c[2] = Under(j, s)
  BY <1>2 DEF ContainersOf
<1> HIDE DEF j
<1>4. j \in Seq(Character) /\ s \in Seq(Character) /\ i \in Seq(Character)
  BY <1>2, NodeAssumption
<1>5. c[2] \in Seq(Character) /\ Prefix(SafeName(j) \o <<"-">>, c[2])
  BY <1>3, <1>4, UnderType
<1>6. /\ SafeName(i) \o <<"-">> \in Seq(Character)
      /\ SafeName(j) \o <<"-">> \in Seq(Character)
  BY <1>4, SafeNameType, NodeAssumption
<1>7. \/ Prefix(SafeName(i) \o <<"-">>, SafeName(j) \o <<"-">>)
      \/ Prefix(SafeName(j) \o <<"-">>, SafeName(i) \o <<"-">>)
  BY <1>1, <1>5, <1>6, Comparable
<1> QED BY <1>2, <1>7

(* The health checker judges an intact instance by its own containers.     *)
THEOREM JudgedByItsOwn == NodeSpec => []HealthIsOwn
<1>1. ASSUME NInv, NEW i \in up, Intact(i),
             \A j \in used \ {i} :
               /\ ~Prefix(SafeName(i) \o <<"-">>, SafeName(j) \o <<"-">>)
               /\ ~Prefix(SafeName(j) \o <<"-">>, SafeName(i) \o <<"-">>)
      PROVE  ServicesRun(SafeName(i), ContainersOf(i))
  <2>1. i \in Instance
    BY <1>1 DEF NInv, Types
  <2>2. PICK s \in ServiceOf[i] : TRUE
    BY <2>1, NodeAssumption
  <2>3. s \in Seq(Character) /\ i \in Seq(Character)
    BY <2>1, <2>2, NodeAssumption
  <2> DEFINE c == <<"container", Under(i, s)>>
  <2>4. c \in ContainersOf(i) /\ c \in Container /\ c \in FilesOf(i)
    BY <2>1, <2>2 DEF ContainersOf, Container, FilesOf
  <2>5. quadlet[c] # Nobody
    BY <1>1, <2>1, <2>4, NodeAssumption DEF Intact
  <2>6. Prefix(SafeName(i) \o <<"-">>, c[2])
    BY <2>3, UnderType
  <2>7. c \in Declared(SafeName(i))
    BY <2>4, <2>5, <2>6 DEF Declared
  <2>8. Declared(SafeName(i)) \subseteq ContainersOf(i)
    BY <1>1, <2>1, DeclaredIsOwn
  <2> QED BY <2>7, <2>8 DEF ServicesRun
<1>2. NInv => HealthIsOwn
  BY <1>1 DEF HealthIsOwn
<1> QED BY <1>2, NodeInvariance, PTL

-----------------------------------------------------------------------------
(* The storage checker                                                     *)

(* What it carries from step to step: a volume found by the name, then     *)
(* usage of an instance whose name is comparable with it.                  *)
SameStart(name, j) ==
  j = Nobody \/ Prefix(name, SafeName(j)) \/ Prefix(SafeName(j), name)

Carried ==
  /\ check.pc = "measure" => /\ check.vol \in Volume /\ check.name \in Name
                             /\ Prefix(check.name, check.vol[2])
  /\ check.pc = "post" => /\ check.name \in Name
                          /\ SameStart(check.name, check.found.of)

CheckType ==
  [pc : CheckPc, todo : SUBSET Name,
   name : Name \cup {Nobody}, vol : Volume \cup {Nobody}, found : Finding]

StorageTypes ==
  /\ use \in [Volume -> Usage]
  /\ check \in CheckType
  /\ posted \in [Name -> Finding]

SInv == NInv /\ StorageTypes /\ Carried /\ UsageIsOwn

LEMMA SInvInit == StorageInit => SInv
<1> SUFFICES ASSUME StorageInit PROVE SInv
  OBVIOUS
<1>1. NInv
  BY NInvInit DEF StorageInit
<1>2. Unheard \in Finding
  BY DEF Unheard, Finding, State
<1>3. StorageTypes
  BY <1>2, UsageAssumption
     DEF StorageInit, StorageTypes, CheckType, CheckPc, Waiting, Starting
<1>4. Carried
  BY DEF Carried, StorageInit, Waiting, Starting
<1>5. UsageIsOwn
  BY DEF UsageIsOwn, StorageInit, Unheard
<1> QED BY <1>1, <1>3, <1>4, <1>5 DEF SInv

LEMMA StorageStepIsNodeStep ==
  [StorageNext]_storageVars => [NodeNext]_nodeVars
BY DEF StorageNext, storageVars, TaskStep, NodeNext, Checking, Trouble, StartUp, ListPods,
       Locate, Look, NothingToMeasure, Measure, CallFails, Post, PostFails,
       AgentDies, Fill

(* A report of something unknown, or of what was measured on a volume the  *)
(* name led to.                                                            *)
LEMMA Reported ==
  ASSUME StorageTypes, NEW name \in Name, NEW finding \in Finding,
         Report(name, finding), SameStart(name, finding.of)
  PROVE  check' \in CheckType /\ Carried'
BY DEF StorageTypes, CheckType, CheckPc, Report, Carried

LEMMA Measured ==
  ASSUME SInv, check.pc = "measure", podman[check.vol] # Nobody
  PROVE  podman[check.vol] \in Instance /\ SameStart(check.name, podman[check.vol])
<1> DEFINE v == check.vol
           j == podman[v]
<1>1. v \in Volume /\ check.name \in Name /\ Prefix(check.name, v[2])
  BY DEF SInv, Carried
<1>2. v \in Object
  BY <1>1 DEF Volume, Object, ObjectsOf, FilesOf
<1>3. j \in Instance /\ v \in ObjectsOf(j)
  BY <1>2 DEF SInv, NInv, Owned, Types
<1>4. v[2] \in Seq(Character) /\ Prefix(SafeName(j), v[2])
  BY <1>3, ObjectNames
<1>5. check.name \in Seq(Character) /\ SafeName(j) \in Seq(Character)
  BY <1>1, <1>3, SafeNameType, NodeAssumption DEF Name
<1> QED BY <1>1, <1>3, <1>4, <1>5, Comparable DEF SameStart

LEMMA SInvNext == SInv /\ [StorageNext]_storageVars => SInv'
<1> SUFFICES ASSUME SInv, [StorageNext]_storageVars PROVE SInv'
  OBVIOUS
<1>1. NInv'
  BY StorageStepIsNodeStep, NInvNext DEF SInv
<1>2. Unknown \in Finding /\ Unknown.of = Nobody
  BY DEF Unknown, Finding, State
<1>3. ASSUME UNCHANGED <<use, posted>>, check' \in CheckType, Carried'
      PROVE  SInv'
  BY <1>1, <1>3 DEF SInv, StorageTypes, UsageIsOwn
<1>4. ASSUME UNCHANGED <<check, posted>>, use' \in [Volume -> Usage] PROVE SInv'
  BY <1>1, <1>4 DEF SInv, StorageTypes, UsageIsOwn, Carried
<1>5. CASE TaskStep
  BY <1>4, <1>5, UsageAssumption DEF TaskStep, SInv, StorageTypes
<1>6. CASE ListPods
  <2>1. Listed \subseteq Name
    BY DEF Listed, Pod, PodOf, Name
  <2> QED BY <1>3, <1>6, <2>1
         DEF ListPods, SInv, StorageTypes, CheckType, CheckPc, Carried
<1>7. ASSUME NEW n \in Name, Locate(n) PROVE SInv'
  BY <1>3, <1>7
     DEF Locate, Look, VolumesFor, SInv, StorageTypes, CheckType, CheckPc,
         Carried
<1>8. ASSUME NEW n \in Name, Report(n, Unknown), UNCHANGED <<use, posted>>
      PROVE  SInv'
  BY <1>2, <1>3, <1>8, Reported DEF SInv, SameStart
<1>9. ASSUME NEW n \in Name, NothingToMeasure(n) PROVE SInv'
  BY <1>8, <1>9 DEF NothingToMeasure, Look
<1>10. CASE Measure
  <2>1. check.pc = "measure" /\ check.name \in Name /\ UNCHANGED <<use, posted>>
    BY <1>10 DEF Measure, SInv, Carried
  <2>2. CASE podman[check.vol] = Nobody
    BY <1>8, <1>10, <2>1, <2>2 DEF Measure
  <2>3. CASE podman[check.vol] # Nobody
    <3> DEFINE finding == [state |-> Classify(use[check.vol]),
                           of |-> podman[check.vol]]
    <3>1. finding \in Finding /\ SameStart(check.name, finding.of)
      BY <2>1, <2>3, Measured DEF Finding, State, Classify
    <3>2. Report(check.name, finding)
      BY <1>10, <2>3 DEF Measure
    <3> QED BY <1>3, <2>1, <3>1, <3>2, Reported DEF SInv
  <2> QED BY <2>2, <2>3
<1>11. CASE CallFails
  BY <1>8, <1>11 DEF CallFails, SInv, StorageTypes, CheckType, Carried
<1>12. ASSUME GoOn PROVE check' \in CheckType /\ Carried'
  BY <1>12 DEF GoOn, Waiting, Unheard, Finding, State, SInv, StorageTypes,
               CheckType, CheckPc, Carried
<1>13. CASE Post
  <2>1. /\ check.name \in Name /\ SameStart(check.name, check.found.of)
        /\ check.found \in Finding /\ use' = use
        /\ posted' = [posted EXCEPT ![check.name] = check.found]
    BY <1>13 DEF Post, SInv, Carried, StorageTypes, CheckType
  <2>2. UsageIsOwn'
    BY <2>1 DEF SInv, StorageTypes, UsageIsOwn, SameStart
  <2> QED BY <1>1, <1>12, <1>13, <2>1, <2>2 DEF Post, SInv, StorageTypes
<1>14. CASE PostFails
  BY <1>3, <1>12, <1>14 DEF PostFails
<1>15. CASE AgentDies
  BY <1>3, <1>15
     DEF AgentDies, Starting, Waiting, Unheard, Finding, State, CheckType,
         CheckPc, Carried
<1>18. CASE StartUp
  BY <1>3, <1>18
     DEF StartUp, Waiting, Unheard, Finding, State, CheckType, CheckPc, Carried
<1>16. ASSUME NEW v \in Volume, Fill(v) PROVE SInv'
  BY <1>4, <1>16 DEF Fill, SInv, StorageTypes
<1>17. CASE UNCHANGED storageVars
  BY <1>4, <1>17 DEF storageVars, SInv, StorageTypes
<1> QED
  BY <1>5, <1>6, <1>7, <1>9, <1>10, <1>11, <1>13, <1>14, <1>15, <1>16, <1>17,
     <1>18
     DEF StorageNext, Checking, Trouble

LEMMA StorageInvariance == StorageSpec => []SInv
BY SInvInit, SInvNext, PTL DEF StorageSpec

(* StorageUsage implements Node: the checker beside the tasks only looks,  *)
(* so all that is proved of Node holds while it runs, dies and starts.     *)
THEOREM StorageImplementsNode == StorageSpec => NodeSpec
<1>1. StorageInit => NodeInit
  BY DEF StorageInit
<1> QED BY <1>1, StorageStepIsNodeStep, PTL DEF StorageSpec, NodeSpec

(* Type correctness of StorageUsage.                                       *)
THEOREM StorageTypeCorrect == StorageSpec => []StorageTypeOK
<1>1. SInv => StorageTypeOK
  BY DEF SInv, NInv, IInv, Types, NodeTypeOK, StorageTypes, CheckType,
         CheckPc, StorageTypeOK
<1> QED BY <1>1, StorageInvariance, PTL

(* Usage is reported for an instance only from volumes of instances whose  *)
(* names begin like its own, whatever tasks run while the checker works.   *)
THEOREM UsageAttributed == StorageSpec => []UsageIsOwn
<1>1. SInv => UsageIsOwn
  BY DEF SInv
<1> QED BY <1>1, StorageInvariance, PTL
=============================================================================
