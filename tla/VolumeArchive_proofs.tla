------------------------ MODULE VolumeArchive_proofs ------------------------
(* Proofs about VolumeArchive, for every value of its constants.           *)
EXTENDS VolumeArchive, TLAPS

-----------------------------------------------------------------------------
(* Owners                                                                  *)

(* An owner that is translated for the namespace and back is the same.     *)
LEMMA RoundTrip ==
  ASSUME NEW id \in Nat, Mapped(id)
  PROVE  /\ HostToContainer(id) \in Nat
         /\ ContainerToHost(HostToContainer(id)) = id
<1> DEFINE d == CHOOSE e \in IdMap : InHost(e, id)
<1>1. d \in IdMap /\ InHost(d, id)
  BY DEF Mapped
<1> HIDE DEF d
<1> DEFINE c == d.container + (id - d.host)
<1>2. HostToContainer(id) = c
  BY DEF HostToContainer, d
<1>3. d \in Line
  BY <1>1, ArchiveAssumption
<1>4. c \in Nat /\ InContainer(d, c)
  BY <1>1, <1>3 DEF InHost, InContainer, Line
<1> HIDE DEF c
<1> DEFINE g == CHOOSE e \in IdMap : InContainer(e, c)
<1>5. g \in IdMap /\ InContainer(g, c)
  BY <1>1, <1>4
<1>6. ContainerToHost(c) = g.host + (c - g.container)
  BY DEF ContainerToHost
<1> HIDE DEF g
<1>7. g \in Line
  BY <1>5, ArchiveAssumption
<1>8. d = g
  <2>1. SUFFICES ASSUME Apart(d.container, d.count, g.container, g.count)
                 PROVE  FALSE
    BY <1>1, <1>5, ArchiveAssumption
  <2> QED BY <2>1, <1>3, <1>4, <1>5, <1>7 DEF Apart, InContainer, Line
<1>9. d.host + (c - d.container) = id
  BY <1>3 DEF c, Line
<1> QED BY <1>2, <1>4, <1>6, <1>8, <1>9

(* What is accepted is extracted as it was archived.                       *)
LEMMA ExtractedSame ==
  ASSUME NEW f \in File, Acceptable(f)
  PROVE  Extracted(f) = f
<1>1. f.owner \in Nat /\ Mapped(f.owner)
  BY DEF Acceptable, File
<1>2. ContainerToHost(HostToContainer(f.owner)) = f.owner
  BY <1>1, RoundTrip
<1> QED BY <1>2 DEF Extracted, File

-----------------------------------------------------------------------------
(* The inductive invariant                                                 *)

(* Where the task is and what it has in hand.                              *)
Shape ==
  /\ exec.pc \in {"list", "look", "read"} => exec.task = "backup"
  /\ exec.pc \in {"stop", "check", "extract", "start"} => exec.task = "restore"
  /\ exec.todo \subseteq Targets(exec.only)
  /\ exec.owners \subseteq Owners(exec.only)
  /\ exec.pc \in {"look", "read", "extract"} =>
       exec.now \in Targets(exec.only) \ exec.todo
  /\ At("read") => exec.at \in Path /\ exec.head \in File
  /\ exec.pc \in {"check", "extract"} => exec.owners = Owners(exec.only)
  /\ At("stop") => exec.todo = Targets(exec.only)
  /\ At("start") => exec.todo = {}
  /\ At("extract") =>
       /\ Accepted(exec.now)
       /\ \A p \in exec.left : archive[exec.now][p] # None

(* While volumes are in hand, no service of the task runs.                 *)
Whole == exec.pc \in {"check", "extract"}
           \/ (At("start") /\ exec.owners = Owners(exec.only))

Stopped ==
  ~exec.late =>
    /\ Whole => running \cap Owners(exec.only) = {}
    /\ At("stop") => running \cap Owners(exec.only) \subseteq exec.owners

(* What was extracted so far is in place.                                  *)
Holds(t, p) ==
  archive[t][p] # None =>
    \E u \in Targets(exec.only) : u[2] = t[2] /\ vol[t[2]][p] = archive[u][p]

Placed ==
  Whole /\ ~exec.late /\ ~Disturbed =>
    \A t \in Targets(exec.only) \ exec.todo : \A p \in Path :
      ~(At("extract") /\ t = exec.now /\ p \in exec.left) => Holds(t, p)

(* What was archived so far is a copy, if nothing was written.             *)
Copied ==
  exec.pc \in {"list", "look", "read"} /\ exec.still =>
    /\ \A t \in exec.todo : archive[t] = Empty
    /\ \A t \in Targets(exec.only) \ exec.todo : \A p \in Path :
         \/ archive[t][p] = vol[t[2]][p]
         \/ /\ ~At("list") /\ t = exec.now /\ archive[t][p] = None
            /\ p \in exec.left \/ (At("read") /\ p = exec.at)
    /\ At("read") => exec.head = vol[exec.now[2]][exec.at]

IInv == TypeOK /\ Shape /\ Stopped /\ Placed /\ Copied

USE DEF At, Return, PutDown, Ended, Begun

LEMMA TargetsType ==
  ASSUME NEW only
  PROVE  /\ Targets(only) \subseteq Target
         /\ Owners(only) \subseteq Service
         /\ \A t \in Target : t[1] \in Service /\ t[2] \in Volume
         /\ \A t \in Targets(only) : t[1] \in Owners(only)
BY DEF Targets, Owners, Target

(* The initial state satisfies the invariant.                              *)
LEMMA InitIInv == Init => IInv
<1> SUFFICES ASSUME Init PROVE IInv
  OBVIOUS
<1>1. TypeOK
  <2>1. exec \in Exec
    BY DEF Init, Exec, Task, Pc, Result
  <2>2. Empty \in Contents
    BY DEF Empty, Contents
  <2>3. writes \in 0 .. MaxWrites
    BY ArchiveAssumption DEF Init
  <2> QED BY <2>1, <2>2, <2>3 DEF Init, TypeOK
<1>2. Shape /\ Stopped /\ Placed /\ Copied
  BY DEF Init, Shape, Stopped, Placed, Copied, Whole
<1> QED BY <1>1, <1>2 DEF IInv

(* A task that has ended has nothing in hand.                              *)
LEMMA EndedIInv ==
  ASSUME TypeOK', exec'.pc = "idle", exec'.todo = {}, exec'.owners = {}
  PROVE  IInv'
BY DEF IInv, Shape, Stopped, Placed, Copied, Whole

LEMMA EndedType ==
  \A task \in Task, only \in Service \cup {All}, result \in Result :
    Ended(task, only, result) \in Exec
BY DEF Exec, Pc

LEMMA ContentsType ==
  /\ Empty \in Contents
  /\ \A g \in Contents, p \in Path, f \in File \cup {None} :
       [g EXCEPT ![p] = f] \in Contents
BY DEF Empty, Contents

(* Each action preserves the invariant.                                    *)

LEMMA BeginBackupIInv ==
  ASSUME IInv, NEW only \in Service \cup {All}, BeginBackup(only)
  PROVE  IInv'
<1> USE DEF IInv, BeginBackup
<1>1. TypeOK'
  <2>1. exec' \in Exec
    BY TargetsType DEF Exec, Task, Pc, Result
  <2> QED BY <2>1, ContentsType DEF TypeOK
<1>2. Shape'
  BY <1>1, TargetsType DEF TypeOK, Exec, Shape
<1>3. Stopped'
  BY <1>1, TargetsType DEF TypeOK, Exec, Shape, Stopped, Whole
<1>4. Placed'
  BY <1>1, TargetsType DEF TypeOK, Exec, Shape, Stopped, Placed, Whole, Holds, Disturbed
<1>5. Copied'
  <2>1. \A t \in Target : archive'[t] = Empty
    OBVIOUS
  <2>2. exec'.todo = Targets(only) /\ exec'.only = only /\ exec'.pc = "list"
    OBVIOUS
  <2> QED BY <2>1, <2>2, TargetsType DEF Copied
<1> QED BY <1>1, <1>2, <1>3, <1>4, <1>5

LEMMA BeginRestoreIInv ==
  ASSUME IInv, NEW only \in Service \cup {All}, BeginRestore(only)
  PROVE  IInv'
<1> USE DEF IInv, BeginRestore
<1>1. TypeOK'
  <2>1. exec' \in Exec
    BY TargetsType DEF Exec, Task, Pc, Result
  <2> QED BY <2>1 DEF TypeOK
<1>2. Shape'
  BY <1>1, TargetsType DEF TypeOK, Exec, Shape
<1>3. Stopped'
  BY <1>1, TargetsType DEF TypeOK, Exec, Shape, Stopped, Whole
<1>4. Placed'
  BY <1>1, TargetsType DEF TypeOK, Exec, Shape, Stopped, Placed, Whole, Holds, Disturbed
<1>5. Copied'
  BY <1>1, TargetsType DEF TypeOK, Exec, Shape, Copied
<1> QED BY <1>1, <1>2, <1>3, <1>4, <1>5

LEMMA ListIInv ==
  ASSUME IInv, NEW t \in Target, List(t)
  PROVE  IInv'
<1> USE DEF IInv, List
<1>0. /\ exec'.pc = "look" /\ exec'.task = exec.task /\ exec'.only = exec.only
     /\ exec'.todo = exec.todo \ {t} /\ exec'.now = t /\ exec'.owners = exec.owners
     /\ exec'.left = {p \in Path : vol[t[2]][p] # None} /\ exec'.still = exec.still
  BY DEF TypeOK, Exec
<1>1. TypeOK'
  <2>1. exec' \in Exec
    BY DEF TypeOK, Exec, Pc
  <2> QED BY <2>1 DEF TypeOK
<1>2. Shape'
  BY <1>0, TargetsType DEF Shape
<1>3. Stopped'
  BY <1>0 DEF Stopped, Whole
<1>4. Placed'
  BY <1>0 DEF Placed, Whole
<1>5. Copied'
  <2>1. SUFFICES ASSUME exec.still
                 PROVE  Copied'
    BY <1>0 DEF Copied
  <2>2. archive[t] = Empty
    BY <2>1 DEF Copied
  <2>3. \A p \in Path : archive[t][p] = None
    BY <2>2 DEF Empty
  <2>4. \A u \in Targets(exec.only) \ exec.todo : \A p \in Path :
          archive[u][p] = vol[u[2]][p]
    BY <2>1 DEF Copied
  <2>5. \A u \in Targets(exec'.only) \ exec'.todo : \A p \in Path :
          \/ archive[u][p] = vol[u[2]][p]
          \/ u = t /\ archive[u][p] = None /\ p \in exec'.left
    BY <1>0, <2>3, <2>4
  <2>6. \A u \in exec'.todo : archive[u] = Empty
    BY <1>0, <2>1 DEF Copied
  <2> QED BY <1>0, <2>5, <2>6 DEF Copied
<1> QED BY <1>1, <1>2, <1>3, <1>4, <1>5

LEMMA LookIInv ==
  ASSUME IInv, NEW p \in Path, Look(p)
  PROVE  IInv'
<1> USE DEF IInv, Look
<1> DEFINE f == vol[exec.now[2]][p]
<1>0. /\ exec.pc = "look" /\ p \in exec.left /\ f # None /\ vol' = vol
     /\ running' = running
     /\ exec'.task = exec.task /\ exec'.only = exec.only /\ exec'.owners = exec.owners
     /\ exec'.todo = exec.todo /\ exec'.now = exec.now /\ exec'.still = exec.still
     /\ exec'.left = exec.left \ {p}
     /\ \/ exec'.pc = "look" /\ archive' = [archive EXCEPT ![exec.now][p] = f]
        \/ exec'.pc = "read" /\ archive' = archive /\ exec'.at = p /\ exec'.head = f
  <2>1. /\ exec.pc = "look" /\ p \in exec.left /\ f # None
        /\ UNCHANGED <<vol, running>>
    OBVIOUS
  <2>2. CASE f.kind = "link"
    <3>1. exec' = [exec EXCEPT !.left = @ \ {p}] /\ Enter(p, f)
      BY <2>2
    <3> QED BY <2>1, <3>1 DEF TypeOK, Exec, Enter
  <2>3. CASE f.kind # "link"
    <3>1. /\ exec' = [exec EXCEPT !.pc = "read", !.left = @ \ {p}, !.at = p, !.head = f]
          /\ archive' = archive
      BY <2>3
    <3> QED BY <2>1, <3>1 DEF TypeOK, Exec
  <2> QED BY <2>2, <2>3
<1> HIDE DEF Look
<1>1. TypeOK'
  <2>1. exec.now \in Target
    BY <1>0, TargetsType DEF Shape
  <2>2. vol[exec.now[2]] \in Contents /\ archive[exec.now] \in Contents
    BY <2>1, TargetsType DEF TypeOK
  <2>3. f \in File
    BY <1>0, <2>2 DEF Contents
  <2>4. [archive[exec.now] EXCEPT ![p] = f] \in Contents
    BY <2>2, <2>3, ContentsType
  <2>5. archive' \in [Target -> Contents]
    BY <1>0, <2>1, <2>4 DEF TypeOK
  <2>6. exec' \in Exec
    <3>1. \/ exec' = [exec EXCEPT !.left = @ \ {p}]
          \/ exec' = [exec EXCEPT !.pc = "read", !.left = @ \ {p}, !.at = p, !.head = f]
      BY DEF Look
    <3> HIDE DEF f
    <3>2. exec \in Exec /\ exec.left \ {p} \in SUBSET Path
      BY DEF TypeOK, Exec
    <3>3. CASE exec' = [exec EXCEPT !.left = @ \ {p}]
      BY <3>2, <3>3 DEF Exec
    <3>4. CASE exec' = [exec EXCEPT !.pc = "read", !.left = @ \ {p}, !.at = p, !.head = f]
      BY <2>3, <3>2, <3>4 DEF Exec, Pc
    <3> QED BY <3>1, <3>3, <3>4
  <2>7. UNCHANGED <<vol, running, ready, writes>>
    BY DEF Look
  <2> QED BY <2>5, <2>6, <2>7 DEF TypeOK
<1>2. Shape'
  BY <1>0, <1>1, TargetsType DEF Shape, TypeOK, Contents
<1>3. Stopped'
  BY <1>0 DEF Stopped, Whole
<1>4. Placed'
  BY <1>0 DEF Placed, Whole
<1>5. Copied'
  <2>1. SUFFICES ASSUME exec.still
                 PROVE  Copied'
    BY <1>0 DEF Copied
  <2>2. exec.now \in Targets(exec.only) \ exec.todo /\ exec.todo \subseteq Targets(exec.only)
    BY <1>0 DEF Shape
  <2>3. \A t \in Target : \A q \in Path :
          archive'[t][q] = archive[t][q] \/ (t = exec.now /\ q = p /\ archive'[t][q] = f)
    BY <1>0, <2>2, TargetsType DEF TypeOK, Contents
  <2>4. exec'.pc = "look" => archive'[exec.now][p] = f
    BY <1>0, <2>2, TargetsType DEF TypeOK, Contents
  <2>5. \A t \in exec'.todo : archive'[t] = Empty
    BY <1>0, <2>1, <2>2, TargetsType DEF Copied, TypeOK
  <2>6. \A t \in Targets(exec'.only) \ exec'.todo : \A q \in Path :
          \/ archive'[t][q] = vol'[t[2]][q]
          \/ /\ t = exec'.now /\ archive'[t][q] = None
             /\ q \in exec'.left \/ (exec'.pc = "read" /\ q = exec'.at)
    BY <1>0, <2>1, <2>3, <2>4, TargetsType DEF Copied
  <2> QED BY <1>0, <2>5, <2>6 DEF Copied
<1> QED BY <1>1, <1>2, <1>3, <1>4, <1>5

LEMMA ReadIInv ==
  ASSUME IInv, Read
  PROVE  IInv'
<1> USE DEF IInv, Read
<1> DEFINE g == vol[exec.now[2]][exec.at]
           f == [exec.head EXCEPT !.data = g.data]
<1>0. /\ exec.pc = "read" /\ vol' = vol /\ g # None
     /\ exec.now \in Targets(exec.only) \ exec.todo
     /\ exec.todo \subseteq Targets(exec.only)
     /\ exec.at \in Path /\ exec.head \in File /\ g \in File /\ f \in File
     /\ archive' = [archive EXCEPT ![exec.now][exec.at] = f]
  <2>1. exec.now \in Targets(exec.only) \ exec.todo /\ exec.at \in Path /\ exec.head \in File
        /\ exec.todo \subseteq Targets(exec.only)
    BY DEF Shape
  <2>2. g \in File
    BY <2>1, TargetsType DEF TypeOK, Contents
  <2>3. f \in File
    BY <2>1, <2>2 DEF File
  <2> QED BY <2>1, <2>2, <2>3 DEF Enter
<1>1. TypeOK'
  <2>1. archive[exec.now] \in Contents
    BY <1>0, TargetsType DEF TypeOK
  <2>2. [archive[exec.now] EXCEPT ![exec.at] = f] \in Contents
    BY <1>0, <2>1, ContentsType
  <2>3. archive' \in [Target -> Contents]
    BY <1>0, <2>2, TargetsType DEF TypeOK
  <2>4. exec' \in Exec
    BY DEF TypeOK, Exec, Pc
  <2> QED BY <2>3, <2>4 DEF TypeOK
<1>2. Shape'
  BY <1>1, TargetsType DEF TypeOK, Exec, Shape
<1>3. Stopped'
  BY <1>1, TargetsType DEF TypeOK, Exec, Shape, Stopped, Whole
<1>4. Placed'
  BY <1>1, TargetsType DEF TypeOK, Exec, Shape, Stopped, Placed, Whole, Holds, Disturbed
<1>5. Copied'
  <2>1. SUFFICES ASSUME exec.still
                 PROVE  Copied'
    BY DEF Copied, TypeOK, Exec
  <2>2. exec.head = g
    BY <2>1 DEF Copied
  <2>3. f = g
    BY <1>0, <2>2 DEF File
  <2>4. exec'.pc = "look" /\ exec'.only = exec.only /\ exec'.todo = exec.todo
        /\ exec'.now = exec.now /\ exec'.left = exec.left
    BY DEF TypeOK, Exec
  <2>5. \A t \in Target : \A q \in Path :
          IF t = exec.now /\ q = exec.at THEN archive'[t][q] = g
                                        ELSE archive'[t][q] = archive[t][q]
    BY <1>0, <2>3, TargetsType DEF TypeOK, Contents
  <2>6. \A t \in exec'.todo : archive'[t] = Empty
    BY <1>0, <2>1, <2>4, TargetsType DEF Copied, TypeOK
  <2>7. ASSUME NEW t \in Targets(exec.only) \ exec.todo, NEW q \in Path
        PROVE  \/ archive'[t][q] = vol[t[2]][q]
               \/ /\ t = exec.now /\ archive'[t][q] = None /\ q \in exec.left
    <3>1. t \in Target
      BY TargetsType
    <3>2. CASE t = exec.now /\ q = exec.at
      BY <2>5, <3>1, <3>2
    <3>3. CASE ~(t = exec.now /\ q = exec.at)
      <4>1. archive'[t][q] = archive[t][q]
        BY <2>5, <3>1, <3>3
      <4>2. \/ archive[t][q] = vol[t[2]][q]
            \/ /\ t = exec.now /\ archive[t][q] = None
               /\ q \in exec.left \/ q = exec.at
        BY <1>0, <2>1, <2>7 DEF Copied
      <4> QED BY <3>3, <4>1, <4>2
    <3> QED BY <3>2, <3>3
  <2> HIDE DEF Read, IInv, f, g
  <2>8. \A t \in Targets(exec'.only) \ exec'.todo : \A q \in Path :
          \/ archive'[t][q] = vol'[t[2]][q]
          \/ /\ t = exec'.now /\ archive'[t][q] = None /\ q \in exec'.left
    BY <1>0, <2>4, <2>7
  <2> QED BY <2>4, <2>6, <2>8 DEF Copied
<1> QED BY <1>1, <1>2, <1>3, <1>4, <1>5

LEMMA CloseIInv ==
  ASSUME IInv, Close
  PROVE  IInv'
<1> USE DEF IInv
<1>1. CASE exec.todo = {}
  <2>1. exec' = Ended(exec.task, exec.only, "success") /\ ready' = TRUE
    BY <1>1 DEF Close
  <2>2. TypeOK'
    BY <2>1, EndedType DEF Close, TypeOK, Exec, Result
  <2> QED BY <2>1, <2>2, EndedIInv
<1>2. CASE exec.todo # {}
  <2>1. /\ exec' = [exec EXCEPT !.pc = "list", !.now = None]
        /\ exec.pc = "look" /\ exec.left = {}
        /\ UNCHANGED <<vol, running, archive, ready, writes>>
    BY <1>2 DEF Close
  <2>2. exec' \in Exec
    BY <2>1 DEF TypeOK, Exec, Pc
  <2>3. TypeOK'
    BY <2>1, <2>2 DEF TypeOK
  <2>4. /\ exec'.pc = "list" /\ exec'.task = exec.task /\ exec'.only = exec.only
        /\ exec'.owners = exec.owners /\ exec'.todo = exec.todo /\ exec'.still = exec.still
    BY <2>1 DEF TypeOK, Exec
  <2>5. Shape' /\ Stopped' /\ Placed'
    BY <2>1, <2>4 DEF Shape, Stopped, Placed, Whole
  <2>6. Copied'
    BY <2>1, <2>4 DEF Copied
  <2> QED BY <2>3, <2>5, <2>6
<1> QED BY <1>1, <1>2

LEMMA StopOwnerIInv ==
  ASSUME IInv, NEW s \in Service, StopOwner(s)
  PROVE  IInv'
<1> USE DEF IInv, StopOwner
<1>0. /\ exec'.task = exec.task /\ exec'.only = exec.only /\ exec'.late = exec.late
     /\ exec.pc = "stop" /\ running' = running \ {s} /\ exec'.todo = exec.todo
     /\ \/ exec.owners = {s} /\ exec'.pc = "check" /\ exec'.owners = Owners(exec.only)
        \/ exec'.pc = "stop" /\ exec'.owners = exec.owners \ {s}
     /\ UNCHANGED <<vol, archive>>
  BY DEF TypeOK, Exec
<1>1. TypeOK'
  <2>1. exec' \in Exec
    BY TargetsType DEF TypeOK, Exec, Pc
  <2> QED BY <2>1 DEF TypeOK
<1>2. Shape'
  BY <1>0, TargetsType DEF Shape
<1>3. Stopped'
  BY <1>0 DEF Stopped, Whole
<1>4. Placed'
  BY <1>0 DEF Shape, Placed, Whole
<1>5. Copied'
  BY <1>0 DEF Copied
<1> QED BY <1>1, <1>2, <1>3, <1>4, <1>5

LEMMA CheckIInv ==
  ASSUME IInv, NEW t \in Target, Check(t)
  PROVE  IInv'
<1> USE DEF IInv, Check
<1>0. /\ exec'.task = exec.task /\ exec'.only = exec.only /\ exec'.late = exec.late
     /\ exec.pc = "check" /\ exec'.pc = "extract" /\ t \in exec.todo /\ Accepted(t)
     /\ exec'.todo = exec.todo \ {t} /\ exec'.now = t /\ exec'.owners = exec.owners
     /\ exec'.left = {p \in Path : archive[t][p] # None} /\ running' = running
     /\ UNCHANGED <<vol, archive>>
  BY DEF TypeOK, Exec
<1>1. TypeOK'
  <2>1. exec' \in Exec
    BY DEF TypeOK, Exec, Pc
  <2> QED BY <2>1 DEF TypeOK
<1>2. Shape'
  BY <1>0, TargetsType DEF Shape, Accepted
<1>3. Stopped'
  BY <1>0 DEF Stopped, Whole
<1>4. Placed'
  <2>1. SUFFICES ASSUME ~exec.late, ~Disturbed,
                        NEW u \in Targets(exec.only) \ exec'.todo, NEW p \in Path,
                        ~(u = t /\ p \in exec'.left)
                 PROVE  Holds(u, p)
    BY <1>0 DEF Placed, Whole, Holds, Disturbed
  <2>2. CASE u = t
    BY <1>0, <2>1, <2>2 DEF Holds
  <2>3. CASE u # t
    BY <1>0, <2>1, <2>3 DEF Placed, Whole
  <2> QED BY <2>2, <2>3
<1>5. Copied'
  BY <1>0 DEF Copied
<1> QED BY <1>1, <1>2, <1>3, <1>4, <1>5

LEMMA RefuseIInv ==
  ASSUME IInv, NEW t \in Target, Refuse(t)
  PROVE  IInv'
<1>1. exec' = Ended(exec.task, exec.only, "refused")
  BY DEF Refuse
<1>2. TypeOK'
  BY <1>1, EndedType DEF Refuse, IInv, TypeOK, Exec, Result
<1> QED BY <1>1, <1>2, EndedIInv

LEMMA ExtractIInv ==
  ASSUME IInv, NEW p \in Path, Extract(p)
  PROVE  IInv'
<1> USE DEF IInv, Extract
<1> DEFINE f == archive[exec.now][p]
<1>0. /\ exec'.task = exec.task /\ exec'.only = exec.only /\ exec'.late = exec.late
     /\ exec.pc = "extract" /\ exec'.pc = "extract" /\ exec'.todo = exec.todo
     /\ exec'.now = exec.now /\ exec'.owners = exec.owners /\ exec'.left = exec.left \ {p}
     /\ exec.now \in Targets(exec.only) \ exec.todo
     /\ f \in File /\ vol' = [vol EXCEPT ![exec.now[2]][p] = f]
     /\ UNCHANGED <<running, archive>>
  <2>1. exec.now \in Targets(exec.only) \ exec.todo
    BY DEF Shape
  <2>2. f # None /\ Acceptable(f)
    BY DEF Shape, Accepted
  <2>3. f \in File
    BY <2>1, <2>2, TargetsType DEF TypeOK, Contents
  <2>4. Extracted(f) = f
    BY <2>2, <2>3, ExtractedSame
  <2> QED BY <2>1, <2>3, <2>4 DEF TypeOK, Exec
<1> HIDE DEF Extract
<1>1. TypeOK'
  <2>1. exec' \in Exec
    BY DEF Extract, TypeOK, Exec
  <2>2. vol[exec.now[2]] \in Contents /\ exec.now[2] \in Volume
    BY <1>0, TargetsType DEF TypeOK
  <2>3. [vol[exec.now[2]] EXCEPT ![p] = f] \in Contents
    BY <1>0, <2>2, ContentsType
  <2>4. vol' \in [Volume -> Contents]
    BY <1>0, <2>2, <2>3 DEF TypeOK
  <2> QED BY <2>1, <2>4 DEF Extract, TypeOK
<1>2. Shape'
  BY <1>0, TargetsType DEF Shape, Accepted
<1>3. Stopped'
  BY <1>0 DEF Stopped, Whole
<1>4. Placed'
  <2>1. SUFFICES ASSUME ~exec.late, ~Disturbed,
                        NEW t \in Targets(exec.only) \ exec.todo, NEW q \in Path,
                        ~(t = exec.now /\ q \in exec.left \ {p}), archive[t][q] # None
                 PROVE  \E u \in Targets(exec.only) :
                          u[2] = t[2] /\ vol'[t[2]][q] = archive[u][q]
    BY <1>0 DEF Placed, Whole, Holds, Disturbed
  <2>2. vol[t[2]] \in Contents /\ t[2] \in Volume
    BY TargetsType DEF TypeOK
  <2>3. CASE t[2] = exec.now[2] /\ q = p
    <3>1. vol'[t[2]][q] = archive[exec.now][q]
      BY <1>0, <2>2, <2>3 DEF TypeOK, Contents
    <3> QED BY <1>0, <2>3, <3>1
  <2>4. CASE ~(t[2] = exec.now[2] /\ q = p)
    <3>1. vol'[t[2]][q] = vol[t[2]][q]
      BY <1>0, <2>2, <2>4 DEF TypeOK, Contents
    <3>2. Holds(t, q)
      BY <1>0, <2>1, <2>4 DEF Placed, Whole
    <3> QED BY <2>1, <3>1, <3>2 DEF Holds
  <2> QED BY <2>3, <2>4
<1>5. Copied'
  BY <1>0 DEF Copied
<1> QED BY <1>1, <1>2, <1>3, <1>4, <1>5

LEMMA FinishIInv ==
  ASSUME IInv, Finish
  PROVE  IInv'
<1> USE DEF IInv, Finish
<1>0. /\ exec'.task = exec.task /\ exec'.only = exec.only /\ exec'.late = exec.late
     /\ exec.pc = "extract" /\ exec'.todo = exec.todo /\ exec'.owners = exec.owners
     /\ exec.left = {} /\ running' = running
     /\ \/ exec.todo = {} /\ exec'.pc = "start"
        \/ exec.todo # {} /\ exec'.pc = "check"
     /\ UNCHANGED <<vol, archive>>
  BY DEF TypeOK, Exec
<1>1. TypeOK'
  <2>1. exec' \in Exec
    BY DEF TypeOK, Exec, Pc
  <2> QED BY <2>1 DEF TypeOK
<1>2. Shape'
  BY <1>0, TargetsType DEF Shape, Accepted
<1>3. Stopped'
  BY <1>0 DEF Shape, Stopped, Whole
<1>4. Placed'
  BY <1>0 DEF Shape, Placed, Whole, Holds, Disturbed
<1>5. Copied'
  BY <1>0 DEF Copied
<1> QED BY <1>1, <1>2, <1>3, <1>4, <1>5

LEMMA StartOwnerIInv ==
  ASSUME IInv, NEW s \in Service, StartOwner(s)
  PROVE  IInv'
<1> USE DEF IInv
<1>1. CASE exec.owners = {s}
  <2>1. exec' = Ended(exec.task, exec.only, "success")
    BY <1>1 DEF StartOwner
  <2>2. TypeOK'
    BY <2>1, EndedType DEF StartOwner, TypeOK, Exec, Result
  <2> QED BY <2>1, <2>2, EndedIInv
<1>2. CASE exec.owners # {s}
  <2>1. /\ exec' = [exec EXCEPT !.owners = @ \ {s}]
        /\ exec.pc = "start" /\ s \in exec.owners
        /\ running' = running \cup {s} /\ UNCHANGED <<vol, archive, ready, writes>>
    BY <1>2 DEF StartOwner
  <2>2. exec' \in Exec
    BY <2>1 DEF TypeOK, Exec
  <2>3. TypeOK'
    BY <2>1, <2>2 DEF TypeOK
  <2>4. /\ exec'.pc = "start" /\ exec'.task = exec.task /\ exec'.only = exec.only
        /\ exec'.owners = exec.owners \ {s} /\ exec'.todo = exec.todo
    BY <2>1 DEF TypeOK, Exec
  <2>5. exec'.owners \subseteq Owners(exec.only) /\ exec'.owners # Owners(exec.only)
    BY <2>1, <2>4 DEF Shape
  <2>6. Shape'
    BY <2>1, <2>4, <2>5 DEF Shape
  <2>7. Stopped' /\ Placed' /\ Copied'
    BY <2>4, <2>5 DEF Stopped, Placed, Whole, Copied
  <2> QED BY <2>3, <2>6, <2>7
<1> QED BY <1>1, <1>2

LEMMA FailsIInv ==
  ASSUME IInv, Fails
  PROVE  IInv'
<1> USE DEF IInv
<1>1. exec' = Ended(exec.task, exec.only, "failure") /\ UNCHANGED <<archive, ready, writes>>
  BY DEF Fails
<1>2. running' \subseteq Service
  BY DEF Fails, TypeOK, Exec
<1>3. vol' \in [Volume -> Contents]
  <2>1. CASE vol' = vol
    BY <2>1 DEF TypeOK
  <2>2. CASE vol' # vol
    <3>0. PICK p \in exec.left :
            /\ At("extract")
            /\ \E f \in {None, [Extracted(archive[exec.now][p]) EXCEPT !.data = 0]} :
                 vol' = [vol EXCEPT ![exec.now[2]][p] = f]
      BY <2>2 DEF Fails
    <3>1. PICK f \in {None, [Extracted(archive[exec.now][p]) EXCEPT !.data = 0]} :
            At("extract") /\ vol' = [vol EXCEPT ![exec.now[2]][p] = f]
      BY <3>0
    <3> DEFINE g == archive[exec.now][p]
    <3>2. exec.now \in Target /\ p \in Path
      BY <3>1, TargetsType DEF Shape, TypeOK, Exec
    <3>3. g # None /\ Acceptable(g)
      BY <3>1, <3>2 DEF Shape, Accepted
    <3>4. g \in File
      BY <3>2, <3>3 DEF TypeOK, Contents
    <3>5. Extracted(g) \in File
      BY <3>3, <3>4, ExtractedSame
    <3> HIDE DEF g
    <3>6. [Extracted(g) EXCEPT !.data = 0] \in File
      BY <3>5 DEF File
    <3>7. f \in File \cup {None}
      BY <3>6 DEF g
    <3>8. vol[exec.now[2]] \in Contents /\ exec.now[2] \in Volume
      BY <3>2, TargetsType DEF TypeOK
    <3>9. [vol[exec.now[2]] EXCEPT ![p] = f] \in Contents
      BY <3>2, <3>7, <3>8, ContentsType
    <3> QED BY <3>1, <3>8, <3>9 DEF TypeOK
  <2> QED BY <2>1, <2>2
<1>4. TypeOK'
  BY <1>1, <1>2, <1>3, EndedType DEF TypeOK, Exec, Result
<1> QED BY <1>1, <1>4, EndedIInv

LEMMA WriteIInv ==
  ASSUME IInv, NEW s \in Service, NEW v \in Volume, NEW p \in Path, Write(s, v, p)
  PROVE  IInv'
<1> USE DEF IInv, Write
<1>1. PICK f \in File \cup {None} : vol' = [vol EXCEPT ![v][p] = f]
  BY ArchiveAssumption
<1>2. /\ exec' = [exec EXCEPT !.still = exec'.still]
     /\ exec'.task = exec.task /\ exec'.only = exec.only /\ exec'.late = exec.late
     /\ exec'.pc = exec.pc /\ exec'.todo = exec.todo /\ exec'.now = exec.now
     /\ exec'.owners = exec.owners /\ exec'.left = exec.left /\ exec'.at = exec.at
     /\ exec'.head = exec.head /\ exec'.still = (At("idle") \/ exec.task = "restore")
     /\ s \in running /\ Mounts(s, v) /\ UNCHANGED <<running, archive>>
     /\ vol' = [vol EXCEPT ![v][p] = f]
  BY <1>1 DEF TypeOK, Exec
<1>3. TypeOK'
  <2>1. exec' \in Exec
    BY DEF TypeOK, Exec
  <2>2. [vol[v] EXCEPT ![p] = f] \in Contents
    BY <1>1, ContentsType DEF TypeOK
  <2>3. vol' \in [Volume -> Contents]
    BY <1>2, <2>2 DEF TypeOK
  <2>4. writes' \in 0 .. MaxWrites
    BY ArchiveAssumption DEF TypeOK
  <2> QED BY <2>1, <2>3, <2>4 DEF TypeOK
<1>4. Shape'
  BY <1>2 DEF Shape, Accepted
<1>5. Stopped'
  BY <1>2 DEF Stopped, Whole
<1>6. Placed'
  <2>1. SUFFICES ASSUME Whole, ~exec.late, ~Disturbed,
                        NEW t \in Targets(exec.only) \ exec.todo, NEW q \in Path,
                        ~(At("extract") /\ t = exec.now /\ q \in exec.left),
                        archive[t][q] # None
                 PROVE  \E u \in Targets(exec.only) :
                          u[2] = t[2] /\ vol'[t[2]][q] = archive[u][q]
    BY <1>2 DEF Placed, Whole, Holds, Disturbed
  <2>2. s \notin Owners(exec.only)
    BY <1>2, <2>1 DEF Stopped
  <2>3. t[2] # v
    BY <1>2, <2>1, <2>2 DEF Disturbed
  <2>4. vol'[t[2]] = vol[t[2]]
    BY <1>2, <2>3, TargetsType DEF TypeOK
  <2>5. Holds(t, q)
    BY <2>1 DEF Placed
  <2> QED BY <2>1, <2>4, <2>5 DEF Holds
<1>7. Copied'
  BY <1>2 DEF Shape, Copied
<1> QED BY <1>3, <1>4, <1>5, <1>6, <1>7

LEMMA OtherTaskIInv ==
  ASSUME IInv, OtherTask
  PROVE  IInv'
<1> USE DEF IInv, OtherTask
<1>1. TypeOK'
  BY DEF TypeOK
<1>2. Shape'
  BY DEF Shape
<1>3. Stopped'
  BY DEF Stopped, Whole
<1>4. Placed'
  BY DEF Placed, Whole
<1>5. Copied'
  BY DEF Copied
<1> QED BY <1>1, <1>2, <1>3, <1>4, <1>5

LEMMA ManagerRestartIInv ==
  ASSUME IInv, ManagerRestart
  PROVE  IInv'
<1> USE DEF IInv, ManagerRestart
<1>0. /\ exec'.task = exec.task /\ exec'.only = exec.only /\ exec'.late = TRUE
     /\ exec'.pc = exec.pc /\ exec'.todo = exec.todo /\ exec'.now = exec.now
     /\ exec'.owners = exec.owners /\ exec'.left = exec.left /\ exec'.at = exec.at
     /\ exec'.head = exec.head /\ exec'.still = exec.still
     /\ UNCHANGED <<vol, archive>>
  BY DEF TypeOK, Exec
<1>1. TypeOK'
  <2>1. exec' \in Exec
    BY DEF TypeOK, Exec
  <2> QED BY <2>1 DEF TypeOK
<1>2. Shape'
  BY <1>0 DEF Shape, Accepted
<1>3. Stopped'
  BY <1>0 DEF Stopped
<1>4. Placed'
  BY <1>0 DEF Placed
<1>5. Copied'
  BY <1>0 DEF Copied
<1> QED BY <1>1, <1>2, <1>3, <1>4, <1>5

LEMMA NextIInv == IInv /\ [Next]_vars => IInv'
<1> SUFFICES ASSUME IInv, [Next]_vars PROVE IInv'
  OBVIOUS
<1>1. CASE Next
  <2>1. CASE \E only \in Service \cup {All} : BeginBackup(only) \/ BeginRestore(only)
    BY <2>1, BeginBackupIInv, BeginRestoreIInv
  <2>2. CASE \E t \in Target : List(t) \/ Check(t) \/ Refuse(t)
    BY <2>2, ListIInv, CheckIInv, RefuseIInv
  <2>3. CASE \E p \in Path : Look(p) \/ Extract(p)
    BY <2>3, LookIInv, ExtractIInv
  <2>4. CASE \E s \in Service : StopOwner(s) \/ StartOwner(s)
    BY <2>4, StopOwnerIInv, StartOwnerIInv
  <2>5. CASE Read \/ Close \/ Finish \/ Fails
    BY <2>5, ReadIInv, CloseIInv, FinishIInv, FailsIInv
  <2>6. CASE \E s \in Service, v \in Volume, p \in Path : Write(s, v, p)
    BY <2>6, WriteIInv
  <2>7. CASE OtherTask \/ ManagerRestart
    BY <2>7, OtherTaskIInv, ManagerRestartIInv
  <2> QED BY <1>1, <2>1, <2>2, <2>3, <2>4, <2>5, <2>6, <2>7 DEF Next, Steps
<1>2. CASE UNCHANGED vars
  BY <1>2 DEF vars, IInv, TypeOK, Shape, Stopped, Placed, Copied, Whole, Holds,
              Disturbed, Accepted
<1> QED BY <1>1, <1>2

LEMMA Inductive == Spec => []IInv
BY InitIInv, NextIInv, PTL DEF Spec

-----------------------------------------------------------------------------
(* Theorems                                                                *)

(* Every variable keeps its type, in every task with every failure.        *)
THEOREM TypeCorrect == Spec => []TypeOK
<1>1. IInv => TypeOK
  BY DEF IInv
<1> QED BY <1>1, Inductive, PTL

(* Nothing runs on a volume that restoreVolumes extracts, but what the     *)
(* task leaves alone or the user manager brought back.                     *)
THEOREM ExtractedAlone == Spec => []ExtractsAlone
<1>1. IInv => ExtractsAlone
  <2> SUFFICES ASSUME IInv, At("extract"), ~exec.late, NEW s \in running,
                      Mounts(s, exec.now[2]), exec.only \in {All, s}
               PROVE  FALSE
    BY DEF ExtractsAlone
  <2>1. s \in Service /\ exec.now \in Target
    BY TargetsType DEF IInv, TypeOK, Shape
  <2>2. <<s, exec.now[2]>> \in Targets(exec.only)
    BY <2>1, TargetsType DEF Targets, Target
  <2>3. s \in Owners(exec.only)
    BY <2>2 DEF Owners
  <2> QED BY <2>3 DEF IInv, Stopped, Whole
<1> QED BY <1>1, Inductive, PTL

(* When restoreVolumes begins to start its services, what was archived is  *)
(* in place, owners included.                                              *)
THEOREM Restored == Spec => []RestoredUnlessDisturbed
<1>1. IInv => RestoredUnlessDisturbed
  BY DEF IInv, Shape, Placed, Whole, Holds, RestoredUnlessDisturbed, InPlace
<1> QED BY <1>1, Inductive, PTL

(* Only files the archive holds are changed by a restore, whatever fails.  *)
THEOREM NothingElse == Spec => OnlyArchived
<1> DEFINE Changes ==
      writes' = writes =>
        \A v \in Volume : \A p \in Path :
          vol'[v][p] # vol[v][p] =>
            \E t \in Targets(exec.only) : t[2] = v /\ archive[t][p] # None
<1>1. IInv /\ [Next]_vars => [Changes]_vars
  <2> SUFFICES ASSUME IInv, Next, writes' = writes, NEW v \in Volume, NEW p \in Path,
                      vol'[v][p] # vol[v][p]
               PROVE  \E t \in Targets(exec.only) : t[2] = v /\ archive[t][p] # None
    OBVIOUS
  <2> USE DEF IInv
  <2>1. \/ \E q \in Path : Extract(q)
        \/ Fails
    <3>1. ASSUME NEW s \in Service, NEW u \in Volume, NEW q \in Path, Write(s, u, q)
          PROVE  FALSE
      BY <3>1 DEF Write, TypeOK
    <3> QED BY <3>1 DEF Next, Steps, BeginBackup, BeginRestore, List, Look, Read, Close,
                        StopOwner, StartOwner, Check, Refuse, Finish, OtherTask,
                        ManagerRestart
  <2>0. PICK q \in exec.left :
          exec.pc = "extract" /\ \E f : vol' = [vol EXCEPT ![exec.now[2]][q] = f]
    BY <2>1 DEF Extract, Fails
  <2>2. PICK f : exec.pc = "extract" /\ vol' = [vol EXCEPT ![exec.now[2]][q] = f]
    BY <2>0
  <2>3. exec.now \in Targets(exec.only) /\ archive[exec.now][q] # None /\ q \in Path
    BY <2>2 DEF Shape, TypeOK, Exec
  <2>4. exec.now[2] \in Volume /\ vol[exec.now[2]] \in Contents /\ vol[v] \in Contents
    BY <2>3, TargetsType DEF TypeOK
  <2>5. v = exec.now[2] /\ p = q
    BY <2>2, <2>4 DEF TypeOK, Contents
  <2> QED BY <2>3, <2>5
<1> HIDE DEF Changes
<1>2. Spec => [][Changes]_vars
  BY <1>1, Inductive, PTL DEF Spec
<1> QED BY <1>2, PTL DEF OnlyArchived, Changes

(* A backup nothing interfered with is a copy, every file of it.           *)
THEOREM Copy == Spec => StillCopy
<1> DEFINE Copies ==
      Returns("success") /\ exec.task = "backup" /\ exec.still
        => \A t \in Targets(exec.only) : archive'[t] = vol[t[2]]
<1>1. IInv /\ [Next]_vars => [Copies]_vars
  <2> SUFFICES ASSUME IInv, Next, Returns("success"), exec.task = "backup", exec.still,
                      NEW t \in Targets(exec.only)
               PROVE  archive'[t] = vol[t[2]]
    OBVIOUS
  <2> USE DEF IInv
  <2>1. Close /\ exec.todo = {}
    <3>1. exec.pc # "idle" /\ exec'.pc = "idle" /\ exec'.result = "success"
      BY DEF Returns
    <3>2. exec \in Exec /\ exec.pc \notin {"stop", "check", "extract", "start"}
      BY DEF TypeOK, Shape
    <3>3. ASSUME NEW u \in Target, List(u) \/ Check(u) \/ Refuse(u)
          PROVE  FALSE
      BY <3>1, <3>2, <3>3 DEF List, Check, Refuse, Exec
    <3>4. ASSUME NEW p \in Path, Look(p) \/ Extract(p)
          PROVE  FALSE
      <4>1. Look(p)
        BY <3>2, <3>4 DEF Extract
      <4>2. \/ exec' = [exec EXCEPT !.left = @ \ {p}]
            \/ exec' = [exec EXCEPT !.pc = "read", !.left = @ \ {p}, !.at = p,
                                     !.head = vol[exec.now[2]][p]]
        BY <4>1 DEF Look
      <4>3. exec'.pc \in {exec.pc, "read"}
        BY <3>2, <4>2 DEF Exec
      <4> QED BY <3>1, <4>3
    <3>5. ASSUME NEW s \in Service, StopOwner(s) \/ StartOwner(s)
          PROVE  FALSE
      BY <3>2, <3>5 DEF StopOwner, StartOwner
    <3>6. ASSUME NEW s \in Service, NEW v \in Volume, NEW p \in Path, Write(s, v, p)
          PROVE  FALSE
      BY <3>1, <3>2, <3>6 DEF Write, Exec
    <3>7. ASSUME NEW only, BeginBackup(only) \/ BeginRestore(only)
          PROVE  FALSE
      BY <3>1, <3>7 DEF BeginBackup, BeginRestore
    <3>8. ~(Read \/ Finish \/ Fails)
      <4>1. Read => exec'.pc = "look"
        BY <3>2 DEF Read, Exec
      <4>2. Fails => exec' = Ended(exec.task, exec.only, "failure")
        BY DEF Fails
      <4> QED BY <3>1, <3>2, <4>1, <4>2 DEF Finish
    <3>9. ~(OtherTask \/ ManagerRestart)
      BY <3>1, <3>2 DEF OtherTask, ManagerRestart, Exec
    <3>10. Close
      BY <3>3, <3>4, <3>5, <3>6, <3>7, <3>8, <3>9 DEF Next, Steps
    <3>11. exec.todo # {} => exec'.pc = "list"
      BY <3>2, <3>10 DEF Close, Exec
    <3> QED BY <3>1, <3>10, <3>11
  <2>2. \A p \in Path : archive'[t][p] = vol[t[2]][p]
    BY <2>1 DEF Copied, Close
  <2>3. archive'[t] \in Contents /\ vol[t[2]] \in Contents
    BY <2>1, TargetsType DEF TypeOK, Close
  <2> QED BY <2>2, <2>3 DEF Contents
<1> HIDE DEF Copies
<1>2. Spec => [][Copies]_vars
  BY <1>1, Inductive, PTL DEF Spec
<1> QED BY <1>2, PTL DEF StillCopy, Copies

-----------------------------------------------------------------------------
(* How far a task has come: its phase; in it the services that are still   *)
(* to be stopped or started; the volumes still to come; the files of the   *)
(* one in hand; and what is done with a file or a volume in turn.          *)
Phase ==
  CASE exec.pc \in {"idle", "stop"} -> 0
    [] exec.pc \in {"list", "look", "read", "check", "extract"} -> 1
    [] exec.pc = "start" -> 2

Turn ==
  CASE exec.pc \in {"idle", "stop", "read", "extract", "start"} -> 0
    [] exec.pc = "look" -> 1
    [] exec.pc \in {"list", "check"} -> 2

Smaller(new, old) == new \subseteq old /\ new # old

Further ==
  \/ exec'.pc = "idle"
  \/ Phase' > Phase
  \/ Phase' = Phase /\ Smaller(exec'.owners, exec.owners)
  \/ /\ Phase' = Phase /\ exec'.owners = exec.owners
     /\ \/ Smaller(exec'.todo, exec.todo)
        \/ exec'.todo = exec.todo /\ Smaller(exec'.left, exec.left)
        \/ exec'.todo = exec.todo /\ exec'.left = exec.left /\ Turn' > Turn

(* No step of a task, failed or not, is one it has taken before: a backup  *)
(* and a restore come to an end, whatever fails and whatever the services  *)
(* write meanwhile.                                                        *)
THEOREM TasksGoOn == Spec => [][Steps => Further]_vars
<1>1. ASSUME TypeOK, Steps PROVE Further
  <2> USE DEF TypeOK, Exec
  <2>1. ASSUME NEW t \in Target, List(t) PROVE Further
    <3>1. /\ exec.pc = "list" /\ exec'.pc = "look" /\ exec'.owners = exec.owners
          /\ t \in exec.todo /\ exec'.todo = exec.todo \ {t}
      BY <1>1, <2>1 DEF List
    <3> QED BY <3>1 DEF Further, Phase, Smaller
  <2>2. ASSUME NEW t \in Target, Check(t) PROVE Further
    <3>1. /\ exec.pc = "check" /\ exec'.pc = "extract" /\ exec'.owners = exec.owners
          /\ t \in exec.todo /\ exec'.todo = exec.todo \ {t}
      BY <1>1, <2>2 DEF Check
    <3> QED BY <3>1 DEF Further, Phase, Smaller
  <2>3. ASSUME NEW p \in Path, Look(p) PROVE Further
    <3>1. /\ exec.pc = "look" /\ exec'.pc \in {"look", "read"}
          /\ exec'.owners = exec.owners /\ exec'.todo = exec.todo
          /\ p \in exec.left /\ exec'.left = exec.left \ {p}
      BY <1>1, <2>3 DEF Look
    <3> QED BY <3>1 DEF Further, Phase, Smaller
  <2>4. CASE Read
    <3>1. /\ exec.pc = "read" /\ exec'.pc = "look" /\ exec'.owners = exec.owners
          /\ exec'.todo = exec.todo /\ exec'.left = exec.left
      BY <1>1, <2>4 DEF Read
    <3> QED BY <3>1 DEF Further, Phase, Turn
  <2>5. CASE Close
    <3>1. CASE exec.todo = {}
      <4>1. exec'.pc = "idle"
        BY <2>5, <3>1 DEF Close
      <4> QED BY <4>1 DEF Further
    <3>2. CASE exec.todo # {}
      <4>1. /\ exec.pc = "look" /\ exec'.pc = "list" /\ exec'.owners = exec.owners
            /\ exec'.todo = exec.todo /\ exec'.left = exec.left
        BY <1>1, <2>5, <3>2 DEF Close
      <4> QED BY <4>1 DEF Further, Phase, Turn
    <3> QED BY <3>1, <3>2
  <2>6. ASSUME NEW s \in Service, StopOwner(s) PROVE Further
    <3>1. exec.pc = "stop" /\ s \in exec.owners
      BY <2>6 DEF StopOwner
    <3>2. CASE exec.owners = {s}
      <4>1. exec'.pc = "check"
        BY <1>1, <2>6, <3>2 DEF StopOwner
      <4> QED BY <3>1, <4>1 DEF Further, Phase
    <3>3. CASE exec.owners # {s}
      <4>1. exec'.pc = "stop" /\ exec'.owners = exec.owners \ {s}
        BY <1>1, <2>6, <3>1, <3>3 DEF StopOwner
      <4> QED BY <3>1, <4>1 DEF Further, Phase, Smaller
    <3> QED BY <3>2, <3>3
  <2>7. ASSUME NEW p \in Path, Extract(p) PROVE Further
    <3>1. /\ exec.pc = "extract" /\ exec'.pc = "extract"
          /\ exec'.owners = exec.owners /\ exec'.todo = exec.todo
          /\ p \in exec.left /\ exec'.left = exec.left \ {p}
      BY <1>1, <2>7 DEF Extract
    <3> QED BY <3>1 DEF Further, Phase, Smaller
  <2>8. CASE Finish
    <3>1. /\ exec.pc = "extract" /\ exec'.pc \in {"start", "check"}
          /\ exec'.owners = exec.owners
          /\ exec'.todo = exec.todo /\ exec'.left = exec.left
      BY <1>1, <2>8 DEF Finish
    <3> QED BY <3>1 DEF Further, Phase, Turn
  <2>9. ASSUME NEW s \in Service, StartOwner(s) PROVE Further
    <3>1. exec.pc = "start" /\ s \in exec.owners
      BY <2>9 DEF StartOwner
    <3>2. CASE exec.owners = {s}
      <4>1. exec'.pc = "idle"
        BY <2>9, <3>2 DEF StartOwner
      <4> QED BY <4>1 DEF Further
    <3>3. CASE exec.owners # {s}
      <4>1. exec'.pc = "start" /\ exec'.owners = exec.owners \ {s}
        BY <1>1, <2>9, <3>1, <3>3 DEF StartOwner
      <4> QED BY <3>1, <4>1 DEF Further, Phase, Smaller
    <3> QED BY <3>2, <3>3
  <2>10. ASSUME Fails \/ \E t \in Target : Refuse(t) PROVE Further
    <3>1. exec'.pc = "idle"
      BY <2>10 DEF Fails, Refuse
    <3> QED BY <3>1 DEF Further
  <2> QED BY <1>1, <2>1, <2>2, <2>3, <2>4, <2>5, <2>6, <2>7, <2>8, <2>9, <2>10 DEF Steps
<1>2. IInv /\ [Next]_vars => [Steps => Further]_vars
  BY <1>1 DEF IInv
<1> QED BY <1>2, Inductive, PTL DEF Spec
=============================================================================
