---------------------------- MODULE VolumeArchive ----------------------------
(***************************************************************************)
(* The data path of volume backups and restores: collectVolumeTar and      *)
(* volumeTargets (internal/executor/executor_backup.go), restoreVolumes    *)
(* and extractGzipTarToDirFiltered (executor_restore.go), ExtractTar and   *)
(* the user namespace map (internal/podman/inspector.go).                  *)
(*                                                                         *)
(* A backup walks the volumes while the services run; each file is looked  *)
(* at, then read.  A restore stops the services it was told to restore,    *)
(* checks and extracts one volume after the other over what is there, and  *)
(* starts them again.  One task runs at a time; every step may fail, and   *)
(* the process may die between two steps.                                  *)
(***************************************************************************)
EXTENDS Integers

CONSTANTS
  Service,    \* the services of the instance
  Own,        \* those with a volume of their own
  Shared,     \* the shared volumes
  Mounted,    \* [Service -> the shared volumes it mounts]
  Path,       \* files of a volume
  Written,    \* files the services write
  None,       \* no file
  All,        \* a task that is not for one service alone
  IdMap,      \* lines of the user namespace map
  MaxSize,    \* the size of a file a restore accepts (maxRestoreFileBytes)
  MaxWrites   \* bound: writes of the services in a behaviour

File == [kind : {"file", "link"}, owner : Nat, size : Nat, data : Nat]
Line == [container : Nat, host : Nat, count : Nat]

InHost(e, id) == e.host <= id /\ id < e.host + e.count
InContainer(e, id) == e.container <= id /\ id < e.container + e.count

Apart(m, j, n, k) == m + j <= n \/ n + k <= m

ASSUME ArchiveAssumption ==
  /\ Own \subseteq Service /\ Own \cap Shared = {}
  /\ Mounted \in [Service -> SUBSET Shared]
  /\ Written \subseteq File /\ None \notin File /\ All \notin Service
  /\ IdMap \subseteq Line
  /\ \A d, e \in IdMap : d = e \/
       /\ Apart(d.host, d.count, e.host, e.count)
       /\ Apart(d.container, d.count, e.container, e.count)
  /\ MaxSize \in Nat /\ MaxWrites \in Nat

Volume == Own \cup Shared
Mounts(s, v) == v = s \/ v \in Mounted[s]

(* volumeTargets: what is archived of a service, under a prefix of its own *)
Target == {t \in Service \X Volume : Mounts(t[1], t[2])}

(* Wrong variant: a service is given every volume of the instance.         *)
AllTargets(only) == {t \in Service \X Volume : only \in {All, t[1]}}

Targets(only) == {t \in Target : only \in {All, t[1]}}
Owners(only) == {t[1] : t \in Targets(only)}   \* servicesWithVolumes

VARIABLES
  vol,       \* [Volume -> [Path -> file or None]]
  running,   \* SUBSET Service
  archive,   \* [Target -> [Path -> file or None]]: what a backup wrote
  ready,     \* the backup that wrote it succeeded
  exec,      \* the task
  writes     \* writes so far

vars == <<vol, running, archive, ready, exec, writes>>

Task == {"backup", "restore"}
Pc == {"idle", "list", "look", "read", "stop", "check", "extract", "start"}
Result == {"none", "success", "failure", "refused"}

Exec == [task : Task, only : Service \cup {All}, pc : Pc,
         todo : SUBSET Target,         \* volumes to be archived or restored
         owners : SUBSET Service,      \* services to be stopped, or started
         now : Target \cup {None},     \* the volume in hand
         left : SUBSET Path,           \* its files that are still to come
         at : Path \cup {None},        \* the file looked at,
         head : File \cup {None},      \* as it was then
         result : Result,
         still : BOOLEAN,  \* history: nothing was written since a backup began
         late : BOOLEAN]   \* history: the user manager was restarted since

Contents == [Path -> File \cup {None}]
Empty == [p \in Path |-> None]

TypeOK ==
  /\ vol \in [Volume -> Contents]
  /\ running \subseteq Service
  /\ archive \in [Target -> Contents]
  /\ ready \in BOOLEAN
  /\ exec \in Exec
  /\ writes \in 0 .. MaxWrites

Ended(task, only, result) ==
  [task |-> task, only |-> only, pc |-> "idle", todo |-> {}, owners |-> {},
   now |-> None, left |-> {}, at |-> None, head |-> None, result |-> result,
   still |-> TRUE, late |-> FALSE]

Init ==
  /\ vol = [v \in Volume |-> Empty]
  /\ running \in SUBSET Service
  /\ archive = [t \in Target |-> Empty] /\ ready = FALSE
  /\ exec = Ended("backup", All, "none")
  /\ writes = 0

At(pc) == exec.pc = pc
PutDown(pc) == exec' = [exec EXCEPT !.pc = pc, !.now = None]
Return(result) == exec' = Ended(exec.task, exec.only, result)

Begun(task, only) ==
  [Ended(task, only, "none") EXCEPT
     !.pc = IF task = "backup" THEN "list" ELSE "stop",
     !.todo = Targets(only),
     !.owners = IF task = "backup" THEN {} ELSE Owners(only)]

-----------------------------------------------------------------------------
(* Backup                                                                  *)

(* The archive is written anew.  (Without a volume there is nothing to do.) *)
BeginBackup(only) ==
  /\ At("idle") /\ Targets(only) # {}
  /\ exec' = Begun("backup", only)
  /\ archive' = [t \in Target |-> Empty] /\ ready' = FALSE
  /\ UNCHANGED <<vol, running, writes>>

(* Walk reads the names of a directory before it visits the first.         *)
List(t) ==
  /\ At("list") /\ t \in exec.todo
  /\ exec' = [exec EXCEPT !.pc = "look", !.todo = @ \ {t}, !.now = t,
                          !.left = {p \in Path : vol[t[2]][p] # None}]
  /\ UNCHANGED <<vol, running, archive, ready, writes>>

Enter(p, f) == archive' = [archive EXCEPT ![exec.now][p] = f]

(* Its header is made from what Walk saw; only a regular file is read.     *)
Look(p) ==
  /\ At("look") /\ p \in exec.left
  /\ LET f == vol[exec.now[2]][p]
     IN /\ f # None
        /\ IF f.kind = "link"
             THEN /\ Enter(p, f)
                  /\ exec' = [exec EXCEPT !.left = @ \ {p}]
             ELSE /\ exec' = [exec EXCEPT !.pc = "read", !.left = @ \ {p},
                                          !.at = p, !.head = f]
                  /\ UNCHANGED archive
  /\ UNCHANGED <<vol, running, ready, writes>>

(* Wrong variant: what cannot be read is left out.                         *)
ReadOrSkip ==
  /\ At("read")
  /\ exec' = [exec EXCEPT !.pc = "look", !.at = None, !.head = None]
  /\ \/ Enter(exec.at, exec.head)
     \/ UNCHANGED archive
  /\ UNCHANGED <<vol, running, ready, writes>>

(* What is read now is entered under the header made then, if it is as     *)
(* long; a link that has taken the place of the file is followed.          *)
Read ==
  /\ At("read")
  /\ LET f == vol[exec.now[2]][exec.at]
     IN /\ f # None /\ f.size = exec.head.size
        /\ Enter(exec.at, [exec.head EXCEPT !.data = f.data])
  /\ exec' = [exec EXCEPT !.pc = "look", !.at = None, !.head = None]
  /\ UNCHANGED <<vol, running, ready, writes>>

Close ==
  /\ At("look") /\ exec.left = {}
  /\ IF exec.todo = {}
       THEN ready' = TRUE /\ Return("success")
       ELSE UNCHANGED ready /\ PutDown("list")
  /\ UNCHANGED <<vol, running, archive, writes>>

-----------------------------------------------------------------------------
(* Restore                                                                 *)

(* Of what a backup stored, for all services or for one.                   *)
BeginRestore(only) ==
  /\ At("idle") /\ ready /\ Targets(only) # {}
  /\ exec' = Begun("restore", only)
  /\ UNCHANGED <<vol, running, archive, ready, writes>>

StopOwner(s) ==
  /\ At("stop") /\ s \in exec.owners
  /\ running' = running \ {s}
  /\ exec' = IF exec.owners = {s}
               THEN [exec EXCEPT !.pc = "check", !.owners = Owners(exec.only)]
               ELSE [exec EXCEPT !.owners = @ \ {s}]
  /\ UNCHANGED <<vol, archive, ready, writes>>

Mapped(id) == \E e \in IdMap : InHost(e, id)

(* Wrong variant: the whole line is mapped to its first id.                *)
HostToContainerStart(id) == (CHOOSE d \in IdMap : InHost(d, id)).container

(* UserNamespaceIDMap and HostToContainer: the owner inside the namespace. *)
HostToContainer(id) ==
  LET e == CHOOSE d \in IdMap : InHost(d, id)
  IN e.container + (id - e.host)

(* The kernel's map, which applies to what tar does inside it.             *)
ContainerToHost(id) ==
  LET e == CHOOSE d \in IdMap : InContainer(d, id)
  IN e.host + (id - e.container)

Acceptable(f) == f.kind = "file" /\ f.size <= MaxSize /\ Mapped(f.owner)
Accepted(t) == \A p \in Path : archive[t][p] # None => Acceptable(archive[t][p])

(* The whole archive is gone through for the prefix of one volume, and     *)
(* copied, before anything of it is extracted.                             *)
Check(t) ==
  /\ At("check") /\ t \in exec.todo
  /\ Accepted(t)
  /\ exec' = [exec EXCEPT !.pc = "extract", !.todo = @ \ {t}, !.now = t,
                          !.left = {p \in Path : archive[t][p] # None}]
  /\ UNCHANGED <<vol, running, archive, ready, writes>>

(* The volumes extracted before it stay as they are, and services stopped. *)
Refuse(t) ==
  /\ At("check") /\ t \in exec.todo
  /\ ~Accepted(t)
  /\ Return("refused")
  /\ UNCHANGED <<vol, running, archive, ready, writes>>

Extracted(f) == [f EXCEPT !.owner = ContainerToHost(HostToContainer(@))]

(* ExtractTar: over what is there; other files stay.                       *)
Extract(p) ==
  /\ At("extract") /\ p \in exec.left
  /\ vol' = [vol EXCEPT ![exec.now[2]][p] = Extracted(archive[exec.now][p])]
  /\ exec' = [exec EXCEPT !.left = @ \ {p}]
  /\ UNCHANGED <<running, archive, ready, writes>>

(* Wrong variant: the services are started after the first volume.         *)
FinishOne ==
  /\ At("extract") /\ exec.left = {}
  /\ PutDown("start")
  /\ UNCHANGED <<vol, running, archive, ready, writes>>

Finish ==
  /\ At("extract") /\ exec.left = {}
  /\ PutDown(IF exec.todo = {} THEN "start" ELSE "check")
  /\ UNCHANGED <<vol, running, archive, ready, writes>>

StartOwner(s) ==
  /\ At("start") /\ s \in exec.owners
  /\ running' = running \cup {s}
  /\ IF exec.owners = {s}
       THEN Return("success")
       ELSE exec' = [exec EXCEPT !.owners = @ \ {s}]
  /\ UNCHANGED <<vol, archive, ready, writes>>

-----------------------------------------------------------------------------
(* Failures and the environment                                            *)

(* A step fails, with or without effect, or the process dies.              *)
Fails ==
  /\ ~At("idle")
  /\ Return("failure")
  /\ \/ UNCHANGED <<vol, running>>
     \/ \E s \in exec.owners :
          /\ \/ At("stop") /\ running' = running \ {s}
             \/ At("start") /\ running' = running \cup {s}
          /\ UNCHANGED vol
     \/ \E p \in exec.left :
          /\ At("extract")
          /\ \E f \in {None, [Extracted(archive[exec.now][p]) EXCEPT !.data = 0]} :
               vol' = [vol EXCEPT ![exec.now[2]][p] = f]
          /\ UNCHANGED running
  /\ UNCHANGED <<archive, ready, writes>>

(* A service creates, changes or removes a file.                           *)
Write(s, v, p) ==
  /\ s \in running /\ Mounts(s, v) /\ writes < MaxWrites
  /\ \E f \in Written \cup {None} :
       f # vol[v][p] /\ vol' = [vol EXCEPT ![v][p] = f]
  /\ exec' = [exec EXCEPT !.still = At("idle") \/ exec.task = "restore"]
  /\ writes' = writes + 1
  /\ UNCHANGED <<running, archive, ready>>

(* Other tasks start and stop services (module Update).                    *)
OtherTask ==
  /\ At("idle")
  /\ running' \in SUBSET Service
  /\ UNCHANGED <<vol, archive, ready, exec, writes>>

(* The user manager is restarted and starts every service.                 *)
ManagerRestart ==
  /\ ~At("idle")
  /\ running' = Service
  /\ exec' = [exec EXCEPT !.late = TRUE]
  /\ UNCHANGED <<vol, archive, ready, writes>>

-----------------------------------------------------------------------------
Steps ==
  \/ \E t \in Target : List(t) \/ Check(t) \/ Refuse(t)
  \/ \E p \in Path : Look(p) \/ Extract(p)
  \/ \E s \in Service : StopOwner(s) \/ StartOwner(s)
  \/ Read \/ Close \/ Finish \/ Fails

Next ==
  \/ \E only \in Service \cup {All} : BeginBackup(only) \/ BeginRestore(only)
  \/ Steps
  \/ \E s \in Service, v \in Volume, p \in Path : Write(s, v, p)
  \/ OtherTask \/ ManagerRestart

Spec == Init /\ [][Next]_vars

(* A task that was begun goes on.                                          *)
FairSpec == Spec /\ WF_vars(Steps)

-----------------------------------------------------------------------------
(* Properties                                                              *)

Returns(result) == ~At("idle") /\ exec'.pc = "idle" /\ exec'.result = result

(* A service the restore was not asked to restore mounts a restored volume *)
(* and runs.                                                               *)
Disturbed ==
  \E t \in Targets(exec.only) : \E s \in running \ Owners(exec.only) : Mounts(s, t[2])

(* "Stop containers that own the target volumes before restoring data":    *)
(* while files are extracted no service runs that mounts the volume, but   *)
(* those a restore of one service leaves alone, or a restart of the user   *)
(* manager brought back.                                                   *)
ExtractsAlone ==
  At("extract") /\ ~exec.late =>
    \A s \in running : Mounts(s, exec.now[2]) => exec.only \notin {All, s}

(* Every file of the archive is in its volume, with the owner it had, as   *)
(* one of the services that mount the volume had it archived.              *)
InPlace ==
  \A t \in Targets(exec.only) : \A p \in Path :
    archive[t][p] # None =>
      \E u \in Targets(exec.only) : u[2] = t[2] /\ vol[t[2]][p] = archive[u][p]

(* By the time the first service is started again, everything is in place. *)
RestoredUnlessDisturbed ==
  /\ At("start") /\ exec.owners = Owners(exec.only)
  /\ ~exec.late /\ ~Disturbed
  => InPlace

(* Also a restore that fails or dies leaves alone every file the archive   *)
(* does not hold for a service it restores: writes apart, files change     *)
(* only where a service of the task had one archived.                      *)
OnlyArchived ==
  [][writes' = writes =>
       \A v \in Volume : \A p \in Path :
         vol'[v][p] # vol[v][p] =>
           \E t \in Targets(exec.only) : t[2] = v /\ archive[t][p] # None]_vars

(* A backup during which nothing was written is a copy of its volumes.     *)
StillCopy ==
  [][Returns("success") /\ exec.task = "backup" /\ exec.still
       => \A t \in Targets(exec.only) : archive'[t] = vol[t[2]]]_vars

(* Whatever earlier restores left, half extracted volumes or stopped       *)
(* services, restores that are asked for again put everything in place     *)
(* once steps stop failing, if the archive is one that is accepted.        *)
RestoreCompletes ==
  /\ <>[][~(Fails \/ ManagerRestart)]_vars
  /\ <>[](exec.task = "restore" /\ exec.only = All /\ \A t \in Target : Accepted(t))
  /\ []<>(At("stop"))
  => []<>(exec.result = "success") /\ []<>(At("start") /\ InPlace)
=============================================================================
