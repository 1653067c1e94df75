---------------------------- MODULE BackupStore -----------------------------
(***************************************************************************)
(* Backups of one instance: how they are made, stored, deleted and fetched *)
(* for a restore (internal/executor/executor_backup.go, executor_restore.go*)
(* executor_storage.go), in the helper that the agent starts for them      *)
(* (executor_helper.go), and what admirald comes to know of them.          *)
(*                                                                         *)
(* A backup is one file below backups/, named after its operation, and for *)
(* remote storage an object as well.  Contents are told apart by the state *)
(* of the application they were taken from; checksums tell the same.       *)
(* A command whose result was lost is carried out again.                   *)
(***************************************************************************)
EXTENDS Integers, FiniteSets

CONSTANTS
  Backup,      \* backups admirald asks for
  Remote,      \* those with storage other than local
  Volume,      \* those of volumes; the others are dumps of a database
  MaxData,     \* bound: states of the application's data in a behaviour
  MaxWaiting,  \* bound: results in the outbox at once
  MaxAsked     \* bound: backups admirald asks for in a behaviour

ASSUME BackupAssumption ==
  /\ Backup # {} /\ Remote \subseteq Backup /\ Volume \subseteq Backup
  /\ MaxData \in Nat \ {0} /\ MaxWaiting \in Nat /\ MaxAsked \in Nat

Nothing == 0
Torn == -1      \* part of a backup, or an object without content
State == 1 .. MaxData
Content == State \cup {Nothing, Torn}

VARIABLES
  data,        \* the application's data
  written,     \* states of it so far
  file,        \* [Backup -> Content]: the backup directory
  object,      \* [Backup -> Content]: the bucket
  status,      \* [Backup -> what admirald wants or knows]
  sum,         \* [Backup -> checksum admirald was told, or Nothing]
  outbox,      \* results that wait for their delivery
  exec,        \* the task in hand
  made,        \* history: backups that succeeded once,
  again,       \* and that were begun once more after that
  unread       \* history: backups whose file could not be read for upload

store == <<file, object>>
admirald == <<status, sum>>
history == <<made, again, unread>>
vars == <<data, written, file, object, status, sum, outbox, exec, made, again,
          unread>>

Task == {"backup", "delete", "restore"}
Pc == {"idle", "collect", "create", "finish", "upload", "remove", "fetch",
       "verify", "apply", "report"}
Outcome == [of : Backup, task : Task, ok : BOOLEAN, sum : Content]

TypeOK ==
  /\ data \in State /\ written \in State
  /\ file \in [Backup -> Content] /\ object \in [Backup -> Content]
  /\ status \in [Backup -> {"new", "backup", "failed", "stored", "delete",
                            "kept", "deleted"}]
  /\ sum \in [Backup -> State \cup {Nothing}]
  /\ outbox \subseteq Outcome
  /\ exec \in [task : Task, of : Backup, pc : Pc, got : Content,
               want : State \cup {Nothing}, ok : BOOLEAN]
  /\ exec.pc = "upload" => exec.of \in Remote /\ file[exec.of] \in State
  /\ made \subseteq Backup /\ again \subseteq Backup /\ unread \subseteq Backup

Idle == [task |-> "backup", of |-> CHOOSE b \in Backup : TRUE, pc |-> "idle",
         got |-> Nothing, want |-> Nothing, ok |-> FALSE]

Init ==
  /\ data = 1 /\ written = 1
  /\ file = [b \in Backup |-> Nothing] /\ object = file
  /\ status = [b \in Backup |-> "new"] /\ sum = [b \in Backup |-> Nothing]
  /\ outbox = {}
  /\ exec = Idle
  /\ made = {} /\ again = {} /\ unread = {}

At(pc) == exec.pc = pc
GoTo(pc) == exec' = [exec EXCEPT !.pc = pc]
Done(ok) == exec' = [exec EXCEPT !.pc = "report", !.ok = ok]

Now == exec.of                       \* the backup in hand
Copy(b) == IF b \in Remote THEN object[b] ELSE file[b]

-----------------------------------------------------------------------------
(* admirald and the application                                            *)

Ask(b) ==
  /\ \/ /\ status[b] = "new"
        /\ Cardinality({c \in Backup : status[c] # "new"}) < MaxAsked
        /\ status' = [status EXCEPT ![b] = "backup"]
     \/ /\ status[b] \in {"stored", "kept"}
        /\ status' = [status EXCEPT ![b] = "delete"]
  /\ UNCHANGED <<data, written, store, sum, outbox, exec, history>>

(* The first result ends a command, later ones are for none.  A backup     *)
(* whose deletion failed is kept and may be deleted once more.             *)
Answer(r) ==
  IF r.task = "backup" THEN IF r.ok THEN "stored" ELSE "failed"
                       ELSE IF r.ok THEN "deleted" ELSE "kept"

Take(r) ==
  IF status[r.of] = r.task
    THEN /\ status' = [status EXCEPT ![r.of] = Answer(r)]
         /\ sum' = [sum EXCEPT ![r.of] =
                      IF r.task = "backup" /\ r.ok THEN r.sum ELSE @]
    ELSE UNCHANGED admirald

Change ==
  /\ written < MaxData
  /\ written' = written + 1 /\ data' = written + 1
  /\ UNCHANGED <<store, admirald, outbox, exec, history>>

-----------------------------------------------------------------------------
(* The agent                                                               *)

Begin(b) ==
  /\ At("idle")
  /\ \E task \in Task, want \in {sum[b], Nothing} :
       /\ status[b] \in IF task = "restore" THEN {"stored", "kept"} ELSE {task}
       /\ task # "restore" => want = Nothing
       /\ exec' = [task |-> task, of |-> b,
                   pc |-> CASE task = "delete"  -> "remove"
                            [] task = "restore" -> "fetch"
                            [] task = "backup"  ->
                                 IF b \in Volume THEN "create" ELSE "collect",
                   got |-> Nothing, want |-> want, ok |-> FALSE]
       /\ again' = again \cup (IF task = "backup" THEN {b} \cap made ELSE {})
  /\ UNCHANGED <<data, written, store, admirald, outbox, made, unread>>

Result == [of |-> Now, task |-> exec.task, ok |-> exec.ok,
           sum |-> IF exec.ok THEN exec.got ELSE Nothing]

Send ==
  /\ At("report")
  /\ Take(Result)
  /\ exec' = Idle
  /\ UNCHANGED <<data, written, store, outbox, history>>

(* The result goes to the outbox, or is lost.                              *)
SendFails ==
  /\ At("report")
  /\ \/ UNCHANGED outbox
     \/ Cardinality(outbox) < MaxWaiting /\ outbox' = outbox \cup {Result}
  /\ exec' = Idle
  /\ UNCHANGED <<data, written, store, admirald, history>>

Flush(r) ==
  /\ r \in outbox
  /\ Take(r)
  /\ outbox' = outbox \ {r}
  /\ UNCHANGED <<data, written, store, exec, history>>

(* Agent and helper die.                                                   *)
Crash ==
  /\ ~At("idle")
  /\ exec' = Idle
  /\ UNCHANGED <<data, written, store, admirald, outbox, history>>

(* The helper dies or its answer is not understood.  Deletion has none.    *)
HelperDies ==
  /\ exec.pc \notin {"idle", "report", "remove"}
  /\ Done(FALSE)
  /\ UNCHANGED <<data, written, store, admirald, outbox, history>>

-----------------------------------------------------------------------------
(* Backup: a database is dumped before the file is opened, volumes are     *)
(* archived into the open file.                                            *)

(* What changes while it is read gives a content of its own.               *)
Collect ==
  /\ At("collect")
  /\ \E mixed \in {0, 1} :
       /\ written + mixed <= MaxData
       /\ written' = written + mixed
       /\ exec' = [exec EXCEPT
            !.got = IF mixed = 1 THEN written' ELSE data,
            !.pc = IF Now \in Volume THEN "finish" ELSE "create"]
  /\ UNCHANGED <<data, store, admirald, outbox, history>>

(* closeAndRemove, whose own failure is ignored.                           *)
CloseAndRemove == file' \in {[file EXCEPT ![Now] = c] : c \in {Nothing, Torn}}

CollectFails ==
  /\ At("collect")
  /\ IF Now \in Volume THEN CloseAndRemove ELSE UNCHANGED file
  /\ Done(FALSE)
  /\ UNCHANGED <<data, written, object, admirald, outbox, history>>

Create ==
  /\ At("create")
  /\ file' = [file EXCEPT ![Now] = Torn]
  /\ GoTo(IF Now \in Volume THEN "collect" ELSE "finish")
  /\ UNCHANGED <<data, written, object, admirald, outbox, history>>

CreateFails ==
  /\ At("create")
  /\ Done(FALSE)
  /\ UNCHANGED <<data, written, store, admirald, outbox, history>>

Succeed ==
  /\ Done(TRUE)
  /\ made' = made \cup {Now}

(* Wrong variant: the storage asked for is not looked at.                  *)
FinishForUpload ==
  /\ At("finish")
  /\ file' = [file EXCEPT ![Now] = exec.got]
  /\ GoTo("upload")
  /\ UNCHANGED <<data, written, object, admirald, outbox, history>>

Finish ==
  /\ At("finish")
  /\ file' = [file EXCEPT ![Now] = exec.got]
  /\ IF Now \in Remote THEN GoTo("upload") /\ UNCHANGED made ELSE Succeed
  /\ UNCHANGED <<data, written, object, admirald, outbox, again, unread>>

FinishFails ==
  /\ At("finish")
  /\ CloseAndRemove
  /\ Done(FALSE)
  /\ UNCHANGED <<data, written, object, admirald, outbox, history>>

(* Wrong variant: the file is not closed before it is uploaded.            *)
UploadOpen ==
  /\ At("upload")
  /\ object' \in {[object EXCEPT ![Now] = c] : c \in {file[Now], Torn}}
  /\ Succeed
  /\ UNCHANGED <<data, written, file, admirald, outbox, again, unread>>

Upload ==
  /\ At("upload")
  /\ object' = [object EXCEPT ![Now] = file[Now]]
  /\ Succeed
  /\ UNCHANGED <<data, written, file, admirald, outbox, again, unread>>

(* The file cannot be read, and what was read of it is uploaded.           *)
UploadUnread ==
  /\ At("upload")
  /\ object' = [object EXCEPT ![Now] = Torn]
  /\ unread' = unread \cup {Now}
  /\ Succeed
  /\ UNCHANGED <<data, written, file, admirald, outbox, again>>

(* The object may be there in spite of the error; the file stays.          *)
UploadFails ==
  /\ At("upload")
  /\ object' \in {object, [object EXCEPT ![Now] = file[Now]]}
  /\ Done(FALSE)
  /\ UNCHANGED <<data, written, file, admirald, outbox, history>>

-----------------------------------------------------------------------------
(* deleteBackup                                                            *)

Discard ==
  IF Now \in Remote
    THEN object' = [object EXCEPT ![Now] = Nothing] /\ UNCHANGED file
    ELSE file' = [file EXCEPT ![Now] = Nothing] /\ UNCHANGED object

(* Wrong variant: a removal that finds no copy is tried again.             *)
RemovePresent ==
  /\ At("remove")
  /\ Copy(Now) # Nothing
  /\ Discard
  /\ Done(TRUE)
  /\ UNCHANGED <<data, written, admirald, outbox, history>>

(* Wrong variant: the local copy is removed, whatever the storage.         *)
RemoveLocal ==
  /\ At("remove")
  /\ file' = [file EXCEPT ![Now] = Nothing]
  /\ Done(TRUE)
  /\ UNCHANGED <<data, written, object, admirald, outbox, history>>

Remove ==
  /\ At("remove")
  /\ Discard
  /\ Done(TRUE)
  /\ UNCHANGED <<data, written, admirald, outbox, history>>

RemoveFails ==
  /\ At("remove")
  /\ Discard \/ UNCHANGED store
  /\ Done(FALSE)
  /\ UNCHANGED <<data, written, admirald, outbox, history>>

-----------------------------------------------------------------------------
(* restoreBackup, as far as it concerns the artifact                       *)

(* An object is downloaded, a local file is used where it is.              *)
Fetch ==
  /\ At("fetch")
  /\ Copy(Now) # Nothing
  /\ exec' = [exec EXCEPT !.pc = "verify", !.got = Copy(Now)]
  /\ UNCHANGED <<data, written, store, admirald, outbox, history>>

Artifact == IF Now \in Remote THEN exec.got ELSE file[Now]

(* Wrong variant: only what was downloaded is verified.                    *)
VerifyDownload ==
  /\ At("verify")
  /\ Now \in Remote => exec.want \in {Nothing, Artifact}
  /\ GoTo("apply")
  /\ UNCHANGED <<data, written, store, admirald, outbox, history>>

(* Without a checksum, or without the order to verify it, nothing is.  The *)
(* sum of the unpacked content, which is taken too (verifyRestoreChecksum),*)
(* tells contents apart as that of the packed one does.                    *)
Verify ==
  /\ At("verify")
  /\ exec.want \in {Nothing, Artifact}
  /\ GoTo("apply")
  /\ UNCHANGED <<data, written, store, admirald, outbox, history>>

Apply ==
  /\ At("apply")
  /\ Artifact \in State
  /\ data' = Artifact
  /\ Done(TRUE)
  /\ UNCHANGED <<written, store, admirald, outbox, history>>

(* An artifact is missing, wrong or unusable.                              *)
Refuse ==
  /\ \/ At("fetch") /\ Copy(Now) = Nothing
     \/ At("verify") /\ exec.want \notin {Nothing, Artifact}
     \/ At("apply") /\ Artifact \notin State
  /\ Done(FALSE)
  /\ UNCHANGED <<data, written, store, admirald, outbox, history>>

(* What is applied in part is a state the application was never in.        *)
ApplyFails ==
  /\ At("apply")
  /\ written < MaxData
  /\ written' = written + 1 /\ data' = written + 1
  /\ Done(FALSE)
  /\ UNCHANGED <<store, admirald, outbox, history>>

-----------------------------------------------------------------------------
Working ==
  \/ Collect \/ Create \/ Finish \/ Upload \/ Remove
  \/ Fetch \/ Verify \/ Apply \/ Refuse \/ Send

Failing ==
  \/ SendFails \/ Crash \/ HelperDies \/ CollectFails \/ CreateFails
  \/ FinishFails \/ UploadUnread \/ UploadFails \/ RemoveFails \/ ApplyFails

Next ==
  \/ \E b \in Backup : Ask(b) \/ Begin(b)
  \/ \E r \in outbox : Flush(r)
  \/ Change \/ Working \/ Failing

Spec == Init /\ [][Next]_vars

(* A task goes on once begun; a deletion that waits is begun in the end    *)
(* (TaskClaim).                                                            *)
Fairness ==
  /\ WF_vars(Working)
  /\ \A b \in Backup : SF_vars(Begin(b) /\ status[b] = "delete")

FairSpec == Spec /\ Fairness

-----------------------------------------------------------------------------
(* Properties                                                              *)

(* What admirald takes for stored is there with the checksum it was told,  *)
(* unless the backup was begun once more after it had succeeded, its first *)
(* result being late, or was uploaded without having been read.            *)
StoredAsReported ==
  \A b \in Backup :
    status[b] = "stored" /\ b \notin again \cup unread
      => Copy(b) = sum[b] /\ sum[b] \in State

(* A restore told the checksum applies what the backup reported, or        *)
(* nothing at all: whatever has become of the file or object meanwhile.    *)
RestoresReported ==
  [][At("apply") /\ exec'.ok /\ exec.want # Nothing => data' = exec.want]_vars

(* A deleted backup is not in its storage, whatever was repeated or late.  *)
(* (The local file of an uploaded one is never removed.)                   *)
DeletedIsGone ==
  \A b \in Backup : status[b] = "deleted" => Copy(b) = Nothing

(* A deletion that is asked for again and again completes once steps stop  *)
(* failing, also after one that had its effect and reported an error.      *)
DeletionCompletes ==
  \A b \in Backup :
    <>[][~Failing]_vars /\ []<>(status[b] = "delete")
      => <>(status[b] = "deleted")
=============================================================================
