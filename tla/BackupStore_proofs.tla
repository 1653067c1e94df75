------------------------- MODULE BackupStore_proofs -------------------------
(***************************************************************************)
(* Proofs about BackupStore: what admirald takes for stored is stored, what*)
(* it takes for deleted is gone, and a restore told the checksum applies   *)
(* what was reported or nothing.                                           *)
(*                                                                         *)
(* The argument: a result says what is in the store when it is made (Told),*)
(* and what may change the store afterwards is a backup begun again or a   *)
(* deletion, each of which shows in admirald's record or in the history    *)
(* (Ordered).                                                              *)
(***************************************************************************)
EXTENDS BackupStore, TLAPS

Leaving == {"delete", "kept", "deleted"}

(* What a step has in hand.                                                *)
Staged ==
  /\ exec.pc \in {"collect", "create", "finish", "upload"} => exec.task = "backup"
  /\ exec.pc = "remove" => exec.task = "delete"
  /\ exec.pc \in {"fetch", "verify", "apply"} => exec.task = "restore"
  /\ exec.pc = "finish" => exec.got \in State
  /\ exec.pc = "create" /\ Now \notin Volume => exec.got \in State
  /\ exec.pc = "upload" => file[Now] = exec.got
  /\ exec.pc # "report" => exec.ok = FALSE
  /\ exec.pc = "apply" /\ exec.want # Nothing => Artifact = exec.want

(* Backups come before deletions, and one made before is begun again.      *)
Ordered ==
  /\ exec.pc \notin {"idle", "report"} /\ exec.task = "backup"
       => Now \in again \/ Now \notin made
  /\ ~At("idle") /\ exec.task = "backup"
       => /\ status[Now] \in {"backup", "failed", "stored", "delete"}
          /\ \A r \in outbox : r.of = Now => r.task # "delete"
  /\ ~At("idle") /\ exec.task = "delete" => status[Now] \in Leaving
  /\ \A r \in outbox : r.task = "delete" => status[r.of] \in Leaving
  /\ \A b \in Backup : status[b] = "stored" => b \in made

Accurate(of, task, ok, got) ==
  /\ task = "backup" /\ ok = TRUE
       => /\ of \in made /\ got \in State
          /\ status[of] \in {"new", "backup"} /\ of \notin again \cup unread
               => Copy(of) = got
  /\ task = "delete" /\ ok = TRUE => Copy(of) = Nothing

(* Results describe the store.                                             *)
Told ==
  /\ \A r \in outbox : Accurate(r.of, r.task, r.ok, r.sum)
  /\ At("report") => Accurate(Now, exec.task, exec.ok, exec.got)

IInv ==
  TypeOK /\ Staged /\ Ordered /\ Told /\ StoredAsReported /\ DeletedIsGone

USE BackupAssumption DEF IInv, TypeOK, Staged, Ordered, Accurate, Told,
    StoredAsReported, DeletedIsGone, Leaving, Nothing, Torn, State, Content,
    Task, Pc, Outcome, At, GoTo, Done, Now, Copy, Artifact, store, admirald,
    history

LEMMA Initially == Init => IInv
  BY DEF Init, Idle

(* What a result may do to admirald's record.                              *)
LEMMA Takes ==
  ASSUME TypeOK, NEW r \in Outcome, Take(r),
         r.task = "backup" /\ r.ok = TRUE => r.sum \in State
  PROVE  /\ status' \in [Backup -> {"new", "backup", "failed", "stored",
                                    "delete", "kept", "deleted"}]
         /\ sum' \in [Backup -> State \cup {Nothing}]
         /\ \A b \in Backup \ {r.of} : status'[b] = status[b] /\ sum'[b] = sum[b]
         /\ \/ status'[r.of] = status[r.of] /\ sum'[r.of] = sum[r.of]
            \/ /\ r.task = "backup" /\ r.ok = TRUE
               /\ status[r.of] = "backup" /\ status'[r.of] = "stored"
               /\ sum'[r.of] = r.sum
            \/ /\ r.task = "backup" /\ status[r.of] = "backup"
               /\ status'[r.of] = "failed" /\ sum'[r.of] = sum[r.of]
            \/ /\ r.task = "delete" /\ r.ok = TRUE
               /\ status[r.of] = "delete" /\ status'[r.of] = "deleted"
               /\ sum'[r.of] = sum[r.of]
            \/ /\ r.task = "delete" /\ status[r.of] = "delete"
               /\ status'[r.of] = "kept" /\ sum'[r.of] = sum[r.of]
<1>1. CASE status[r.of] # r.task
  BY <1>1 DEF Take
<1>2. CASE status[r.of] = r.task
  <2>1. /\ status' = [status EXCEPT ![r.of] = Answer(r)]
        /\ sum' = [sum EXCEPT ![r.of] =
                     IF r.task = "backup" /\ r.ok THEN r.sum ELSE @]
    BY <1>2 DEF Take
  <2>2. CASE r.ok = TRUE
    BY <1>2, <2>1, <2>2 DEF Answer
  <2>3. CASE r.ok = FALSE
    <3>1. Answer(r) = IF r.task = "backup" THEN "failed" ELSE "kept"
      BY <2>3, Zenon DEF Answer
    <3>2. sum' = [sum EXCEPT ![r.of] = sum[r.of]]
      BY <2>1, <2>3, Zenon
    <3>q. QED
      BY <1>2, <2>1, <3>1, <3>2
  <2>q. QED
    BY <2>2, <2>3
<1>q. QED
  BY <1>1, <1>2

LEMMA Flushes == ASSUME IInv, NEW r \in outbox, Flush(r) PROVE IInv'
<1>1. /\ r \in Outcome /\ Take(r) /\ outbox' = outbox \ {r}
      /\ UNCHANGED <<data, written, store, exec, history>>
  BY DEF Flush
<1>2. r.task = "backup" /\ r.ok = TRUE => r.sum \in State
  OBVIOUS
<1>3. /\ status' \in [Backup -> {"new", "backup", "failed", "stored",
                                 "delete", "kept", "deleted"}]
      /\ sum' \in [Backup -> State \cup {Nothing}]
      /\ \A b \in Backup \ {r.of} : status'[b] = status[b] /\ sum'[b] = sum[b]
      /\ \/ status'[r.of] = status[r.of] /\ sum'[r.of] = sum[r.of]
         \/ /\ r.task = "backup" /\ r.ok = TRUE
            /\ status[r.of] = "backup" /\ status'[r.of] = "stored"
            /\ sum'[r.of] = r.sum
         \/ /\ r.task = "backup" /\ status[r.of] = "backup"
            /\ status'[r.of] = "failed" /\ sum'[r.of] = sum[r.of]
         \/ /\ r.task = "delete" /\ r.ok = TRUE
            /\ status[r.of] = "delete" /\ status'[r.of] = "deleted"
            /\ sum'[r.of] = sum[r.of]
         \/ /\ r.task = "delete" /\ status[r.of] = "delete"
            /\ status'[r.of] = "kept" /\ sum'[r.of] = sum[r.of]
  BY <1>1, <1>2, Takes
<1>4. TypeOK' /\ Staged'
  BY <1>1, <1>3
<1>5. Ordered'
  BY <1>1, <1>3
<1>6. Told'
  BY <1>1, <1>3
<1>7. StoredAsReported' /\ DeletedIsGone'
  BY <1>1, <1>3
<1>q. QED
  BY <1>4, <1>5, <1>6, <1>7

LEMMA Sends == ASSUME IInv, Send PROVE IInv'
<1>1. /\ At("report") /\ exec' = Idle
      /\ UNCHANGED <<data, written, store, outbox, history>>
  BY DEF Send
<1>2. PICK r \in Outcome :
        /\ Take(r) /\ r.of = Now /\ r.task = exec.task /\ r.ok = exec.ok
        /\ r.ok = TRUE => r.sum = exec.got
  <2>1. /\ Result \in Outcome /\ Result.of = Now /\ Result.task = exec.task
        /\ Result.ok = exec.ok
        /\ Result.ok = TRUE => Result.sum = exec.got
    BY DEF Result
  <2>2. Take(Result)
    BY DEF Send
  <2>q. QED
    BY <2>1, <2>2
<1>3. /\ status' \in [Backup -> {"new", "backup", "failed", "stored",
                                 "delete", "kept", "deleted"}]
      /\ sum' \in [Backup -> State \cup {Nothing}]
      /\ \A b \in Backup \ {r.of} : status'[b] = status[b] /\ sum'[b] = sum[b]
      /\ \/ status'[r.of] = status[r.of] /\ sum'[r.of] = sum[r.of]
         \/ /\ r.task = "backup" /\ r.ok = TRUE
            /\ status[r.of] = "backup" /\ status'[r.of] = "stored"
            /\ sum'[r.of] = r.sum
         \/ /\ r.task = "backup" /\ status[r.of] = "backup"
            /\ status'[r.of] = "failed" /\ sum'[r.of] = sum[r.of]
         \/ /\ r.task = "delete" /\ r.ok = TRUE
            /\ status[r.of] = "delete" /\ status'[r.of] = "deleted"
            /\ sum'[r.of] = sum[r.of]
         \/ /\ r.task = "delete" /\ status[r.of] = "delete"
            /\ status'[r.of] = "kept" /\ sum'[r.of] = sum[r.of]
  <2>1. r.task = "backup" /\ r.ok = TRUE => r.sum \in State
    BY <1>1, <1>2
  <2>q. QED
    BY <1>2, <2>1, Takes
<1>4. TypeOK' /\ Staged'
  BY <1>1, <1>2, <1>3 DEF Idle
<1>5. Ordered'
  BY <1>1, <1>2, <1>3 DEF Idle
<1>6. Told'
  BY <1>1, <1>2, <1>3 DEF Idle
<1>7. StoredAsReported' /\ DeletedIsGone'
  BY <1>1, <1>2, <1>3
<1>q. QED
  BY <1>4, <1>5, <1>6, <1>7

LEMMA Loses == ASSUME IInv, SendFails PROVE IInv'
<1>1. /\ At("report") /\ exec' = Idle
      /\ outbox' = outbox \/ outbox' = outbox \cup {Result}
      /\ UNCHANGED <<data, written, store, admirald, history>>
  BY DEF SendFails
<1>2. /\ Result \in Outcome /\ Result.of = Now /\ Result.task = exec.task
      /\ Result.ok = exec.ok
      /\ exec.ok = TRUE => Result.sum = exec.got
  BY DEF Result
<1>3. TypeOK' /\ Staged'
  BY <1>1, <1>2 DEF Idle
<1>4. Ordered'
  BY <1>1, <1>2 DEF Idle
<1>5. Told'
  BY <1>1, <1>2 DEF Idle
<1>q. QED
  BY <1>1, <1>3, <1>4, <1>5

LEMMA Asks == ASSUME IInv, NEW b \in Backup, Ask(b) PROVE IInv'
<1>1. \/ status[b] = "new" /\ status' = [status EXCEPT ![b] = "backup"]
      \/ /\ status[b] \in {"stored", "kept"}
         /\ status' = [status EXCEPT ![b] = "delete"]
  BY DEF Ask
<1>2. UNCHANGED <<data, written, store, sum, outbox, exec, history>>
  BY DEF Ask
<1>3. Ordered'
  BY <1>1, <1>2
<1>4. Told'
  BY <1>1, <1>2
<1>q. QED
  BY <1>1, <1>2, <1>3, <1>4

LEMMA Begins == ASSUME IInv, NEW b \in Backup, Begin(b) PROVE IInv'
<1>1. PICK task \in Task, want \in {sum[b], Nothing} :
        /\ status[b] \in IF task = "restore" THEN {"stored", "kept"} ELSE {task}
        /\ exec' = [task |-> task, of |-> b,
                    pc |-> CASE task = "delete"  -> "remove"
                             [] task = "restore" -> "fetch"
                             [] task = "backup"  ->
                                  IF b \in Volume THEN "create" ELSE "collect",
                    got |-> Nothing, want |-> want, ok |-> FALSE]
        /\ again' = again \cup (IF task = "backup" THEN {b} \cap made ELSE {})
  BY DEF Begin
<1>2. UNCHANGED <<data, written, store, admirald, outbox, made, unread>>
  BY DEF Begin
<1>3. /\ exec'.of = b /\ exec'.task = task /\ exec'.ok = FALSE
      /\ exec'.got = Nothing /\ exec'.want = want
      /\ exec'.pc \in {"remove", "fetch", "create", "collect"}
      /\ exec'.pc = "remove" => task = "delete"
      /\ exec'.pc = "fetch" => task = "restore"
      /\ exec'.pc = "create" => task = "backup" /\ b \in Volume
      /\ exec'.pc = "collect" => task = "backup"
  <2>1. CASE task = "delete"
    BY <1>1, <2>1
  <2>2. CASE task = "restore"
    BY <1>1, <2>2
  <2>3. CASE task = "backup" /\ b \in Volume
    BY <1>1, <2>3
  <2>4. CASE task = "backup" /\ b \notin Volume
    BY <1>1, <2>4
  <2>q. QED
    BY <2>1, <2>2, <2>3, <2>4
<1>4. TypeOK' /\ Staged'
  BY <1>1, <1>2, <1>3
<1>5. Ordered'
  BY <1>1, <1>2, <1>3
<1>6. Told' /\ StoredAsReported' /\ DeletedIsGone'
  BY <1>1, <1>2, <1>3
<1>q. QED
  BY <1>4, <1>5, <1>6

(* Steps that change neither store nor what a result may say.              *)
LEMMA Ends ==
  ASSUME IInv, Crash \/ HelperDies \/ CreateFails \/ Refuse
  PROVE  IInv'
<1>1. UNCHANGED <<data, written, store, admirald, outbox, history>>
  BY DEF Crash, HelperDies, CreateFails, Refuse
<1>2. exec' = Idle \/ exec' = [exec EXCEPT !.pc = "report", !.ok = FALSE]
  BY DEF Crash, HelperDies, CreateFails, Refuse
<1>3. CASE exec' = Idle
  BY <1>1, <1>3 DEF Idle
<1>4. CASE exec' = [exec EXCEPT !.pc = "report", !.ok = FALSE] /\ ~At("idle")
  <2>1. /\ exec'.pc = "report" /\ exec'.ok = FALSE
        /\ exec'.task = exec.task /\ exec'.of = exec.of
    BY <1>4
  <2>2. TypeOK' /\ Staged'
    BY <1>1, <1>4, <2>1
  <2>3. Ordered' /\ Told'
    BY <1>1, <1>4, <2>1
  <2>4. StoredAsReported' /\ DeletedIsGone'
    BY <1>1
  <2>q. QED
    BY <2>2, <2>3, <2>4
<1>5. ~At("idle")
  BY DEF Crash, HelperDies, CreateFails, Refuse
<1>q. QED
  BY <1>2, <1>3, <1>4, <1>5

LEMMA Changes == ASSUME IInv, Change PROVE IInv'
<1>1. /\ written' = written + 1 /\ data' = written + 1 /\ written < MaxData
      /\ UNCHANGED <<store, admirald, outbox, exec, history>>
  BY DEF Change
<1>q. QED
  BY <1>1

LEMMA Collects == ASSUME IInv, Collect PROVE IInv'
<1>1. PICK got \in State :
        exec' = [exec EXCEPT !.got = got,
                   !.pc = IF Now \in Volume THEN "finish" ELSE "create"]
  <2>1. PICK mixed \in {0, 1} :
          /\ written + mixed <= MaxData /\ written' = written + mixed
          /\ exec' = [exec EXCEPT
               !.got = IF mixed = 1 THEN written' ELSE data,
               !.pc = IF Now \in Volume THEN "finish" ELSE "create"]
    BY DEF Collect
  <2>2. (IF mixed = 1 THEN written' ELSE data) \in State
    BY <2>1
  <2>q. QED
    BY <2>1, <2>2
<1>2. /\ At("collect") /\ written' \in State
      /\ UNCHANGED <<data, store, admirald, outbox, history>>
  BY DEF Collect
<1>3. CASE Now \in Volume
  <2>1. exec' = [exec EXCEPT !.got = got, !.pc = "finish"]
    BY <1>1, <1>3
  <2>q. QED
    BY <1>2, <1>3, <2>1
<1>4. CASE Now \notin Volume
  <2>1. exec' = [exec EXCEPT !.got = got, !.pc = "create"]
    BY <1>1, <1>4
  <2>q. QED
    BY <1>2, <1>4, <2>1
<1>q. QED
  BY <1>3, <1>4

(* A backup in the making touches no copy that a result vouches for.       *)
LEMMA Makes ==
  ASSUME IInv, exec.task = "backup", exec.pc \notin {"idle", "report"},
         TypeOK', Staged', exec'.of = Now, exec'.task = "backup",
         exec'.pc # "idle",
         \A b \in Backup \ {Now} : file'[b] = file[b] /\ object'[b] = object[b],
         UNCHANGED <<admirald, outbox, again>>,
         unread \subseteq unread',
         \/ exec'.pc # "report" /\ made' = made
         \/ /\ exec'.pc = "report" /\ made' \in {made, made \cup {Now}}
            /\ Accurate(Now, exec.task, exec.ok, exec.got)'
  PROVE  IInv'
<1>1. Ordered'
  OBVIOUS
<1>2. Told'
  <2>1. ASSUME NEW r \in outbox PROVE Accurate(r.of, r.task, r.ok, r.sum)'
    <3>1. CASE r.of = Now
      BY <3>1
    <3>2. CASE r.of # Now
      BY <3>2
    <3>q. QED
      BY <3>1, <3>2
  <2>2. outbox' = outbox
    OBVIOUS
  <2>q. QED
    BY <2>1, <2>2
<1>3. StoredAsReported' /\ DeletedIsGone'
  OBVIOUS
<1>q. QED
  BY <1>1, <1>2, <1>3

LEMMA Creates == ASSUME IInv, Create PROVE IInv'
<1>1. /\ exec.pc = "create" /\ file' = [file EXCEPT ![Now] = Torn]
      /\ UNCHANGED <<data, written, object, admirald, outbox, history>>
  BY DEF Create
<1>2. exec' = [exec EXCEPT !.pc = IF Now \in Volume THEN "collect" ELSE "finish"]
  BY DEF Create
<1>3. CASE Now \in Volume
  <2>1. exec' = [exec EXCEPT !.pc = "collect"]
    BY <1>2, <1>3
  <2>2. TypeOK' /\ Staged'
    BY <1>1, <2>1
  <2>q. QED
    BY <1>1, <2>1, <2>2, Makes
<1>4. CASE Now \notin Volume
  <2>1. exec' = [exec EXCEPT !.pc = "finish"]
    BY <1>2, <1>4
  <2>2. TypeOK' /\ Staged'
    BY <1>1, <1>4, <2>1
  <2>q. QED
    BY <1>1, <2>1, <2>2, Makes
<1>q. QED
  BY <1>3, <1>4

LEMMA Finishes == ASSUME IInv, Finish PROVE IInv'
<1>1. /\ exec.pc = "finish" /\ file' = [file EXCEPT ![Now] = exec.got]
      /\ UNCHANGED <<data, written, object, admirald, outbox, again, unread>>
  BY DEF Finish
<1>2. CASE Now \in Remote
  <2>1. exec' = [exec EXCEPT !.pc = "upload"] /\ made' = made
    BY <1>2 DEF Finish
  <2>2. TypeOK' /\ Staged'
    BY <1>1, <1>2, <2>1
  <2>q. QED
    BY <1>1, <2>1, <2>2, Makes
<1>3. CASE Now \notin Remote
  <2>1. /\ exec' = [exec EXCEPT !.pc = "report", !.ok = TRUE]
        /\ made' = made \cup {Now}
    BY <1>3 DEF Finish, Succeed
  <2>2. TypeOK' /\ Staged'
    BY <1>1, <2>1
  <2>3. Accurate(Now, exec.task, exec.ok, exec.got)'
    BY <1>1, <1>3, <2>1
  <2>q. QED
    BY <1>1, <2>1, <2>2, <2>3, Makes
<1>q. QED
  BY <1>2, <1>3

LEMMA Uploads == ASSUME IInv, Upload \/ UploadUnread PROVE IInv'
<1>1. /\ exec.pc = "upload"
      /\ exec' = [exec EXCEPT !.pc = "report", !.ok = TRUE]
      /\ made' = made \cup {Now}
      /\ UNCHANGED <<data, written, file, admirald, outbox, again>>
  BY DEF Upload, UploadUnread, Succeed
<1>2. \/ object' = [object EXCEPT ![Now] = file[Now]] /\ unread' = unread
      \/ object' = [object EXCEPT ![Now] = Torn] /\ unread' = unread \cup {Now}
  BY DEF Upload, UploadUnread
<1>3. TypeOK' /\ Staged'
  BY <1>1, <1>2
<1>4. Accurate(Now, exec.task, exec.ok, exec.got)'
  BY <1>1, <1>2
<1>q. QED
  BY <1>1, <1>2, <1>3, <1>4, Makes

LEMMA BackupFails ==
  ASSUME IInv, CollectFails \/ FinishFails \/ UploadFails PROVE IInv'
<1>1. /\ exec.pc \in {"collect", "finish", "upload"}
      /\ exec' = [exec EXCEPT !.pc = "report", !.ok = FALSE]
      /\ UNCHANGED <<data, written, admirald, outbox, history>>
  BY DEF CollectFails, FinishFails, UploadFails
<1>2. /\ \E c \in Content : file' \in {file, [file EXCEPT ![Now] = c]}
      /\ \E c \in Content : object' \in {object, [object EXCEPT ![Now] = c]}
  BY DEF CollectFails, FinishFails, UploadFails, CloseAndRemove
<1>3. file' \in [Backup -> Content] /\ object' \in [Backup -> Content]
  BY <1>2
<1>4. TypeOK' /\ Staged'
  BY <1>1, <1>3
<1>q. QED
  BY <1>1, <1>2, <1>4, Makes

LEMMA Removes == ASSUME IInv, Remove \/ RemoveFails PROVE IInv'
<1>1. /\ exec.pc = "remove"
      /\ UNCHANGED <<data, written, admirald, outbox, history>>
  BY DEF Remove, RemoveFails
<1>2. \/ exec' = [exec EXCEPT !.pc = "report", !.ok = TRUE] /\ Discard
      \/ /\ exec' = [exec EXCEPT !.pc = "report", !.ok = FALSE]
         /\ Discard \/ UNCHANGED store
  BY DEF Remove, RemoveFails
<1>r. /\ exec'.pc = "report" /\ exec'.task = "delete" /\ exec'.of = exec.of
      /\ exec'.ok \in BOOLEAN /\ exec.task = "delete"
  <2> HIDE DEF Told, Ordered, StoredAsReported, DeletedIsGone, Discard
  <2>q. QED
    BY <1>1, <1>2
<1>3. /\ file' \in {file, [file EXCEPT ![Now] = Nothing]}
      /\ object' \in {object, [object EXCEPT ![Now] = Nothing]}
      /\ Discard => (IF Now \in Remote THEN object' ELSE file')[Now] = Nothing
  BY <1>2 DEF Discard
<1>4. TypeOK' /\ Staged'
  <2>1. file' \in [Backup -> Content] /\ object' \in [Backup -> Content]
    BY <1>3
  <2>2. PICK ok \in BOOLEAN : exec' = [exec EXCEPT !.pc = "report", !.ok = ok]
    BY <1>2
  <2>3. TypeOK'
    BY <1>1, <2>1, <2>2
  <2>4. exec'.pc = "report"
    BY <2>2
  <2>5. Staged'
    BY <2>4
  <2>q. QED
    BY <2>3, <2>5
<1>5. Ordered'
  BY <1>1, <1>r
<1>6. Told'
  <2>1. ASSUME NEW r \in outbox PROVE Accurate(r.of, r.task, r.ok, r.sum)'
    BY <1>1, <1>3
  <2>2. Accurate(Now, exec.task, exec.ok, exec.got)'
    <3>1. exec'.ok = TRUE => Discard
      <4> HIDE DEF IInv, Discard
      <4>1. exec' = [exec EXCEPT !.pc = "report", !.ok = FALSE]
              => exec'.ok = FALSE
        BY DEF IInv, Told
      <4>q. QED
        BY <1>2, <4>1
    <3>2. exec'.ok = TRUE => (Copy(Now))' = Nothing
      BY <1>3, <1>r, <3>1
    <3>q. QED
      BY <1>r, <3>2
  <2>3. outbox' = outbox
    BY <1>1
  <2>q. QED
    BY <2>1, <2>2, <2>3
<1>7. StoredAsReported' /\ DeletedIsGone'
  BY <1>1, <1>3
<1>q. QED
  BY <1>4, <1>5, <1>6, <1>7

LEMMA Restores ==
  ASSUME IInv, Fetch \/ Verify \/ Apply \/ ApplyFails PROVE IInv'
<1>1. /\ exec.pc \in {"fetch", "verify", "apply"}
      /\ UNCHANGED <<store, admirald, outbox, history>>
  BY DEF Fetch, Verify, Apply, ApplyFails
<1>2. CASE Fetch
  <2>1. exec' = [exec EXCEPT !.pc = "verify", !.got = Copy(Now)]
    BY <1>2 DEF Fetch
  <2>2. Copy(Now) \in Content /\ UNCHANGED <<data, written>>
    BY <1>2 DEF Fetch
  <2> HIDE DEF Copy
  <2>3. TypeOK' /\ Staged'
    BY <1>1, <2>1, <2>2
  <2> USE DEF Copy
  <2>q. QED
    BY <1>1, <2>1, <2>3
<1>3. CASE Verify
  <2>1. /\ exec' = [exec EXCEPT !.pc = "apply"]
        /\ exec.want \in {Nothing, Artifact} /\ UNCHANGED <<data, written>>
    BY <1>3 DEF Verify
  <2>q. QED
    BY <1>1, <2>1
<1>4. CASE Apply
  <2>1. /\ exec' = [exec EXCEPT !.pc = "report", !.ok = TRUE]
        /\ exec.pc = "apply"
        /\ data' = Artifact /\ Artifact \in State /\ written' = written
    BY <1>4 DEF Apply
  <2>q. QED
    BY <1>1, <2>1
<1>5. CASE ApplyFails
  <2>1. /\ exec' = [exec EXCEPT !.pc = "report", !.ok = FALSE]
        /\ exec.pc = "apply"
        /\ written' \in State /\ data' = written'
    BY <1>5 DEF ApplyFails
  <2>q. QED
    BY <1>1, <2>1
<1>q. QED
  BY <1>2, <1>3, <1>4, <1>5

LEMMA Stutters == ASSUME IInv, UNCHANGED vars PROVE IInv'
  BY DEF vars

THEOREM Invariant == Spec => []IInv
<1>1. ASSUME IInv, [Next]_vars PROVE IInv'
  BY <1>1, Flushes, Sends, Loses, Asks, Begins, Ends, Changes, Collects,
     Creates, Finishes, Uploads, BackupFails, Removes, Restores, Stutters, Zenon
     DEF Next, Working, Failing
<1> HIDE DEF IInv
<1>q. QED
  BY Initially, <1>1, PTL DEF Spec

(* Type correctness, and that an upload starts from a complete file.       *)
THEOREM TypeCorrect == Spec => []TypeOK
  BY Invariant, PTL DEF IInv

(* What executor_backup.go reports of a backup is what is stored, unless a *)
(* repeated or an unread backup is excepted by StoredAsReported.           *)
THEOREM Stored == Spec => []StoredAsReported
  BY Invariant, PTL DEF IInv

(* deleteBackup: a deleted backup is not in its storage.                   *)
THEOREM Deleted == Spec => []DeletedIsGone
  BY Invariant, PTL DEF IInv

(* applyRestoreArtifact verifies the very copy that it applies.            *)
THEOREM Restored == Spec => RestoresReported
<1>1. ASSUME IInv, [Next]_vars, At("apply"), exec'.ok
      PROVE  Apply \/ UNCHANGED vars
  <2>1. exec.ok = FALSE /\ exec.pc = "apply" /\ exec.task = "restore"
    BY <1>1
  <2>2. exec' # exec /\ exec'.ok # FALSE
    <3>1. exec'.ok # FALSE
      BY <1>1, Zenon
    <3>q. QED
      BY <2>1, <3>1
  <2>3. ASSUME NEW b \in Backup, Ask(b) \/ Begin(b) PROVE FALSE
    BY <2>1, <2>2, <2>3 DEF Ask, Begin
  <2>4. ASSUME NEW r \in outbox, Flush(r) PROVE FALSE
    BY <2>2, <2>4 DEF Flush
  <2>5. ~Change
    BY <2>2 DEF Change
  <2>6. ~Collect /\ ~Create /\ ~Finish /\ ~Upload /\ ~Remove /\ ~Fetch /\ ~Send
    BY <2>1 DEF Collect, Create, Finish, Upload, Remove, Fetch, Send
  <2>7. ~SendFails /\ ~CollectFails /\ ~CreateFails /\ ~FinishFails
        /\ ~UploadUnread /\ ~UploadFails /\ ~RemoveFails
    BY <2>1 DEF SendFails, CollectFails, CreateFails, FinishFails, UploadUnread,
      UploadFails, RemoveFails
  <2>8. ASSUME Verify PROVE exec'.ok = FALSE
    BY <1>1, <2>1, <2>8 DEF Verify
  <2>9. ASSUME Crash PROVE exec'.ok = FALSE
    BY <2>9 DEF Crash, Idle
  <2>10. ASSUME Refuse \/ HelperDies \/ ApplyFails PROVE exec'.ok = FALSE
    <3>1. exec' = [exec EXCEPT !.pc = "report", !.ok = FALSE]
      BY <2>10 DEF Refuse, HelperDies, ApplyFails
    <3>q. QED
      BY <1>1, <3>1
  <2>q. QED
    BY <1>1, <2>2, <2>3, <2>4, <2>5, <2>6, <2>7, <2>8, <2>9, <2>10, Zenon
    DEF Next, Working, Failing
<1>2. ASSUME IInv, Apply, exec.want # Nothing
      PROVE  data' = exec.want
  BY <1>2 DEF Apply
<1>3. IInv /\ [Next]_vars =>
        [At("apply") /\ exec'.ok /\ exec.want # Nothing
           => data' = exec.want]_vars
  BY <1>1, <1>2
<1>4. HIDE DEF IInv, At, Nothing
<1>q. QED
  BY <1>3, Invariant, PTL DEF Spec, RestoresReported

-----------------------------------------------------------------------------
(* How far a task has come.  Volumes are archived into a file that is      *)
(* created first, a database is dumped before.                             *)
Position ==
  CASE exec.pc = "collect" -> IF Now \in Volume THEN 1 ELSE 0
    [] exec.pc = "create"  -> IF Now \in Volume THEN 0 ELSE 1
    [] exec.pc = "finish"  -> 2
    [] exec.pc = "upload"  -> 3
    [] exec.pc \in {"idle", "remove", "fetch"} -> 0
    [] exec.pc = "verify"  -> 1
    [] exec.pc = "apply"   -> 2
    [] exec.pc = "report"  -> 4

Further == exec'.pc = "idle" \/ Position' > Position

(* No step of a task, failed or not, is one it has taken before: a backup, *)
(* a deletion and a restore come to an end, whatever fails.                *)
THEOREM TasksGoOn == Spec => [][Working \/ Failing => Further]_vars
<1>1. ASSUME TypeOK, Working \/ Failing PROVE Further
  <2>1. CASE Send \/ SendFails \/ Crash
    <3>1. exec'.pc = "idle"
      BY <2>1 DEF Send, SendFails, Crash, Idle
    <3>q. QED
      BY <3>1 DEF Further
  <2>2. CASE \E ok \in BOOLEAN : Done(ok) /\ exec.pc \notin {"idle", "report"}
    <3>1. exec'.pc = "report" /\ exec.pc \notin {"idle", "report"}
      BY <1>1, <2>2
    <3>q. QED
      BY <1>1, <3>1 DEF Further, Position
  <2>3. CASE Collect
    <3>1. /\ exec.pc = "collect" /\ exec'.of = exec.of
          /\ exec'.pc = IF Now \in Volume THEN "finish" ELSE "create"
      BY <1>1, <2>3 DEF Collect
    <3>q. QED
      BY <3>1 DEF Further, Position
  <2>4. CASE Create
    <3>1. /\ exec.pc = "create" /\ exec'.of = exec.of
          /\ exec'.pc = IF Now \in Volume THEN "collect" ELSE "finish"
      BY <1>1, <2>4 DEF Create
    <3>q. QED
      BY <3>1 DEF Further, Position
  <2>5. CASE Finish
    <3>1. exec.pc = "finish" /\ exec'.pc \in {"upload", "report"}
      BY <1>1, <2>5, Zenon DEF Finish, Succeed
    <3>q. QED
      BY <3>1 DEF Further, Position
  <2>6. CASE Fetch \/ Verify
    <3>1. <<exec.pc, exec'.pc>> \in {<<"fetch", "verify">>, <<"verify", "apply">>}
      BY <1>1, <2>6 DEF Fetch, Verify
    <3>q. QED
      BY <3>1 DEF Further, Position
  <2>7. CASE Upload \/ Remove \/ Apply \/ Refuse
    BY <2>2, <2>7 DEF Upload, Succeed, Remove, Apply, Refuse
  <2>8. CASE HelperDies \/ CollectFails \/ CreateFails \/ FinishFails
              \/ UploadUnread \/ UploadFails \/ RemoveFails \/ ApplyFails
    BY <2>2, <2>8 DEF HelperDies, CollectFails, CreateFails, FinishFails,
      UploadUnread, Succeed, UploadFails, RemoveFails, ApplyFails
  <2>q. QED
    BY <1>1, <2>1, <2>3, <2>4, <2>5, <2>6, <2>7, <2>8 DEF Working, Failing
<1>2. IInv /\ [Next]_vars => [Working \/ Failing => Further]_vars
  BY <1>1
<1> HIDE DEF IInv
<1>q. QED
  BY <1>2, Invariant, PTL DEF Spec
=============================================================================
