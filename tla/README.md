# Admiral Fleet in TLA+

Admiral Fleet is the agent that runs on every node of an Admiral installation. It
claims signed commands from `admirald`, carries them out with Podman, Quadlet and
the systemd user manager, keeps results that could not be delivered in an outbox
directory, watches the workloads and reports their health. The modules here model
those parts whose correctness depends on the order of events: several goroutines,
lost answers, crashes, restarts of managers, steps that fail half way.

Every definition is translated from the source; `PROJECT.json` (`map`) gives the
lines each one stands for. What belongs to `admirald`, Podman, systemd or the
kernel is marked external there and is modelled by what the agent can see of it.

## The system

| Part | State | Operations | Interacts with |
| --- | --- | --- | --- |
| Claim loop (`cmd/admiral-fleet/main.go`, `agent.go`) | `seenTasks`, the task in hand | `ClaimTaskContext`, `ReportRunning`, `StartLeaseRenewer`, `HandleTaskContext` | admirald over HTTP, executor by call, outbox |
| Outbox (`outbox.go`) | one file per undelivered result | `enqueue`, `flush`, `StartOutboxFlusher`, shutdown flush | claim loop and flusher share the directory |
| Workload health (`health.go`, `agent.go`) | last manager seen, two tickers | `StartHealthChecker`, `checkAllPods`, `reportUnavailableQuadletPods`, `Reconcile` | Podman, systemd, admirald; checker and reconciler run concurrently |
| Storage usage checker (`health.go`, `executor_storage.go`) | none between passes | `StartStorageChecker` | Podman, admirald |
| Heartbeat, image puller (`heartbeat.go`, `image_puller.go`) | none that matters | periodic posts and pulls | admirald, Podman |
| Executor dispatch (`systemd_podman.go`, `executor.go`) | none | `Execute`: one task to one operation | claim loop |
| Provisioning (`executor_provision.go`) | `ports.json`, `next_port`, `tier.json`, `healthchecks.json`, `setup_done` | `provision`, `allocateHostPorts`, `runSetupCommands`, `failProvisionReadiness` | renderer, systemd, Podman, deprovision |
| Deprovisioning (`executor_deprovision.go`) | - | `deprovision` | systemd, Podman, renderer |
| Start, stop, resize (`executor_lifecycle.go`, `executor_inspect.go`) | - | `start`, `stop`, `resize` with its rollback | renderer, systemd, Podman |
| Backup and restore (`executor_backup.go`, `executor_restore.go`, `executor_helper.go`, `admiral-fleet-backup`) | staged files, S3 objects | `backupDatabase`, `backupVolumes`, `deleteBackup`, `restoreBackup` | Podman, S3, the backup helper process |
| Quadlet renderer (`quadlet/renderer.go`) | the Quadlet directory | `Render`, `Remove` | executor |
| systemd client (`systemd/`) | - | start, stop, reload, a time limit on each | executor, health |
| Podman clients, rootless helpers (`podman/`, `helper/`, `rootlessprotocol/`) | - | Podman commands, run here or by a helper | executor, health |
| HTTP server, configuration, S3 client, validation (`http.go`, `config/`, `storage/`, `security/`) | - | status page, environment, object transfer, string predicates | - |

Hard behaviours and what makes each part correct:

- **Outbox.** Two goroutines flush and one enqueues without a lock. A result must
  not leave the directory before admirald has it; the directory stays within its
  limit; stored results go out oldest first and every one goes out in the end.
- **Claiming.** Signatures are valid for a window and remembered for a window; one
  process must not execute a signed offer twice; every task must come to an end
  although answers and renewals get lost or come late.
- **Health.** An observation is older than its report. After the manager stopped or
  changed, nothing may stand as healthy that was not probed after the change.
- **Ports.** A counter file and one file per instance are written non-atomically:
  two instances must never publish the same host port.
- **Neighbours.** Instances share one Quadlet directory and one Podman; what keeps
  them apart is their names, which are compared by prefix in four places. A task of
  one must leave the others, and what is said of them, alone.
- **Storage.** The checker measures volumes while tasks provision and remove; what it
  reports must belong to the instance it is reported for, and lasting excess must
  come to be known.
- **Provisioning and removal.** Every step may fail, with or without its effect, and
  tasks are repeated: setup must not be run on data it was run on, what is left must
  remain removable, and a reported removal must be one.
- **Start, resize, restore.** A half-done change of a running application must be
  undone or reported; a restore must not write under a running server.
- **Backup.** What was uploaded, what is kept locally and what was reported must
  agree under every failing step. An archive is made from volumes that are being
  written, and put back through a map of user ids, over what is there.

`PROJECT.json` lists the hazards one by one, at their lines.

## Plan

1. `ResultDelivery`, `Outbox` - done.
2. `HostPorts` - done.
3. `WorkloadHealth` - done.
4. `TaskClaim` - done.
5. `Workload` (Quadlet files, units and pod, shared by the executor's modules) and
   `Provision` - done.
6. `Update` over `Workload`: start with image verification, resume, update, stop,
   resize with its rollback, restore with its pause - done.
7. `BackupStore`: backup, deletion and restore artifacts with object storage and the
   helper - done.
8. `Node` over `HostPorts`: several instances, their names and the globs and
   prefixes by which they are found - done.
9. `StorageUsage` over `Node`: the storage checker beside the tasks - done.
10. `VolumeArchive`: the archive of volumes and its way back - done.
11. `PortLeases` above `HostPorts`, and `Lifecycle`, which puts the tasks of
    `Provision` and `Update` together - done.

A possible extension is the life of a command as `admirald` sees it, with `TaskClaim`
and `Outbox` composed around one executor. Each of the two already has the claim
loop's part in it (a task that is accepted, run and answered there; a result that is
handed over here), and the product of their states is beyond TLC in minutes.

## Modules

An `MC` module extends its specification and gives sets to TLC; a `.cfg` gives the
bounds; a `_proofs` module extends the specification and TLAPS. Definitions
introduced by "Wrong variant" are the mistakes a change of the code could make;
nothing in a specification refers to them. They exist to show that a property can
fail: with the variant put in place of the action it stands before, TLC finds the
property violated.

### ResultDelivery and Outbox

`ResultDelivery` promises: a result is executed, then delivered, stored or lost; a
stored one is delivered (perhaps again), withdrawn, or lost; nothing that admirald
has is taken back.

`Outbox` is the directory and its users. `files` holds what each file contains
(absent, torn - created and not yet written - or whole); `loop` is the claim loop
(`HandleTaskContext`, and its inline flush), `flusher` the goroutine of
`StartOutboxFlusher`; each flush holds its own listing and goes through it file by
file. `os.WriteFile` is two steps, creation and content, since nothing stops a
flush from reading in between. `Crash` ends every goroutine where it is; `Interrupt`
cancels the context, after which the loop runs its last flush (`Exit`). The process
is stopped or dies at most `MaxStops` times. The byte limit of `enqueue` acts like
the item limit and is not modelled beside it.

Properties: `OutboxBounded` (the count is checked one step before the creation, with
the flusher in between), `StoredInOrder`, `StoredUntilAccepted`, the refinement
`ImplementsDelivery`, and the liveness `StoredEventuallyLeaves`.

### HostPorts and PortLeases

`PortLeases` promises: an instance leases all the ports it needs at once, from what
nobody holds, and gives them back at once; leases overlap or are replaced only after
`Break`.

`next` is the file `next_port` (a number or torn), `file` each instance's
`ports.json`. `Choose` is `allocateHostPorts` up to its first write, `Truncate` and
`Persist` the two steps of writing the counter, `Store` the write of `ports.json`.
A failed write leaves the counter truncated or old. An unreadable counter starts the
range again (`NextPort`), and any error of a read counts as an absent file
(`Misread`), which is why the properties except both: `torn` remembers that one of
them has happened. `ImplementsLeases` says that the
files `ports.json` live as leases, whatever crashes and fails half way; that a retried
provision finds the ports it had (`PortsKept`) is a part of it. The module is checked as a part of `Node`, which is
proved to implement it (`HostPortsSpec`).

### Node

Instances side by side. The executor runs one task at a time (`job`), at the grain of
what other instances can notice: ports, the pod file with its published ports and
`tier.json`, the other files, secrets, the start, and on the way down Podman's
objects, the files, the directory. `quadlet` and `podman` say which instance's task
made a file or an object; `publish` what a pod file publishes; `tier` which
directories hold a limit. Any step may fail half way, and the agent may die.

Names are sequences of characters: `SafeName` replaces what is not allowed, `Under`
joins instance and part with a dash. Both lose information, so ids that differ can
lead to the same or to continuing names, and the code compares by prefix: `Matching`
is the glob of `Remove` (the instance's name and a star, without a dash), `Declared`
the pattern of the health check (with a dash), `VolumesFor` the prefix of the storage
checker (without). `Gone` is what removal commands take: the pod's containers, those
that mount a removed volume, and everything by name.

Properties. `KeptUnlessRelated`: what is done for one instance, through failures and
crashes, leaves another one's files, pod, volumes and secrets alone until its own
removal begins. `HealthIsOwn`: an instance whose containers run is judged healthy by
them alone. `PublishedDistinct`: pod files never publish a common port. The first two
except exactly the ids whose names begin alike (`Related`; for health only those that
continue after a dash), because there the code does interfere: the run contains such
ids, and without the exceptions both fail.

### StorageUsage

`Node` with the goroutine of `StartStorageChecker` (`check`) beside it: list pod
files, then for each name read the limit, find a volume, measure it, post. A task may
take any step in between, so a limit may be there and the volume gone when it is
measured, or the other way round. `use` is how full each volume is, `posted` what
admirald holds. `CallFails`, `PostFails` and `AgentDies` are its failures.
`UsageIsOwn`: what is posted for a name was measured on a volume of that instance or
of one whose name begins like it (the checker goes by prefixes). `ExcessReported`:
storage that stays over quota is in the end reported so, and for good, once calls
stop failing, whatever was measured too early or posted too late before.

### WorkloadHealth

Checker and reconciler are goroutines of one shape: they list (pods, then
containers), evaluate instance by instance, and post. `manager`, `podman` and `pods`
are the environment. `view` is what admirald was told last. Time is counted in ticks
of the checker: `quiet` since the last manager change, `due` until the next probe.
The outcome of a declared check (HTTP, TCP, command) is one nondeterministic fact
about the pod. `Withdrawn`: while the checker holds back, nothing it said stands as
healthy. `ProbeWaits`: the first probe after a change comes a full interval later,
although a tick may already have been waiting. `Converges`: a pod that stays as it
is comes to be shown as it is.

### TaskClaim

admirald offers signed commands (`Offer`), perhaps again, with clocks apart by at
most `Ahead`. `ClaimTaskContext` reads the clock twice. `verifyTaskSignature`
(`ClaimVerify`, `ClaimInvalid`) takes the age of the signature (`age`) by the wall
clock, which may be set (`ClockForward`, `ClockBack`); `rememberTask` (`Remember`,
`Refuse`) takes that of what it accepted before (`seen`) later, and Go compares those
readings by the monotonic clock, which setting the other does not change. Ages are
relative: `Tick` makes every age grow, between any two steps, also between these two.
History: `used` has the offers this process accepted, `again` says that one of them
is in hand, `held` how long ago it was checked.

`OncePerSignature`: one process accepts one signed offer once, to the tick of the two
windows, with exactly these exceptions, which the code has. More time passes between
check and look than the signature was old at first (`held > used[cur].was`: an offer
that was accepted as soon as it was signed, checked again on the last tick and then
held up is accepted twice). The
signature was dated later than the node's clock. The clock was set back since.
`EveryTaskCloses`: every task is carried out in the end, also one that was accepted
and dropped because `ReportRunning` failed.

### Workload

`Workload` is one instance on the node: a `.pod` file and a `.container` file per
service, the units systemd generated from them, the pod and its containers, each as
the payload it was made from. Its operators are the commands of the systemd client
and the renderer. A command runs as a subprocess under a time limit; its output is
awaited, so a command that timed out has had its effect, or has not, when it returns.
`ManagerRestart` generates units anew and starts what `default.target` wants. `Sound`
is what every task relies on and leaves: no container file, unit or container without
its pod's.

### Provision

One task at a time goes through the steps of `provision`, `deprovision` and `stop`
(`exec.pc`), for an application that has a setup command. Volumes, secrets, the
instance directory, the marker `setup_done` and admirald's `setup_completed` are its
state. `ProvisionFails` gathers the failing returns of `provision`, each with the
effects it may leave; the failing returns of `deprovision` are actions of their own
because their treatment differs (errors are collected first, and only then end the
task). `failProvisionReadiness` is the transition from `ready` to `stop`. History
variables: `late` (the user manager was restarted during a removal), `exec.found`
(the task found a pod and marked data).

`SourcesKept`: whatever is left in Podman has its `.pod` file and directory, so a
removal can be tried again. `SetupOnce`: setup is not run on marked data.
`CleanUnlessLate`: a reported removal left nothing. `RemovalCompletes`: a removal
that is asked for again completes.

### Update

The tasks of an instance that is provisioned: `start`, `resume`, `update` (`start`
with `VerifyImages`), `stop`, `resize`, and restores of volumes (`restore`) and of a
database dump (`load`). `paused` is the set of frozen containers (`podman pod pause`
freezes one after the other, so a failure leaves some), `vol` what the latest restore
made of each volume. The actions are named after the commands: `Inspect`, `Unpause`,
`Verify`, `RenderFiles`, `Halt`, `Reload`, `StartPod`, `Report` for starts;
`Exists`, `Rollback` for resize; `Wake` (a check that fails counts as an absent
container), `Fetch`, `StopOwner`, `Extract`,
`StartOwner`, `HelperPause`, `AgentPause` for restores, where the last two are the
pause of the helper and the one of the agent. Actions ending in `Fails` are the
failing returns. History: `exec.mixed` (the task met a pod frozen in part) and
`exec.late` (the user manager was restarted during the task).

`UpToDate`: when an update or resize has started the pod, none of its containers is
from an earlier payload. `WriteAlone`: no server runs on a volume being extracted.
`RestoredAndPaused`: a restore that reports success is complete and frozen.
`UnfrozenUnlessMixed`: a resume that reports success leaves nothing frozen.
`UpdateCompletes`: updates that are asked for again bring the application up, from
whatever earlier tasks left.

### Lifecycle

`Provision` and `Update` each follow one kind of task on an instance. `Execute` hands
both kinds to one executor, one at a time, and `Lifecycle` is that: `Making` is a step
of `Provision`, `Keeping` one of `Update`, on one node. Each module also has an
`OpenSpec`, in which `OtherTask` may change the node between two tasks: in `Update` to
any `Sound` state with any containers frozen, in `Provision` as far as the tasks of
`Update` do (render, start, bring up volumes, but mark nothing). `Provision_proofs`
shows that `LifecycleSpec` implements both, so what each module promises holds of an
instance with all its tasks. The product has no run of its own: TLC explores it with
one service and one payload, in more time than a run here takes. Data that a restore
put in place are not told from other data, so `SetupOnce` speaks of the marker only.

### BackupStore

One file per backup below `backups/` (`file`), for remote storage an object as well
(`object`), and what admirald wants and was told (`status`, `sum`). Contents are told
apart by the state of the application they were taken from, and so are checksums
(`verifyRestoreChecksum` also accepts the one of the unpacked artifact, of the same
content, so `Verify` has one); a
mixture of two states, which a walk over live volumes can give, is a content of its
own. Databases are dumped before the file is opened, volumes are archived into the
open file: `Collect` and `Create` in one order or the other, then `Finish` (close),
`Upload`. `UploadUnread` is the ignored error of reading the file back. `Remove` is
`deleteBackup`; `Fetch`, `Verify`, `Apply` the data path of a restore. `Refuse`
gathers the ways an artifact is missing, not what was asked for, or unusable. Results
may wait in the outbox or be lost, and commands are then repeated. History: `made`
and `again` (begun again after it had succeeded), `unread`.

`StoredAsReported`: what admirald takes for stored is there with the checksum it was
told. Two exceptions are stated in it, because the code allows them: a backup begun
again truncates the file that an earlier result describes, and an object uploaded
without having been read. `RestoresReported`: a restore told the checksum applies
what was reported or nothing. `DeletedIsGone`, `DeletionCompletes`.

### VolumeArchive

What is inside a volume backup, file by file, which `BackupStore` has as one content.
An instance has volumes of one service and shared ones; a backup archives each volume
under a prefix of the service (`Target`), so a shared volume once for each service
that mounts it. `List`, `Look`, `Read`, `Close` are the walk: names are read first,
then each file's header is made from what the walk saw (`exec.head`), and then the
file is read, while services go on writing (`Write`). A restore stops the services
that have volumes (`StopOwner`), goes through the archive for one volume before
anything of it is extracted (`Check`, `Refuse`), extracts over what is there
(`Extract`, `Finish`) and starts the services (`StartOwner`). Owners are mapped from
the host's ids to the namespace's (`HostToContainer`) and back by the kernel
(`ContainerToHost`). `Fails` is a step that fails, with or without its effect, or the
death of the process. `OtherTask` stands for what other tasks do to services,
`ManagerRestart` for the user manager starting them all. History: `still` (nothing
was written since the backup began), `late` (the manager was restarted since).

`ExtractsAlone`: while a volume is extracted none of the services that mount it runs.
`RestoredUnlessDisturbed`: before the first service is started again, every archived
file is in its volume with the owner it had. `OnlyArchived`: nothing else changes,
also when the restore fails. `StillCopy`: a backup during which nothing is written is
a copy. `RestoreCompletes`: restores that are asked for again complete, whatever
earlier ones left. Exceptions, because the code allows them: a restore of one service
leaves other services running that mount a shared volume (`Disturbed`), and `late`.
`ExtractsAlone` and `OnlyArchived` are proved and not run.

## Runs

| Run | Question | Bounds | Result |
| --- | --- | --- | --- |
| `outbox` | what leaves the directory, in which order, under two flushes and crashes, and does every stored result leave | 3 results, limit 2, 2 stops | holds |
| `outbox_loss` | is a persisted result kept until delivered | 2 results, no stop | violated: a flush removes a file that is being written |
| `node` | do instances leave each other alone, are published ports distinct, do allocated ones live as leases | 4 ids that look alike, tasks for 2 of them in a behaviour, 3 ports, 2 failures or deaths | holds |
| `storage` | is what is reported of an instance its own, does lasting excess come to be known | 3 ids, tasks for 2, volumes empty or full, no failing task | holds |
| `health` | is a withdrawn observation withdrawn, does the probe wait, does the view converge | 1 instance, interval 1, 2 manager identities | holds |
| `claim` | is a signed offer accepted once, does every task close | 1 task, window 2, lease 2, signatures dated up to 3 ahead, 2 crashes, the clock set twice by up to 2 | holds |
| `provision` | what do failing tasks leave, is setup run once, does a repeated removal complete | 1 service, 1 payload, 1 manager restart, no bound on tasks, failures, crashes | holds |
| `provision_partial` | does success mean the setup was run | no manager restart | violated: a half-provisioned pod counts as provisioned |
| `provision_again` | does a repeated provision leave volumes alone | no manager restart | violated: an unanswered check of the pod leads to removal |
| `update` | do updates replace, restores write alone, resumes resume, and do repeated updates complete | 2 services, one with a volume, 2 payloads, 1 manager restart, no bound on tasks, failures, crashes | holds |
| `backup` | do report and store agree, does a restore verify, does a repeated deletion complete | 1 of 4 kinds of backup in a behaviour, 2 states of the data, 2 results waiting | holds |
| `volumes` | is what is put back what was archived, and where it was; does a repeated restore complete | 2 services, 2 volumes, one of them shared, 2 paths, 4 files, 2 writes, no bound on tasks, failures, manager restarts | holds |

Why the bounds are enough. Outbox: two files are needed for order and for a full
directory, a third result to be refused; two stops give a crash during a recovery.
Node: `a`, `ab`, `a-b` and `a.b` are all the ways in which the code tells ids apart
or takes one for the other (a continuation, one after a dash, two ids with one
name), and parts are chosen so that two instances also meet in a whole name; what
one task does to a neighbour needs two instances, and a failure of each needs two
failures. One instance needs two ports of three, so that a range straddles its end
and runs out. Storage: `a` has no volume of its own, so that its name leads the
checker to others'; empty and full are the two ends the report tells apart; failing
tasks are already in `node`, and the checker sees of one only files it also sees
between two steps of a task that succeeds. Health: instances share nothing but the
pass that reports them one after the other, so one shows every interleaving of a
report with the manager; two exceed what TLC does in minutes, and the proofs cover
every set. An interval of one tick still tells a full interval from a tick that was
already waiting. Claims: with a window of two ticks, signatures from beyond its one end to beyond
its other, and a clock that is set by less or as much, both ends of both windows are
met before, on and after them, in each order of check, look, tick and setting. What
tasks share is the loop, so others can only hold up the one that is modelled, which
ticks in every state of the loop do; with two, TLC checks `OncePerSignature` with a
window of one tick in half a minute and `EveryTaskCloses` not in the time of a run.
The proof is for every window and every set of tasks. Provisioning and updates:
nothing but the manager's restarts is bounded, and one restart during a task is the
case in question; two services tell a pod frozen in part from a frozen one, two
payloads an old container from a new one. Backups share nothing with each other but
the application's data, so that the interesting behaviours are those of one backup,
repeated, late and deleted, of each of the four kinds (local or remote, database or
volumes); two states of the data tell what was reported from what a repetition made
of it. Volumes: a volume of one service and a shared one, two files in each so that
one can change while the other is read, an id map of two lines, files that differ in
owner, length and kind; two writes are one before and one during a backup, or one
under a restore. The proofs of `Node`, `StorageUsage` and `VolumeArchive` have none
of these bounds. Type correctness of `Node` is a conjunct of the one checked in
`storage`; `DistinctUnlessTorn` and `FreshUnlessTorn`, which `PublishedDistinct` shows
in what is published, and `PortsKept`, which `ImplementsLeases` contains, are proved
and not run.

## Findings

Each violated run states what the repository says of itself, quoted in
`PROJECT.json`, and its counterexample is what the code does:

- `outbox_loss`: `flush` takes a file it cannot decode for corrupt, also one a
  concurrent `enqueue` has only created.
- `provision_partial`: the shortcut for an existing pod does not ask whether the
  provision that created it went through.
- `provision_again`: any error of `pod exists` counts as absence, and the failed
  readiness gate then deprovisions the instance with its volumes.

Met while modelling and not the subject of a run:

- An offer is accepted twice when its signature is checked again at the end of the
  window and `rememberTask` comes so late that the first acceptance is forgotten by
  then, when the node's clock is set back, or when the signature is dated ahead of it
  (the exceptions of `OncePerSignature`; `agent.go:193`, `:220`).
- Any error of `container exists` lets a restore render and start a pod that is there
  without unpausing it (`Wake`); a database restore then fails, since nothing can be
  run in a frozen container, and the pod is paused as after any restore.
- A read error of `ports.json` or `next_port` counts as an absent file: an instance
  gets other ports, or ports are given out again from the start (`Misread`).
- Host ports are never given back, so the range runs out after enough provisions
  (`Exhausted`).
- Instances whose names begin alike share the glob of `Remove`
  (`renderer.go:175`), the pattern of the health check and the prefix of the storage
  checker; ids such as `a-b` and `a.b` have one name. The comment at
  `renderer.go:360` asks for secret names that are unique in the Podman secret store;
  they are so as far as the names of instances and parts are, once joined
  (`KeptUnlessRelated`, `HealthIsOwn`, `UsageIsOwn` state the exceptions).
- The storage limit is read below a fixed `/var/lib/admiral`, in the directory of the
  sanitized name: for an id such as `a.b` no limit is found. `README.md:48`
  documents `ADMIRAL_FLEET_STORAGE_EXCEEDED_ACTION`; the value is stored
  (`agent.go:89`) and not used.
- The invalidation of an observation is sent once and not repeated when it is lost
  (`health.go:179`), until the manager is back and pods are probed (`Converges`).
- The rollback of a resize starts the units whose stop command succeeded; one that
  failed after it took effect stays down until the next start or update.
- `taskTimeout` (`main.go:110`) compares with `provision`, `resize` and `restore`
  where dispatch uses other action names, so those tasks have the default limit.
- Quadlet files are removed after the pod, so a user manager restarted in between
  brings back what a removal then reports as gone (the exception `late` of
  `CleanUnlessLate`).
- Reading a backup file back for its upload ignores the error (the exception `unread`
  of `StoredAsReported`); a backup repeated after its result was delayed overwrites
  what that result describes (the exception `again`).
- The comment at `executor_restore.go:638` says that the containers that own the
  target volumes are stopped; a restore of one service leaves running the others that
  mount a shared volume (`Disturbed`).
- A backup archives links and files longer than a restore accepts; the restore
  refuses them when it comes to their volume, after earlier volumes were replaced and
  with the services stopped (`Refuse`). A restore writes over what is there and
  removes nothing; a shared volume is archived once for each service.

## Fairness

Only the agent's own steps are fair: goroutines run, a task that was begun goes on.
A stopped agent is restarted by systemd. admirald is reachable again and again, so
sends that are tried infinitely often succeed (strong fairness on the successful
outcome). Crashes, lost answers, manager changes and failing commands are never
required to happen, nor to stop, except where a property says "once steps stop
failing" (`RemovalCompletes`, `UpdateCompletes`, `DeletionCompletes`,
`RestoreCompletes`, `ExcessReported`). In `StorageUsage` only the checker is fair, a
goroutine that a ticker wakes: tasks may stop half way or go on for ever beside it.
In `VolumeArchive` a task that was begun goes on; nothing makes a service write. In `TaskClaim`
admirald offers an open task, freshly signed, now and then; `BackupStore` takes from
it that a deletion that keeps waiting is begun in the end.

## Proofs

All proofs are for every value of the constants under the named assumptions
`BoundsAssumption`, `PortsAssumption`, `NodeAssumption`, `UsageAssumption`,
`HealthAssumption`, `ClaimAssumption`, `WorkloadAssumption`, `DataAssumption`,
`BackupAssumption` and `ArchiveAssumption`. They give the constants their types and
non-emptiness; `ArchiveAssumption` also says that the lines of the user namespace map
do not overlap, on either side, which the kernel requires of one.

- `Outbox_proofs`: type correctness, `OutboxBounded`, `StoredInOrder`,
  `StoredUntilAccepted`, and that `Outbox` implements `ResultDelivery`. The
  inductive invariant adds `Numbered` (only executed results are stored or accepted),
  `InHand` (the result in hand has no complete file until its own `enqueue` writes
  it), `Listed` (what a flush has still to read is younger than the file it works on,
  and what it removes as sent was accepted) and `Covered` (a running flush misses no
  complete file older than the last it has read). `TasksGoOn` says that no flush takes
  a file twice or goes round in a circle, whatever the other goroutine does meanwhile,
  and that the claim loop only goes forward until it is ready for the next task. The violated
  `PersistedUntilDelivered` is taken apart: as long as no flush reads a file that
  `enqueue` is writing (`Unraced`), it holds (`PersistedUnlessRaced`), at most one
  executed result is neither delivered nor in a complete file (`AtMostOneAtRisk`), and
  only a result in the hands of the claim loop is ever lost, to the end of the process,
  a full outbox or a failed write (`OnlyInHandIsLost`). `Sending`, `Writing` and
  `Apart` are the invariant behind it.
- `Node_proofs`, first about `HostPorts`: type correctness, `DistinctUnlessTorn`,
  `FreshUnlessTorn`, `PortsKept`, from `Choosing` (chosen ports fit the
  range, and are for an instance that has none, misreads aside), `Above` (the counter, or `next` while
  the file is being written, is above every port in use) and `Disjoint`; that
  `HostPorts` implements `PortLeases`, where every step but the write of `ports.json`
  and the removal of the directory stutters. Then that
  `Node` implements `HostPorts`, with which these carry over, and
  `KeptUnlessRelated`, `PublishedDistinct`, `HealthIsOwn`. Lemmas about names come
  first: what an instance is made of begins with its name (`ObjectNames`), two
  prefixes of one name are prefixes of each other (`Comparable`), so whatever a glob
  finds beside its own belongs to a related instance (`Clash`). The inductive
  invariant adds `Owned` (what exists was made by an instance that had a task, and is
  among its names), `Staged` (what is there at each step of a task) and `Published`
  (a pod file publishes ports of the instance that wrote it). `StorageUsage` takes
  steps of `Node` beside its own, so it implements `Node` (`StorageImplementsNode`) and
  the invariant carries over (`Carried`); `UsageIsOwn` follows from it and what the
  checker has in hand.
- `WorkloadHealth_proofs`: type correctness, `Withdrawn`, `ProbeWaits`, from `Ticking`
  (time since the change and time to the probe add up to an interval at least),
  `InStep` and `Withholds`.
- `TaskClaim_proofs`: type correctness and `OncePerSignature`, from `Traced` (an
  accepted offer whose signature is still valid is remembered, and has aged by the
  wall clock at least as much as the memory of it) and `Checked` (while such an offer
  is in hand, the memory of it is beyond the window by no more than the time since
  the check).
- `Provision_proofs`: type correctness, `SourcesKept`, `SetupOnce` and
  `CleanUnlessLate`. None is inductive; `Tasked` ties a step to its task, `Rooted`
  container files to the `.pod` file, `Housed` files to the directory, `Placed` says what exists at each step of the way up and
  `Swept` what is gone at each step of the way down when no error was met. They are
  proved of `OpenSpec`, which `Spec` implements, and `LeavesSound` says that every task
  leaves a `Sound` node. `GateAloneRemoves` is what is true of the violated
  `IdempotentProvision`: without a failed readiness gate it holds, so the gate is its
  only cause. `SparedAloneLacks` is the same for the violated `SetUpOnSuccess`: it is
  broken only where the setup of an instance that is not set up is left out (`Spared`),
  because its pod exists or because admirald's record or the marker of earlier data
  says it was done. `Ended` and `Erred` carry the argument through failing steps: a
  task that ends, and a removal that met an error, owe only what the invariant says of
  the instance alone (`Steady`), which is checked step by step.
- `Provision_proofs`, about `Lifecycle`: each side's tasks are, seen from the other
  side, an `OtherTask` (`LifecycleIsOpen`), since `Provision` keeps `Sound` and
  `Update` keeps `Sound`, the directory under every file and the sources of what is
  up. The argument is not circular: `LifecycleInv` has both invariants and that what is
  up has its sources in every step of `Update` (`Sourced`); a step of either side
  preserves all of it from what held before the step. It assumes that the services
  with a volume are among the containers. With the theorems about the two `OpenSpec`s
  this gives all seven of their safety properties for all tasks together
  (`LifecycleIsCorrect`).
- `Update_proofs`: type correctness, `UpToDate`, `WriteAlone`, `RestoredAndPaused`,
  `UnfrozenUnlessMixed`. Each speaks of the end of a task; `Changing`, `Closed`,
  `Written` and `Freed` say what is already so at each step towards it and `Tasked`
  which task a step belongs to; `Sound` is kept with them, and `Ends` says that a task
  that ends owes nothing else. All are proved of
  `OpenSpec`: from any `Sound` state that other tasks leave between two of these.
- `BackupStore_proofs`: type correctness, `StoredAsReported`, `DeletedIsGone`,
  `RestoresReported`. `Told` says that every result, waiting or about to be sent,
  describes the store; `Ordered`, that what changes the store after a result was made
  is a repetition the history knows or a deletion admirald has asked for; `Staged`,
  what each step has in hand.

- `VolumeArchive_proofs`: type correctness, `ExtractsAlone`,
  `RestoredUnlessDisturbed`, `OnlyArchived`, `StillCopy`. `RoundTrip`: the kernel's
  map undoes `HostToContainer` on every id that is mapped, so an accepted file comes
  back with its owner (`ExtractedSame`). `Stopped` says which services are down at
  each step of a restore, `Placed` what is in place of the volumes that were
  extracted and of the one in hand, `Copied` the same of an archive being written;
  `Shape` ties a step to its task. A file that two services archived of a shared
  volume stays in place when the second copy is extracted over the first, which is
  why `InPlace` speaks of one of the services.

`TasksGoOn`, a theorem of `Outbox_proofs`, `Provision_proofs`, `Update_proofs`,
`BackupStore_proofs` and `VolumeArchive_proofs`, is the safety half of termination:
every step of a task, failing or not, goes forward in an order without infinite descent (`Further`: to a
later position, or at the same one to fewer volumes, services or files still to do),
so no task goes round in a circle, for any number of services and files. That the
next step is also taken is fairness. Proving it of `Update` is what showed
that a failing pause of the restore helper must not be followed by another one
(`Quit`): `restoreBackup` pauses once and returns.

Liveness (`StoredEventuallyLeaves`, `Converges`, `EveryTaskCloses`,
`RemovalCompletes`, `UpdateCompletes`, `DeletionCompletes`, `RestoreCompletes`,
`ExcessReported`) and the violated properties are model-checked only: the prover does
not reason about fairness or about when an action is enabled.

## Not modelled

The HTTP server, configuration, string validation and the signing of S3 requests are
I/O or stateless. Heartbeat and image puller post and pull without state another part
reads. The readiness probes and declared health checks are one outcome each: what a
probe asks is not a matter of order. Unit file text, command lines and the JSON
protocol of the helpers are layout; a command has its effect, or not, or fails after
it, and whether a helper carries out what it was asked is left to it. The simulated
executor is for tests. Restore sources over HTTPS are checked and limited in
`executor_restore.go`; `BackupStore` has the refusal, not the reasons. Directories of
a restore's staging area are never removed and are left out. Size suffixes of limits
are parsed before the agent compares anything. In `VolumeArchive` the prefix of a
target is the target itself: a service named like another service's prefix for a
shared volume (`web__shared__media`) is left out. `inspect` reads and reports, and
`pause` is the one command that `Update` has at the end of a restore.
