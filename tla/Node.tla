-------------------------------- MODULE Node --------------------------------
(***************************************************************************)
(* Several instances side by side on one node.  What keeps them apart is   *)
(* their names: internal/quadlet/renderer.go derives the Quadlet files of  *)
(* an instance, its pod, containers, volumes and secrets from its id, and  *)
(* other parts find them again by prefixes of these names - Remove when    *)
(* the instance goes, and internal/agent/health.go when it watches         *)
(* containers and measures storage.                                        *)
(*                                                                         *)
(* The claim loop runs one provision or deprovision at a time              *)
(* (executor_provision.go, executor_deprovision.go, here at the grain of   *)
(* what other instances can notice; Provision.tla has one instance in      *)
(* detail), and ports come from HostPorts.  StorageUsage adds the storage  *)
(* checker.  Every name starts with "admiral-", which is left out.         *)
(***************************************************************************)
EXTENDS HostPorts, Sequences

CONSTANTS
  Character,   \* the characters of names
  Plain,       \* those SafeName keeps: letters, digits, - and _
  ServiceOf,   \* [Instance -> set of names], services
  VolumeOf,    \* their volumes; "shared-<name>" for a shared volume
  SecretOf,    \* their secrets, "<service>-<key>"
  MaxUsed,     \* bound: instances the node ever has a task for
  MaxFailed,   \* bound: tasks that fail or die half way
  Nobody

Names == SUBSET Seq(Character)

ASSUME NodeAssumption ==
  /\ Instance \in Names
  /\ Nobody \notin Instance
  /\ "-" \in Plain /\ Plain \subseteq Character
  /\ \A parts \in {ServiceOf, VolumeOf, SecretOf} :
       \A i \in Instance : parts[i] \in Names
  /\ \A i \in Instance : ServiceOf[i] # {}
  /\ MaxUsed \in Nat /\ MaxFailed \in Nat

-----------------------------------------------------------------------------
(* Names                                                                   *)

(* SafeName: any other character becomes a dash.                           *)
SafeName(s) == [n \in 1 .. Len(s) |-> IF s[n] \in Plain THEN s[n] ELSE "-"]

(* A name of the instance's name, a dash and a second part.                *)
Under(i, part) == SafeName(i) \o <<"-">> \o SafeName(part)

PodOf(i) == <<"pod", SafeName(i)>>
ContainersOf(i) == {<<"container", Under(i, s)>> : s \in ServiceOf[i]}
VolumesOf(i) == {<<"volume", Under(i, v)>> : v \in VolumeOf[i]}

(* Wrong variant: a secret is named for service and key alone.             *)
SecretsByKey(i) == {<<"secret", SafeName(k)>> : k \in SecretOf[i]}

SecretsOf(i) == {<<"secret", Under(i, k)>> : k \in SecretOf[i]}

FilesOf(i) == {PodOf(i)} \cup ContainersOf(i) \cup VolumesOf(i)
ObjectsOf(i) == FilesOf(i) \cup SecretsOf(i)

File == UNION {FilesOf(i) : i \in Instance}
Object == UNION {ObjectsOf(i) : i \in Instance}
Volume == UNION {VolumesOf(i) : i \in Instance}
Container == UNION {ContainersOf(i) : i \in Instance}
Pod == {PodOf(i) : i \in Instance}

(* strings.HasPrefix, and a glob that ends in a star                       *)
Prefix(p, s) == Len(p) <= Len(s) /\ \A n \in 1 .. Len(p) : p[n] = s[n]

-----------------------------------------------------------------------------
VARIABLES
  quadlet,     \* [File -> whose task wrote it, Nobody when there is none]
  publish,     \* [Pod -> the host ports in the pod file]
  tier,        \* instances whose directory has a tier.json with a limit
  podman,      \* [Object -> whose file or task made it, Nobody when none]
  job,         \* the task in hand
  used,        \* history: instances that had a task
  up,          \* history: provisioned with success, no removal begun since
  failed       \* tasks that have failed or died

ports == vars
disk == <<quadlet, publish, tier, podman>>
history == <<used, up>>
nodeVars == <<ports, disk, job, history, failed>>

JobPc == {"idle", "ports", "pod", "files", "secrets", "start", "clear",
          "remove", "dir"}

NodeTypeOK ==
  /\ TypeOK
  /\ quadlet \in [File -> Instance \cup {Nobody}]
  /\ publish \in [Pod -> SUBSET Port]
  /\ tier \in SUBSET Instance
  /\ podman \in [Object -> Instance \cup {Nobody}]
  /\ job \in [of : Instance, pc : JobPc]
  /\ used \in SUBSET Instance
  /\ up \in SUBSET Instance
  /\ failed \in 0 .. MaxFailed

NodeInit ==
  /\ Init
  /\ quadlet = [f \in File |-> Nobody]
  /\ publish = [p \in Pod |-> {}]
  /\ tier = {}
  /\ podman = [o \in Object |-> Nobody]
  /\ job = [of |-> inst, pc |-> "idle"]
  /\ used = {} /\ up = {}
  /\ failed = 0

At(step) == job.pc = step
GoTo(step) == job' = [job EXCEPT !.pc = step] /\ UNCHANGED failed
End == GoTo("idle")
Quit ==                               \* a failure ends the task
  /\ failed < MaxFailed
  /\ failed' = failed + 1
  /\ job' = [job EXCEPT !.pc = "idle"]
Of == job.of                          \* the instance in hand

-----------------------------------------------------------------------------
(* Provision                                                               *)

Take(i, step) ==
  /\ At("idle")
  /\ Cardinality(used \cup {i}) <= MaxUsed
  /\ used' = used \cup {i}
  /\ job' = [of |-> i, pc |-> step]
  /\ UNCHANGED failed

(* A pod of this name ends the provision, with success.  A Podman that     *)
(* does not answer counts as no pod.                                       *)
Already(i) ==
  /\ podman[PodOf(i)] # Nobody
  /\ Take(i, "idle")
  /\ UNCHANGED <<ports, disk, up>>

Provision(i) ==
  /\ Take(i, "ports")
  /\ UNCHANGED <<ports, disk, up>>

(* allocateHostPorts: the steps of HostPorts.  A failure ends the task.    *)
Allocate ==
  /\ At("ports")
  /\ \/ Choose(Of) /\ UNCHANGED <<job, failed>>
     \/ /\ Misread(Of) /\ failed < MaxFailed /\ failed' = failed + 1
        /\ job' = IF pc' = "idle" THEN [job EXCEPT !.pc = "idle"] ELSE job
     \/ Exhausted(Of) /\ End
     \/ Truncate /\ UNCHANGED <<job, failed>>
     \/ Persist /\ UNCHANGED <<job, failed>>
     \/ PersistFail /\ Quit
     \/ Store /\ (IF file'[Of] = {} THEN Quit ELSE GoTo("pod"))
  /\ UNCHANGED <<disk, history>>

Reuse ==
  /\ At("ports") /\ pc = "idle" /\ file[Of] # {}
  /\ GoTo("pod")
  /\ UNCHANGED <<ports, disk, history>>

(* writeInstanceTierInfo, and the pod file with the allocated ports.       *)
RenderPod ==
  /\ At("pod")
  /\ tier' = tier \cup {Of}
  /\ quadlet' = [quadlet EXCEPT ![PodOf(Of)] = Of]
  /\ publish' = [publish EXCEPT ![PodOf(Of)] = file[Of]]
  /\ GoTo("files")
  /\ UNCHANGED <<ports, podman, history>>

RenderPodFails ==
  /\ At("pod")
  /\ \/ /\ tier' \in {tier, tier \cup {Of}, tier \ {Of}}
        /\ UNCHANGED <<quadlet, publish>>
     \/ /\ tier' = tier \cup {Of}              \* the file stays empty
        /\ quadlet' = [quadlet EXCEPT ![PodOf(Of)] = Of]
        /\ publish' = [publish EXCEPT ![PodOf(Of)] = {}]
  /\ Quit
  /\ UNCHANGED <<ports, podman, history>>

(* The other files, one by one; the image policy, a sensitive variable or  *)
(* a write can stop it anywhere.                                           *)
Write(files) ==
  quadlet' = [f \in File |-> IF f \in files THEN Of ELSE quadlet[f]]

Render ==
  /\ At("files")
  /\ \/ Write(FilesOf(Of)) /\ GoTo("secrets")
     \/ \E files \in SUBSET (FilesOf(Of) \ {PodOf(Of)}) : Write(files) /\ Quit
  /\ UNCHANGED <<ports, publish, tier, podman, history>>

(* podman secret create --replace, key by key.                             *)
CreateSecrets ==
  /\ At("secrets")
  /\ \E made \in SUBSET SecretsOf(Of) :
       /\ podman' = [o \in Object |-> IF o \in made THEN Of ELSE podman[o]]
       /\ IF made = SecretsOf(Of) THEN GoTo("start") ELSE Quit
  /\ UNCHANGED <<ports, quadlet, publish, tier, history>>

SamePod(j) == j # Nobody /\ SafeName(j) = SafeName(Of)

(* The units of a pod are its own and those of the files that name it.     *)
(* Pod and containers are created with --replace, a volume that is there   *)
(* is used as it is.                                                       *)
Units == {f \in File : SamePod(quadlet[f])}
Started(units) ==
  podman' = [o \in Object |->
               IF o \in units /\ (o \in Volume => podman[o] = Nobody)
                 THEN quadlet[o] ELSE podman[o]]

Start ==
  /\ At("start")
  /\ Started(Units)
  /\ up' = up \cup {Of}
  /\ End
  /\ UNCHANGED <<ports, quadlet, publish, tier, used>>

(* A unit fails to start, or the start is followed by a failed port query  *)
(* or setup, which leave everything as it is, or by a failed readiness     *)
(* gate, after which failProvisionReadiness deprovisions.                  *)
StartFails ==
  /\ At("start")
  /\ \/ \E units \in SUBSET Units : Started(units) /\ Quit /\ UNCHANGED up
     \/ /\ Started(Units) /\ up' = up \ {Of}
        /\ failed < MaxFailed /\ failed' = failed + 1
        /\ job' = [job EXCEPT !.pc = "clear"]
  /\ UNCHANGED <<ports, quadlet, publish, tier, used>>

-----------------------------------------------------------------------------
(* Deprovision                                                             *)

Remove(i) ==
  /\ Take(i, "clear")
  /\ up' = up \ {i}
  /\ UNCHANGED <<ports, disk>>

(* podman pod rm --force takes the containers of the pod along, podman     *)
(* volume rm --force the containers that mount the volume; the rest goes   *)
(* by name.                                                                *)
Gone ==
  ObjectsOf(Of) \cup
  {c \in Container : \/ SamePod(podman[c])
                     \/ /\ podman[c] # Nobody
                        /\ VolumesOf(podman[c]) \cap VolumesOf(Of) # {}}

Clear ==
  /\ At("clear")
  /\ \E gone \in SUBSET Gone :
       /\ podman' = [o \in Object |-> IF o \in gone THEN Nobody ELSE podman[o]]
       /\ Quit \/ (gone = Gone /\ GoTo("remove"))
  /\ UNCHANGED <<ports, quadlet, publish, tier, history>>

(* Renderer.Remove: every file whose name starts with the instance's.      *)
Matching == {f \in File : Prefix(SafeName(Of), f[2])}

RemoveFiles ==
  /\ At("remove")
  /\ \E files \in SUBSET Matching :
       /\ quadlet' = [f \in File |-> IF f \in files THEN Nobody ELSE quadlet[f]]
       /\ publish' = [p \in Pod |-> IF p \in files THEN {} ELSE publish[p]]
       /\ IF files = Matching THEN GoTo("dir") ELSE Quit
  /\ UNCHANGED <<ports, tier, podman, history>>

(* Wrong variant: when an instance goes, its ports are offered again.      *)
RemoveDirAndReclaim ==
  /\ At("dir")
  /\ file' = [file EXCEPT ![Of] = {}] /\ tier' = tier \ {Of}
  /\ counter' = MinPort
  /\ End
  /\ UNCHANGED <<next, inst, pc, torn, quadlet, publish, podman, history>>

(* The directory goes with its ports.json and tier.json, unless            *)
(* daemon-reload fails before; RemoveAll may leave either of them.         *)
RemoveDir ==
  /\ At("dir")
  /\ \/ Deprovision(Of) /\ tier' = tier \ {Of} /\ End
     \/ /\ Deprovision(Of) \/ UNCHANGED ports
        /\ tier' \in {tier, tier \ {Of}}
        /\ Quit
  /\ UNCHANGED <<quadlet, publish, podman, history>>

(* The agent dies; the next one has no task in hand.                       *)
Die ==
  /\ ~At("idle")
  /\ IF pc = "idle" THEN UNCHANGED ports ELSE Crash
  /\ Quit
  /\ UNCHANGED <<disk, history>>

Tasks ==
  \/ \E i \in Instance : Already(i) \/ Provision(i) \/ Remove(i)
  \/ Allocate \/ Reuse \/ RenderPod \/ RenderPodFails \/ Render
  \/ CreateSecrets \/ Start \/ StartFails \/ Clear \/ RemoveFiles \/ RemoveDir

NodeNext == Tasks \/ Die

NodeSpec == NodeInit /\ [][NodeNext]_nodeVars

-----------------------------------------------------------------------------
(* Properties                                                              *)

(* Ports are allocated as HostPorts says, whatever else the tasks do.      *)
HostPortsSpec == Spec

(* Names that start alike: one is the beginning of the other, or both are  *)
(* the same.                                                               *)
Related(i, j) ==
  i # j /\ (\/ Prefix(SafeName(i), SafeName(j))
            \/ Prefix(SafeName(j), SafeName(i)))

(* Everything an instance is made of is there and of its own making.       *)
Intact(i) ==
  /\ \A f \in FilesOf(i) : quadlet[f] = i
  /\ \A o \in ObjectsOf(i) : podman[o] = i

(* A provisioned instance keeps its files, pod, containers, volumes and    *)
(* secrets until its own removal begins, whatever is provisioned, fails,   *)
(* crashes or is removed beside it - unless the node had a task for an     *)
(* instance whose name begins like its own.                                *)
KeptUnlessRelated ==
  \A i \in up : Intact(i) \/ \E j \in used : Related(i, j)

(* Wrong variant: the pattern lacks the dash after the instance.           *)
DeclaredNoDash(name) == {c \in Container : quadlet[c] # Nobody /\ Prefix(name, c[2])}

(* checkInstanceServiceContainers: files "<name>-*.container", and the     *)
(* states of the containers of the same names.                             *)
Declared(name) ==
  {c \in Container : quadlet[c] # Nobody /\ Prefix(name \o <<"-">>, c[2])}

ServicesRun(name, running) ==
  Declared(name) # {} /\ Declared(name) \subseteq running

(* An instance all of whose containers run is healthy, whichever of the    *)
(* others have failed - unless there is an instance whose name continues   *)
(* its name with a dash, or is continued by it so.                         *)
HealthIsOwn ==
  \A i \in up :
    \/ ~Intact(i)
    \/ \E j \in used \ {i} :
         LET p == SafeName(i) \o <<"-">>
             q == SafeName(j) \o <<"-">>
         IN Prefix(p, q) \/ Prefix(q, p)
    \/ ServicesRun(SafeName(i), ContainersOf(i))

(* No two pod files publish the same host port, unless next_port was       *)
(* caught between truncation and write or one of the files was misread.    *)
PublishedDistinct ==
  torn \/ \A p, q \in Pod : p # q => publish[p] \cap publish[q] = {}
=============================================================================
