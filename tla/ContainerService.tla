-------------------------- MODULE ContainerService --------------------------
(***************************************************************************)
(* Systemd services of single containers (app/containers, template         *)
(* container.service): the ExecStartPre commands refresh the image, run    *)
(* the init command before the first start and the change command after an *)
(* update, and keep the digest of the image in a file to tell them apart.  *)
(*                                                                         *)
(* Several services may use the same image.  An image has versions; which  *)
(* one the registry offers and which one is stored here change over time.  *)
(***************************************************************************)
EXTENDS Integers

CONSTANTS
  Units,        \* the services
  Images,       \* the names of images, with tag
  ImageOf,      \* the image of each service
  LastVersion,  \* the versions of an image: 1..LastVersion
  MaxFaults,    \* bound: failures, kills and crashes of a behaviour
  Source,       \* "registry", "localhost" or "build": where images come from
  Ephemeral,    \* the setting of that name
  ListFails,    \* TRUE: podman image list may fail, too
  Rewinds       \* TRUE: an older version may be offered again

ASSUME ConstantsAssumption ==
  /\ ImageOf \in [Units -> Images]
  /\ LastVersion \in Nat \ {0}
  /\ MaxFaults \in Nat
  /\ Source \in {"registry", "localhost", "build"}
  /\ Ephemeral \in BOOLEAN
  /\ ListFails \in BOOLEAN
  /\ Rewinds \in BOOLEAN

Versions == 1 .. LastVersion
None     == 0     \* no image, no container; the digest file says "null"
Blank    == -1    \* the digest file is empty
NoFile   == -2    \* there is no digest file
Half     == -1    \* a command that makes the data ready was cut short

Labels ==
  {"stopped", "failed", "refresh", "remove", "init", "create", "compare",
   "change", "record", "run", "running"}

VARIABLES
  registry,    \* the version the registry offers of each image
  stored,      \* the version in the local storage
  digest,      \* configdir/image.digest of each service
  container,   \* the version its container was made of, running or not
  data,        \* the version its data is ready for, by init or change command
  pc,          \* the ExecStartPre command it is at
  faults,
  \* history
  ran,         \* its container has been running before
  seen,        \* the versions the registry offered since the start began
  clean        \* no fault since the start began

vars ==
  <<registry, stored, digest, container, data, pc, faults, ran, seen, clean>>
history == <<ran, seen, clean>>

-----------------------------------------------------------------------------
(* Helpers *)

Local(u) == stored[ImageOf[u]]

Goto(u, label) == pc' = [pc EXCEPT ![u] = label]

Set(f, u, value) == [f EXCEPT ![u] = value]

Fault(u) ==
  /\ faults < MaxFaults
  /\ faults' = faults + 1
  /\ clean' = [clean EXCEPT ![u] = FALSE]
  /\ UNCHANGED <<ran, seen>>

NoFault == UNCHANGED <<faults, history>>

-----------------------------------------------------------------------------

Init ==
  /\ registry = [i \in Images |-> 1]
  /\ stored = [i \in Images |-> IF Source = "registry" THEN None ELSE 1]
  /\ digest = [u \in Units |-> NoFile]
  /\ container = [u \in Units |-> None]
  /\ data = [u \in Units |-> None]
  /\ pc = [u \in Units |-> "stopped"]
  /\ faults = 0
  /\ ran = [u \in Units |-> FALSE]
  /\ seen = [u \in Units |-> {}]
  /\ clean = [u \in Units |-> TRUE]

\* Another version is tagged in the registry, or can be built.
Publish(i) ==
  \E v \in Versions \ {registry[i]} :
    /\ Rewinds \/ v > registry[i]
    /\ registry' = [registry EXCEPT ![i] = v]
    /\ seen' = [u \in Units |->
                  IF ImageOf[u] = i THEN seen[u] \cup {v} ELSE seen[u]]
    /\ UNCHANGED <<stored, digest, container, data, pc, faults, ran, clean>>

\* systemctl start, or Restart=on-failure.
Start(u) ==
  /\ pc[u] \in {"stopped", "failed"}
  /\ Goto(u, "refresh")
  /\ seen' = [seen EXCEPT ![u] = {registry[ImageOf[u]]}]
  /\ clean' = [clean EXCEPT ![u] = TRUE]
  /\ UNCHANGED <<registry, stored, digest, container, data, faults, ran>>

-----------------------------------------------------------------------------
(* The ExecStartPre commands, in their order *)

\* podman build names its image after the tag alone, so the image of the service
\* stays what it was.  What systemd and bash make of ${registry%*/} is never
\* "localhost": an image of this machine is pulled, too, which fails.
Refresh(u) ==
  /\ pc[u] = "refresh" /\ Source # "localhost"
  /\ Goto(u, "remove")
  /\ stored' = IF Source = "build" THEN stored
               ELSE [stored EXCEPT ![ImageOf[u]] = registry[ImageOf[u]]]
  /\ NoFault
  /\ UNCHANGED <<registry, digest, container, data>>

RefreshFails(u) ==
  /\ pc[u] = "refresh"
  /\ Goto(u, "failed")
  /\ IF Source = "localhost" THEN NoFault ELSE Fault(u)
  /\ UNCHANGED <<registry, stored, digest, container, data>>

\* Mutant: only a running container is removed.
RemoveNothing(u) ==
  /\ pc[u] = "remove"
  /\ Goto(u, "init")
  /\ NoFault
  /\ UNCHANGED <<registry, stored, digest, container, data>>

Remove(u) ==
  /\ pc[u] = "remove"
  /\ Goto(u, "init")
  /\ container' = IF Ephemeral THEN Set(container, u, None) ELSE container
  /\ NoFault
  /\ UNCHANGED <<registry, stored, digest, data>>

\* The minus in front of podman rm: the start goes on.
RemoveFails(u) ==
  /\ pc[u] = "remove" /\ Ephemeral
  /\ Goto(u, "init")
  /\ Fault(u)
  /\ UNCHANGED <<registry, stored, digest, container, data>>

\* Mutant: the command is told the recorded image.
RunInitRecorded(u) ==
  /\ pc[u] = "init"
  /\ Goto(u, "create")
  /\ data' = IF digest[u] = NoFile THEN Set(data, u, digest[u]) ELSE data
  /\ NoFault
  /\ UNCHANGED <<registry, stored, digest, container>>

\* init.command, where there is no digest file.
RunInit(u) ==
  /\ pc[u] = "init"
  /\ Goto(u, "create")
  /\ data' = IF digest[u] = NoFile THEN Set(data, u, Local(u)) ELSE data
  /\ NoFault
  /\ UNCHANGED <<registry, stored, digest, container>>

\* Listed is what the pipeline of podman image list and jq prints; bash does not
\* see that podman failed.
Listed(u, result) ==
  \/ result = Local(u) /\ NoFault
  \/ result = Blank /\ ListFails /\ Fault(u)

CreateDigest(u) ==
  /\ pc[u] = "create"
  /\ Goto(u, "compare")
  /\ IF digest[u] = NoFile
       THEN \E d \in {Local(u), Blank} : Listed(u, d) /\ digest' = Set(digest, u, d)
       ELSE NoFault /\ UNCHANGED digest
  /\ UNCHANGED <<registry, stored, container, data>>

\* Mutant: an empty digest counts as the same image.
CompareBlankSame(u) ==
  /\ pc[u] = "compare"
  /\ \E d \in {Local(u), Blank} :
       /\ Listed(u, d)
       /\ Goto(u, IF digest[u] \in {d, Blank} THEN "record" ELSE "change")
  /\ UNCHANGED <<registry, stored, digest, container, data>>

Compare(u) ==
  /\ pc[u] = "compare"
  /\ \E d \in {Local(u), Blank} :
       /\ Listed(u, d)
       /\ Goto(u, IF digest[u] = d THEN "record" ELSE "change")
  /\ UNCHANGED <<registry, stored, digest, container, data>>

\* change.command
RunChange(u) ==
  /\ pc[u] = "change"
  /\ Goto(u, "record")
  /\ data' = Set(data, u, Local(u))
  /\ NoFault
  /\ UNCHANGED <<registry, stored, digest, container>>

AtCommand(u) ==
  \/ pc[u] = "init" /\ digest[u] = NoFile
  \/ pc[u] = "change"

CommandFails(u) ==
  /\ AtCommand(u)
  /\ Goto(u, "failed")
  /\ data' = Set(data, u, Half)
  /\ Fault(u)
  /\ UNCHANGED <<registry, stored, digest, container>>

\* update digest
RecordDigest(u) ==
  /\ pc[u] = "record"
  /\ Goto(u, "run")
  /\ \E d \in {Local(u), Blank} : Listed(u, d) /\ digest' = Set(digest, u, d)
  /\ UNCHANGED <<registry, stored, container, data>>

-----------------------------------------------------------------------------
(* The container *)

\* Mutant: a container that is there is started again.
RunExisting(u) ==
  /\ pc[u] = "run"
  /\ Goto(u, "running")
  /\ container' = IF container[u] = None THEN Set(container, u, Local(u)) ELSE container
  /\ ran' = Set(ran, u, TRUE)
  /\ UNCHANGED <<registry, stored, digest, data, faults, seen, clean>>

\* podman run creates a container of that name.
RunContainer(u) ==
  /\ pc[u] = "run" /\ container[u] = None
  /\ Goto(u, "running")
  /\ container' = Set(container, u, Local(u))
  /\ ran' = Set(ran, u, TRUE)
  /\ UNCHANGED <<registry, stored, digest, data, faults, seen, clean>>

\* There is one of that name already, or podman fails.
RunFails(u) ==
  /\ pc[u] = "run"
  /\ Goto(u, "failed")
  /\ IF container[u] = None THEN Fault(u) ELSE NoFault
  /\ UNCHANGED <<registry, stored, digest, container, data>>

\* Mutant: the digest file is removed before it is written again.
TornDigestRemoved(u) ==
  CASE pc[u] = "create" /\ digest[u] = NoFile -> {NoFile, Blank, Local(u)}
    [] pc[u] = "record" -> {digest[u], NoFile, Local(u)}
    [] OTHER -> {digest[u]}

\* What a command that is cut short leaves behind: the digest file is emptied
\* before podman and jq fill it, the container may have been created, and the data
\* may be half changed.
TornDigest(u) ==
  CASE pc[u] = "create" /\ digest[u] = NoFile -> {NoFile, Blank, Local(u)}
    [] pc[u] = "record" -> {digest[u], Blank, Local(u)}
    [] OTHER -> {digest[u]}

TornContainer(u) ==
  IF pc[u] = "run" /\ container[u] = None THEN {None, Local(u)} ELSE {container[u]}

TornData(u) == IF AtCommand(u) THEN {data[u], Half} ELSE {data[u]}

Torn(u) ==
  /\ \E d \in TornData(u) : data' = Set(data, u, d)
  /\ \E d \in TornDigest(u) : digest' = Set(digest, u, d)
  /\ \E c \in TornContainer(u) : container' = Set(container, u, c)

\* systemctl stop, podman stop: the container stays there.
Stop(u) ==
  /\ pc[u] # "stopped"
  /\ Goto(u, "stopped")
  /\ Torn(u)
  /\ NoFault
  /\ UNCHANGED <<registry, stored>>

\* TimeoutStartSec, or the container ends with an error.
Kill(u) ==
  /\ pc[u] \notin {"stopped", "failed"}
  /\ Goto(u, "failed")
  /\ Torn(u)
  /\ Fault(u)
  /\ UNCHANGED <<registry, stored>>

Reset == pc' = [u \in Units |-> "stopped"] /\ clean' = [u \in Units |-> FALSE]

\* The machine goes down and boots.
Crash ==
  /\ faults < MaxFaults
  /\ faults' = faults + 1
  /\ Reset
  /\ \E d \in [Units -> Versions \cup {None, Blank, NoFile}] :
       digest' = d /\ \A u \in Units : d[u] \in TornDigest(u)
  /\ \E c \in [Units -> Versions \cup {None}] :
       container' = c /\ \A u \in Units : c[u] \in TornContainer(u)
  /\ \E d \in [Units -> Versions \cup {None, Half}] :
       data' = d /\ \A u \in Units : d[u] \in TornData(u)
  /\ UNCHANGED <<registry, stored, ran, seen>>

-----------------------------------------------------------------------------

Systemd(u) ==
  \/ Refresh(u) \/ RefreshFails(u) \/ Remove(u) \/ RemoveFails(u)
  \/ RunInit(u) \/ CreateDigest(u) \/ Compare(u) \/ RunChange(u) \/ CommandFails(u)
  \/ RecordDigest(u) \/ RunContainer(u) \/ RunFails(u)

Next ==
  \/ \E i \in Images : Publish(i)
  \/ \E u \in Units : Start(u) \/ Systemd(u) \/ Stop(u) \/ Kill(u)
  \/ Crash

Spec == Init /\ [][Next]_vars

\* Restart=on-failure, and a start that goes on.
Fairness ==
  \A u \in Units : WF_vars(Systemd(u)) /\ WF_vars(Start(u) /\ pc[u] = "failed")

FairSpec == Spec /\ Fairness

-----------------------------------------------------------------------------
(* Properties *)

\* The types of the variables: the digest file holds a version, "null", nothing,
\* or is not there.
TypeOK ==
  /\ registry \in [Images -> Versions]
  /\ stored \in [Images -> Versions \cup {None}]
  /\ digest \in [Units -> Versions \cup {None, Blank, NoFile}]
  /\ container \in [Units -> Versions \cup {None}]
  /\ data \in [Units -> Versions \cup {None, Half}]
  /\ pc \in [Units -> Labels]
  /\ faults \in 0 .. MaxFaults
  /\ ran \in [Units -> BOOLEAN]
  /\ seen \in [Units -> SUBSET Versions]
  /\ clean \in [Units -> BOOLEAN]

\* container.service:75 "commands run after updating image to newer image before
\* starting new image": a container runs only on data that the init or the change
\* command made ready for its version, whatever was cut short before.
ChangedBeforeRun == \A u \in Units : pc[u] = "running" => data[u] = container[u]

\* defaults.jinja:187 "if true, container image will be pulled/build on every
\* service start": what runs was offered by the registry since the start began.
RefreshIsRun == \A u \in Units : pc[u] = "running" => container[u] \in seen[u]

\* A start that meets no fault succeeds, whatever was left behind.
FailsOnlyByFault == \A u \in Units : pc[u] = "failed" => ~clean[u]

\* defaults.jinja:268 "run before the service is started the first time": when the
\* container has run once, no crash makes the init command run again.
InitOnlyBeforeFirstStart == \A u \in Units : ran[u] => digest[u] # NoFile

\* Restart=on-failure brings a service that failed up again, unless the
\* administrator stops it.
RestartSucceeds ==
  \A u \in Units : pc[u] = "failed" ~> pc[u] \in {"running", "stopped"}

=============================================================================
