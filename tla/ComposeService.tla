----------------------------- MODULE ComposeService -----------------------------
(***************************************************************************)
(* The commands of podman-compose, and the systemd service that runs them  *)
(* (app/containers, template compose.service).                             *)
(*                                                                         *)
(* A command works out a list of podman calls from the containers of the   *)
(* stack and makes them one after the other.  It looks at the result of    *)
(* two of them only (inspect and run); up then waits in threads for the    *)
(* containers it has attached to.  Nothing keeps two commands apart: the   *)
(* calls of an administrator's interleave with those of the service.       *)
(***************************************************************************)
EXTENDS Naturals, Sequences, FiniteSets, Ranking

CONSTANTS
  Stack,        \* the containers, in the order _parse_compose_file lists them
  HasPod,       \* the transform policy puts them into one pod
  Refresh, Ephemeral,   \* settings of the service
  LastVersion,  \* bound: the versions of an image are 1 .. LastVersion
  Commands,     \* the commands an administrator may give by hand
  MaxHands,     \* bound: commands by hand
  MaxFaults     \* bound: containers that exit, calls and processes that fail

Services == {Stack[i].service : i \in DOMAIN Stack}
Names    == {Stack[i].name : i \in DOMAIN Stack}
OneOff   == "oneoff"     \* the container of podman-compose run

ContainerDesc ==
  [name : Names, service : Services, needs : SUBSET Services,
   build : BOOLEAN,                           \* it has a build section
   local : BOOLEAN,                           \* is_local: its image is not pulled
   health : {"none", "string", "list", "bad"},  \* its healthcheck test
   shares : Services]                        \* the service whose list that test is

ASSUME StackAssumption ==
  /\ Stack \in Seq(ContainerDesc)
  /\ \A i, j \in DOMAIN Stack : Stack[i].name = Stack[j].name => i = j
  /\ \A i, j \in DOMAIN Stack :   \* replicas of a service differ in their names
       Stack[i].service = Stack[j].service => Stack[j] = [Stack[i] EXCEPT !.name = Stack[j].name]
  /\ OneOff \notin Names

ASSUME SettingsAssumption ==
  /\ {HasPod, Refresh, Ephemeral} \subseteq BOOLEAN
  /\ LastVersion \in Nat \ {0}
  /\ {MaxHands, MaxFaults} \subseteq Nat

VARIABLES
  podman,   \* what podman keeps: the pod, the containers, the images
  latest,   \* the version of each service's image in the registry or source
  proc,     \* the processes: calls to make, threads, what they are for
  unit,     \* what systemd does with the service
  left,     \* bounds: faults and commands by hand that may still come
  quiet,    \* nothing has disturbed the process since it began
  settled   \* history: since boot nobody but the service touched the stack

vars == <<podman, latest, proc, unit, left, quiet, settled>>

Proc      == {"main", "stop", "hand"}   \* ExecStart, ExecStop, an administrator
Version   == 0 .. LastVersion           \* 0 is none
CntState  == {"none", "created", "running", "exited"}
CntOps    == {"pull", "push", "build", "buildmissing", "create", "run", "attach", "start",
              "stop", "restart", "rm"}           \* calls about one container
StackOps  == {"podcreate", "podrm", "oneoff", "oneoffwait", "raise"}
Call      == [op : CntOps, on : Names] \cup [op : StackOps, on : {"", OneOff}]

--------------------------------------------------------------------------------
(* The arguments of the commands, as their parsers read them.  Options that  *)
(* are parsed and used by nothing, such as --no-deps and --no-recreate of    *)
(* up, are left out.                                                         *)

UpArgs   == [cmd : {"up"}, services : SUBSET Services, detach : BOOLEAN, no_build : BOOLEAN,
             build : BOOLEAN, force_recreate : BOOLEAN, no_start : BOOLEAN,
             abort : BOOLEAN]   \* --abort-on-container-exit or --exit-code-from
DownArgs == [cmd : {"down"}, services : SUBSET Services]
SomeArgs == [cmd : {"start", "stop", "restart"}, services : SUBSET Services \ {{}}]
RunArgs  == [cmd : {"run"}, services : {{s} : s \in Services}, detach : BOOLEAN,
             no_deps : BOOLEAN]
PullArgs == [cmd : {"pull"}, services : {{}}, force_local : BOOLEAN]
PushArgs == [cmd : {"push"}, services : SUBSET Services]
BuildArgs == [cmd : {"build"}, services : SUBSET Services]

Args == UpArgs \cup DownArgs \cup SomeArgs \cup RunArgs \cup PullArgs \cup PushArgs \cup BuildArgs

ASSUME CommandsAssumption == Commands \subseteq Args

--------------------------------------------------------------------------------
(* The calls of a command. *)

Raise == [op |-> "raise", on |-> ""]

\* Mutant: podman is given the name of the service.
CallsByService(op, cs) == [i \in DOMAIN cs |-> [op |-> op, on |-> cs[i].service]]

Calls(op, cs)  == [i \in DOMAIN cs |-> [op |-> op, on |-> cs[i].name]]
Backwards(s)   == [i \in DOMAIN s |-> s[Len(s) + 1 - i]]

\* get_excluded: the services that are neither named nor needed by one that is.
Excluded(services) ==
  IF services = {} THEN {}
  ELSE Services \ (services \cup UNION {Stack[i].needs : i \in {j \in DOMAIN Stack : Stack[j].service \in services}})

\* The containers at some positions of the stack, in its order.
Picked(at) == [k \in DOMAIN Ascending(at) |-> Stack[Ascending(at)[k]]]

Included(services) ==
  Picked({i \in DOMAIN Stack : Stack[i].service \notin Excluded(services)})

\* The first containers of services: what build and run look at.
FirstOf(services) ==
  {i \in DOMAIN Stack : /\ Stack[i].service \in services
                        /\ \A j \in DOMAIN Stack : Stack[j].service = Stack[i].service => i <= j}
Firsts(services) == Picked(FirstOf(services))

\* container_to_args takes the first item from the list of a healthcheck, and
\* the containers of a service share that list, with those of the services that
\* extend it or that it extends: the second time it raises.
Raises(cs, i) ==
  \/ cs[i].health = "bad"
  \/ cs[i].health = "list" /\ \E j \in 1 .. i - 1 : cs[j].shares = cs[i].shares

\* The calls that need the arguments of each container.
Converted(op, cs) ==
  [i \in DOMAIN cs |-> IF Raises(cs, i) THEN Raise ELSE [op |-> op, on |-> cs[i].name]]

\* compose_build and build_one
BuildCalls(services, op) ==
  LET all == IF services = {} THEN DOMAIN Stack ELSE FirstOf(services)
  IN  Calls(op, Picked({i \in all : Stack[i].build}))

\* create_pods
PodCalls == IF HasPod THEN << [op |-> "podcreate", on |-> ""] >> ELSE <<>>

\* Mutant: containers are removed before they are stopped.
DownRemovesFirst(services) ==
  LET cs == Backwards(Included(services)) IN
  Calls("rm", cs) \o Calls("stop", cs)
    \o IF Excluded(services) = {} /\ HasPod THEN << [op |-> "podrm", on |-> ""] >> ELSE <<>>

\* Mutant: the pod is removed although some services are excluded.
DownRemovesPod(services) ==
  LET cs == Backwards(Included(services)) IN
  Calls("stop", cs) \o Calls("rm", cs)
    \o IF HasPod THEN << [op |-> "podrm", on |-> ""] >> ELSE <<>>

\* compose_down: first all stop, dependants before what they need, then all
\* are removed, and the pod unless some containers stay.
DownCalls(services) ==
  LET cs == Backwards(Included(services)) IN
  Calls("stop", cs) \o Calls("rm", cs)
    \o IF Excluded(services) = {} /\ HasPod THEN << [op |-> "podrm", on |-> ""] >> ELSE <<>>

\* compose_up
UpCalls(a) ==
  LET cs == Included(a.services) IN
  (IF a.no_build THEN <<>> ELSE BuildCalls(a.services, IF a.build THEN "build" ELSE "buildmissing"))
    \o (IF a.force_recreate THEN DownCalls(a.services) ELSE <<>>)
    \o PodCalls
    \o Converted(IF a.detach /\ ~a.no_start THEN "run" ELSE "create", cs)
    \o (IF a.no_start \/ a.detach THEN <<>> ELSE Calls("attach", cs))

\* compose_run: up of what the service needs, which is the whole stack when it
\* needs nothing, and a container of its own.  A build there misses an option
\* of up and raises.
RunCalls(a) ==
  LET c      == Firsts(a.services)[1]
      upped  == IF a.no_deps THEN <<>> ELSE Included(c.needs)
      again  == c.health = "list" /\ \E i \in DOMAIN upped : upped[i].shares = c.shares
  IN  PodCalls
        \o (IF ~a.no_deps /\ BuildCalls(c.needs, "build") # <<>> THEN <<Raise>> ELSE <<>>)
        \o (IF a.no_deps THEN <<>> ELSE PodCalls) \o Converted("run", upped)
        \o (IF again \/ c.health = "bad" THEN <<Raise>> ELSE <<>>)
        \o << [op |-> "oneoff", on |-> OneOff] >>
        \o (IF a.detach THEN <<>> ELSE << [op |-> "oneoffwait", on |-> OneOff] >>)

\* compose_pull: the images that are not local, or all.
PullCalls(force) == Calls("pull", Picked({i \in DOMAIN Stack : force \/ ~Stack[i].local}))

\* compose_push
PushCalls(services) ==
  Calls("push", Picked({i \in DOMAIN Stack :
    Stack[i].build /\ (services = {} \/ Stack[i].service \in services)}))

\* transfer_service_status
TransferCalls(op, services) ==
  Calls(op, Picked({i \in DOMAIN Stack : Stack[i].service \in services}))

CallsOf(a) ==
  CASE a.cmd = "up"    -> UpCalls(a)
    [] a.cmd = "down"  -> DownCalls(a.services)
    [] a.cmd = "run"   -> RunCalls(a)
    [] a.cmd = "pull"  -> PullCalls(a.force_local)
    [] a.cmd = "push"  -> PushCalls(a.services)
    [] a.cmd = "build" -> BuildCalls(a.services, "build")
    [] OTHER           -> TransferCalls(a.cmd, a.services)

--------------------------------------------------------------------------------
(* What podman does with a call. *)

Desc(n)      == Stack[CHOOSE i \in DOMAIN Stack : Stack[i].name = n]
ServiceOf(n) == Desc(n).service

Runs(m)      == {n \in Names : m.cnt[n] = "running"}

Possible(call, m) ==
  LET n == call.on IN
  CASE call.op = "podcreate"          -> ~m.pod
    [] call.op \in {"create", "run"}  -> /\ m.cnt[n] = "none"
                                         /\ HasPod => m.pod
                                         /\ m.image[ServiceOf(n)] = 0 => ~Desc(n).local
    [] call.op \in {"start", "attach", "restart"} -> m.cnt[n] # "none"
    [] call.op = "stop"               -> m.cnt[n] = "running"
    [] call.op = "rm"                 -> m.cnt[n] \in {"created", "exited"}
    [] call.op = "podrm"              -> m.pod /\ Runs(m) = {} /\ m.oneoff # "running"
    [] call.op = "oneoff"             -> m.oneoff # "running" /\ (HasPod => m.pod)
    [] call.op = "pull"               -> ~Desc(n).local
    [] call.op = "buildmissing"       -> m.image[ServiceOf(n)] = 0
    [] OTHER                          -> TRUE

\* The version a container is made from: podman pulls an image that is missing.
ImageFor(n, m) ==
  IF m.image[ServiceOf(n)] = 0 THEN latest[ServiceOf(n)] ELSE m.image[ServiceOf(n)]

After(call, m) ==
  LET n == call.on IN
  CASE call.op = "podcreate"          -> [m EXCEPT !.pod = TRUE]
    [] call.op \in {"create", "run"}  ->
         [m EXCEPT !.cnt[n] = IF call.op = "run" THEN "running" ELSE "created",
                   !.made[n] = ImageFor(n, m), !.image[ServiceOf(n)] = ImageFor(n, m)]
    [] call.op \in {"start", "attach", "restart"} -> [m EXCEPT !.cnt[n] = "running"]
    [] call.op = "stop"               -> [m EXCEPT !.cnt[n] = "exited"]
    [] call.op = "rm"                 -> [m EXCEPT !.cnt[n] = "none", !.made[n] = 0]
    [] call.op = "podrm"              ->
         [m EXCEPT !.pod = FALSE, !.cnt = [c \in Names |-> "none"],
                   !.made = [c \in Names |-> 0], !.oneoff = "none"]
    [] call.op = "oneoff"             -> [m EXCEPT !.oneoff = "running"]
    [] call.op \in {"pull", "build", "buildmissing"} ->
         [m EXCEPT !.image[ServiceOf(n)] = latest[ServiceOf(n)]]
    [] OTHER                          -> m

NoCommand == [cmd |-> "none", services |-> {}]

Idle == [cmd |-> NoCommand, calls |-> <<>>, threads |-> {}, alive |-> {}, raised |-> FALSE]

Begun(a, calls) == [Idle EXCEPT !.cmd = a, !.calls = calls]
Done(p)         == proc[p].calls = <<>> /\ proc[p].threads = {}

UnitUp   == [cmd |-> "up", services |-> {}, detach |-> FALSE, no_build |-> TRUE, build |-> FALSE,
             force_recreate |-> FALSE, no_start |-> FALSE, abort |-> TRUE]
UnitDown == [cmd |-> "down", services |-> {}]
UnitPre  == [cmd |-> "pre", services |-> {}]

UnitUpCalls   == UpCalls(UnitUp)
UnitDownCalls == DownCalls({})

Aborts(a) == a.cmd = "up" /\ a.abort

Process ==
  [cmd : Args \cup {NoCommand, UnitPre}, calls : Seq(Call), threads : SUBSET Names,
   alive : SUBSET Names, raised : BOOLEAN]

PodmanState ==
  [pod : BOOLEAN, cnt : [Names -> CntState], made : [Names -> Version],
   image : [Services -> Version], oneoff : {"none", "running", "exited"}]

TypeOK ==
  /\ podman \in PodmanState
  /\ latest \in [Services -> 1 .. LastVersion]
  /\ proc \in [Proc -> Process]
  /\ unit \in {"inactive", "start", "pre", "up", "stopping", "failing"}
  /\ left \in [faults : 0 .. MaxFaults, hands : 0 .. MaxHands]
  /\ quiet \in [Proc -> BOOLEAN]
  /\ settled \in BOOLEAN

Init ==
  /\ podman = [pod |-> FALSE, cnt |-> [n \in Names |-> "none"], made |-> [n \in Names |-> 0],
               image |-> [s \in Services |-> 0], oneoff |-> "none"]
  /\ latest = [s \in Services |-> 1]
  /\ proc = [p \in Proc |-> Idle]
  /\ unit = "start"
  /\ left = [faults |-> MaxFaults, hands |-> MaxHands]
  /\ quiet = [p \in Proc |-> FALSE]
  /\ settled = TRUE

Fault == left.faults > 0 /\ left' = [left EXCEPT !.faults = @ - 1]

\* podman start -a ends when its container stops.
StillAlive(p, m, restarted) ==
  [p EXCEPT !.alive = {n \in @ : m.cnt[n] = "running"} \ restarted]

--------------------------------------------------------------------------------
\* Mutant: a run that fails is not followed by a start.
RestAlways(call, ok, rest) == rest

\* The calls that are left after one: up starts a container it could not run.
Rest(call, ok, rest) ==
  IF call.op = "run" /\ ~ok THEN << [op |-> "start", on |-> call.on] >> \o rest ELSE rest

\* Podman.run makes the next call; only run's result is looked at.
Step(p) ==
  /\ proc[p].calls # <<>>
  /\ LET call == Head(proc[p].calls)
         rest == Tail(proc[p].calls)
     IN
     /\ call.op # "raise"
     /\ call.op = "oneoffwait" => podman.oneoff # "running"
     /\ \E ok \in BOOLEAN :
          /\ \/ ok = Possible(call, podman) /\ UNCHANGED <<left, settled>>
             \/ ~ok /\ Possible(call, podman) /\ Fault
                /\ settled' = (settled /\ call.op \in {"pull", "push", "create", "podcreate"})
          /\ podman' = IF ok THEN After(call, podman) ELSE podman
          /\ proc' = [q \in Proc |->
               LET now == StillAlive(proc[q], podman', IF ok /\ call.op = "restart" THEN {call.on} ELSE {})
               IN  IF q # p THEN now
                   ELSE [now EXCEPT
                          !.calls = Rest(call, ok, rest),
                          !.threads = IF call.op = "attach" THEN @ \cup {call.on} ELSE @,
                          !.alive = IF call.op = "attach" /\ ok THEN @ \cup {call.on} ELSE @]]
          /\ quiet' = [q \in Proc |-> quiet[q] /\ q = p /\ (ok \/ ~Possible(call, podman))]
  /\ UNCHANGED <<latest, unit>>

\* An exception ends the process.
RaiseStep(p) ==
  /\ proc[p].calls # <<>> /\ Head(proc[p].calls).op = "raise"
  /\ proc' = [proc EXCEPT ![p].calls = <<>>, ![p].raised = TRUE]
  /\ UNCHANGED <<podman, latest, unit, left, quiet, settled>>

\* Mutant: the loop goes on until all threads have ended.
JoinAll(p) ==
  /\ proc[p].calls = <<>>
  /\ \E n \in proc[p].threads \ proc[p].alive :
       proc' = [proc EXCEPT ![p].threads = @ \ {n}]
  /\ UNCHANGED <<podman, latest, unit, left, quiet, settled>>

\* The loop of up finds a thread that has ended; with the option to abort the
\* process exits and leaves the other containers as they are.
Join(p) ==
  /\ proc[p].calls = <<>>
  /\ \E n \in proc[p].threads \ proc[p].alive :
       proc' = [proc EXCEPT ![p].threads = IF Aborts(proc[p].cmd) THEN {} ELSE @ \ {n}]
  /\ UNCHANGED <<podman, latest, unit, left, quiet, settled>>

\* An administrator gives a command.
HandBegins(a) ==
  /\ Done("hand") /\ left.hands > 0
  /\ left' = [left EXCEPT !.hands = @ - 1]
  /\ proc' = [proc EXCEPT !["hand"] = Begun(a, CallsOf(a))]
  /\ quiet' = [quiet EXCEPT !["hand"] = TRUE]
  /\ settled' = FALSE
  /\ UNCHANGED <<podman, latest, unit>>

\* A process is killed; podman start -a passes the signal on to its container,
\* which may or may not obey.
Killed(p, gone) ==
  /\ podman' = [podman EXCEPT !.cnt = [n \in Names |-> IF n \in gone THEN "exited" ELSE @[n]]]
  /\ proc' = [q \in Proc |->
       [StillAlive(proc[q], podman', {}) EXCEPT
          !.calls   = IF q = p THEN <<>> ELSE @,
          !.threads = IF q = p THEN {} ELSE @,
          !.alive   = IF q = p THEN {} ELSE @]]
  /\ quiet' = [q \in Proc |-> FALSE]

HandInterrupted ==
  /\ ~Done("hand") /\ Fault
  /\ \E gone \in SUBSET (proc["hand"].alive \cap Runs(podman)) : Killed("hand", gone)
  /\ UNCHANGED <<latest, unit, settled>>

--------------------------------------------------------------------------------
(* The service. *)

StartUnit ==
  /\ unit = "inactive"
  /\ unit' = "start"
  /\ UNCHANGED <<podman, latest, proc, left, quiet, settled>>

\* Mutant: the pod is not removed.
BeginPreKeeps ==
  /\ unit = "start"
  /\ unit' = "pre"
  /\ proc' = [proc EXCEPT !["main"] =
       Begun(UnitPre, IF Refresh THEN PullCalls(FALSE) ELSE <<>>)]
  /\ UNCHANGED <<podman, latest, left, quiet, settled>>

\* ExecStartPre
BeginPre ==
  /\ unit = "start"
  /\ unit' = "pre"
  /\ proc' = [proc EXCEPT !["main"] =
       Begun(UnitPre, (IF Refresh THEN PullCalls(FALSE) ELSE <<>>)
                        \o (IF Ephemeral THEN << [op |-> "podrm", on |-> ""] >> ELSE <<>>))]
  /\ UNCHANGED <<podman, latest, left, quiet, settled>>

\* ExecStart
BeginUp ==
  /\ unit = "pre" /\ Done("main")
  /\ unit' = "up"
  /\ proc' = [proc EXCEPT !["main"] = Begun(UnitUp, UnitUpCalls)]
  /\ UNCHANGED <<podman, latest, left, quiet, settled>>

BeginStop ==
  /\ proc' = [proc EXCEPT !["stop"] = Begun(UnitDown, UnitDownCalls)]
  /\ quiet' = [quiet EXCEPT !["stop"] = TRUE]

\* up has ended, or is killed: ExecStop runs, and Restart=on-failure.
UpEnds ==
  /\ unit = "up"
  /\ Done("main")
  /\ unit' = "failing"
  /\ BeginStop
  /\ UNCHANGED <<podman, latest, left, settled>>

UpKilled ==
  /\ unit = "up"
  /\ Fault
  /\ unit' = "failing"
  /\ proc' = [proc EXCEPT !["stop"] = Begun(UnitDown, UnitDownCalls),
                          !["main"].calls = <<>>, !["main"].threads = {}]
  /\ quiet' = [quiet EXCEPT !["stop"] = TRUE]
  /\ UNCHANGED <<podman, latest, settled>>

\* systemctl stop: ExecStop runs beside up.
StopUnit ==
  /\ unit = "up" /\ left.hands > 0
  /\ left' = [left EXCEPT !.hands = @ - 1]
  /\ unit' = "stopping"
  /\ BeginStop
  /\ settled' = (settled /\ proc["main"].calls = <<>>)
  /\ UNCHANGED <<podman, latest>>

\* After ExecStop, or when it takes too long, what is left of up is killed.
StopEnds ==
  /\ unit \in {"stopping", "failing"}
  /\ \/ Done("stop") /\ UNCHANGED <<left, settled>>
     \/ ~Done("stop") /\ Fault /\ settled' = FALSE
  /\ unit' = IF unit = "stopping" THEN "inactive" ELSE "start"
  /\ \E gone \in SUBSET (proc["main"].alive \cap Runs(podman)) :
       /\ podman' = [podman EXCEPT !.cnt = [n \in Names |-> IF n \in gone THEN "exited" ELSE @[n]]]
       /\ proc' = [p \in Proc |->
            LET now == StillAlive(proc[p], podman', {}) IN
            CASE p = "main" -> [now EXCEPT !.calls = <<>>, !.threads = {}, !.alive = {}]
              [] p = "stop" -> [now EXCEPT !.calls = <<>>]
              [] OTHER      -> now]
       /\ quiet' = [p \in Proc |-> quiet[p] /\ gone = {} /\ Done(p)]
  /\ UNCHANGED latest

--------------------------------------------------------------------------------
(* The containers and the machine. *)

Exits(n) ==
  /\ podman.cnt[n] = "running" /\ Fault
  /\ podman' = [podman EXCEPT !.cnt[n] = "exited"]
  /\ proc' = [p \in Proc |-> StillAlive(proc[p], podman', {})]
  /\ quiet' = [p \in Proc |-> FALSE]
  /\ UNCHANGED <<latest, unit, settled>>

\* The command of podman-compose run ends, with --rm or without.
OneOffEnds ==
  /\ podman.oneoff = "running"
  /\ \E how \in {"none", "exited"} : podman' = [podman EXCEPT !.oneoff = how]
  /\ quiet' = [p \in Proc |-> FALSE]
  /\ UNCHANGED <<latest, proc, unit, left, settled>>

Publish(s) ==
  /\ latest[s] < LastVersion
  /\ latest' = [latest EXCEPT ![s] = @ + 1]
  /\ UNCHANGED <<podman, proc, unit, left, quiet, settled>>

\* The machine restarts: every process and container is stopped, and the
\* service is started again.
Reboot ==
  /\ Fault
  /\ podman' = [podman EXCEPT
       !.cnt = [n \in Names |-> IF @[n] = "running" THEN "exited" ELSE @[n]],
       !.oneoff = IF @ = "running" THEN "exited" ELSE @]
  /\ proc' = [p \in Proc |-> Idle]
  /\ quiet' = [p \in Proc |-> FALSE]
  /\ unit' = "start"
  /\ settled' = TRUE
  /\ UNCHANGED latest

Unit == StartUnit \/ BeginPre \/ BeginUp \/ UpEnds \/ UpKilled \/ StopUnit \/ StopEnds

Next ==
  \/ \E p \in Proc : Step(p) \/ RaiseStep(p) \/ Join(p)
  \/ \E a \in Commands : HandBegins(a)
  \/ HandInterrupted
  \/ Unit
  \/ \E n \in Names : Exits(n)
  \/ OneOffEnds
  \/ \E s \in Services : Publish(s)
  \/ Reboot

Spec == Init /\ [][Next]_vars

\* Processes go on, systemd does what is due, and podman-compose run comes to
\* an end.
FairSpec ==
  /\ Spec
  /\ \A p \in Proc : WF_vars(Step(p)) /\ WF_vars(RaiseStep(p)) /\ WF_vars(Join(p))
  /\ WF_vars(BeginPre) /\ WF_vars(BeginUp) /\ WF_vars(UpEnds)
  /\ WF_vars(StopEnds /\ UNCHANGED left)
  /\ WF_vars(OneOffEnds)

--------------------------------------------------------------------------------
\* A full down that nobody disturbed leaves no container, and no pod unless a
\* one-off command still runs in it: the order of its calls is right whatever
\* it found, half-made pods and stopped or merely created containers included.
DownLeavesNothing ==
  \A p \in {"stop", "hand"} :
    /\ proc[p].cmd.cmd = "down" /\ Excluded(proc[p].cmd.services) = {}
    /\ proc[p].calls = <<>> /\ quiet[p]
    => /\ \A n \in Names : podman.cnt[n] = "none"
       /\ podman.pod => podman.oneoff = "running" \/ ~HasPod

\* An up in the background that nobody disturbed ends with every container of
\* the services it was for running, whichever of them were there before.
UpStartsAll ==
  LET a == proc["hand"].cmd IN
  /\ a.cmd = "up" /\ Done("hand") /\ quiet["hand"] /\ ~proc["hand"].raised
  => (a.detach /\ ~a.no_start =>
        \A n \in Names : ServiceOf(n) \in Excluded(a.services)
                         \/ podman.image[ServiceOf(n)] = 0 \/ podman.cnt[n] = "running")

\* podman-compose run starts its container when all that the service needs
\* runs.
NeedsRunFirst ==
  LET h == proc["hand"] IN
  /\ h.cmd.cmd = "run" /\ quiet["hand"] /\ h.calls # <<>> /\ Head(h.calls).op = "oneoff"
  => (~h.cmd.no_deps =>
        \A i \in DOMAIN Firsts(h.cmd.services) : \A n \in Names :
          ServiceOf(n) \in Firsts(h.cmd.services)[i].needs =>
            podman.cnt[n] = "running" \/ podman.image[ServiceOf(n)] = 0)

\* Both commands leave running what they are asked for.
StartsWhatIsNeeded == UpStartsAll /\ NeedsRunFirst

\* refresh: "if true, container image will be pulled/build on every service
\* start".
RefreshedOnStart ==
  unit = "up" /\ Refresh /\ left.faults = MaxFaults =>
    \A s \in Services : podman.image[s] # 0

\* With refresh and ephemeral the service runs containers of the image it
\* stored last, after any crash of the machine and whatever it left: since
\* boot nobody else has touched the stack and no down was cut short.
RunsStoredImage ==
  unit = "up" /\ settled /\ Refresh /\ Ephemeral /\ HasPod =>
    \A n \in proc["main"].alive : podman.made[n] = podman.image[ServiceOf(n)]

\* A command for some services leaves the containers alone that are neither
\* named nor needed; the pod is theirs as well.
OthersUntouched ==
  [][\A n \in Names :
       /\ podman'.cnt[n] # podman.cnt[n]
       /\ proc'["hand"].calls # proc["hand"].calls
       /\ proc["hand"].cmd.cmd \in {"up", "down", "start", "stop", "restart"}
       /\ proc'["hand"].cmd = proc["hand"].cmd
       => ServiceOf(n) \notin Excluded(proc["hand"].cmd.services)]_vars

\* A container that exits is not left alone: once nothing more goes wrong the
\* service has all containers running, or was stopped.
UnitRecovers ==
  <>[](unit = "inactive" \/ (unit = "up" /\ Runs(podman) = Names))
================================================================================
