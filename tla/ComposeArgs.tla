------------------------------ MODULE ComposeArgs ------------------------------
(***************************************************************************)
(* How podman-compose turns containers into the arguments of podman: the   *)
(* loop of up over the containers, container_to_args and what it calls for *)
(* volumes, secrets, limits, ports and health checks.                      *)
(*                                                                         *)
(* The conversion is not a pure function: it writes the names of volumes   *)
(* into dicts that containers share, takes items off lists that replicas   *)
(* and, with extends, services share, and creates volumes.  Several        *)
(* podman-compose commands of one project run at once; each has the dicts  *)
(* for itself, the volumes are common.  An optional value is a set of at   *)
(* most one element.                                                       *)
(***************************************************************************)
EXTENDS Naturals, Sequences, FiniteSets, Ranking

CONSTANTS Run,          \* the podman-compose commands
          Service,
          Order,        \* the containers <<service, number>>, as they are started
          Files,        \* the compose files considered
          Source,       \* what volumes are called in the file
          Given,        \* names of volumes and secrets given with name: or external:
          MountId,      \* the mounts the file gives as dicts
          Paths,        \* words that begin with a slash
          Dirs,         \* words that begin with . or ~
          DryRun,       \* the commands given --dry-run
          MaxRemovals   \* bound: volumes removed by hand

None == "none"

\* A list, and an optional value.
IsList(x)   == x \in Seq({x[i] : i \in DOMAIN x})
Optional(S) == \A x, y \in S : x = y

\* Names that are given are told from those that are made up: a file that spells a
\* name like one podman-compose makes is left out.
ASSUME ArgsAssumption ==
  /\ Run # {} /\ None \notin Run /\ "before" \notin Run
  /\ DryRun \subseteq Run /\ MaxRemovals \in Nat
  /\ Order \in Seq(Service \X (Nat \ {0}))
  /\ {"source", "given"} \cap Service = {}
  /\ Source \cap MountId = {} /\ "short" \notin MountId /\ "yes" \notin Given

VARIABLES file,      \* what the compose file says, after normalize
          disk,      \* who made a podman volume: a run, "before" or "none"
          removed,   \* volumes an administrator removed
          pc, todo,  \* where a command is, and the containers left
          at, opts,  \* the mount of Head(todo) it is at, and the options so far
          name,      \* "name" in the dicts of volumes and in "_vol" of mounts
          tests,     \* "test" in the dicts of health checks
          started    \* what podman run was called with

argsVars == <<file, disk, removed, pc, todo, at, opts, name, tests, started>>
memory   == <<name, tests>>

\* project_source, the name given, or project_service_hash.
VolumeName == ({"source"} \X Source) \cup ({"given"} \X Given) \cup (Service \X Paths)

Propagation == {"z", "rslave"}
Options     == {"ro", "rw", "cached"} \cup Propagation

Label == {"parse", "next", "mounts", "inspect", "create", "verify", "done", "raised"}

\* Volumes have a maker or are not there, names are names of volumes, and
\* a command is at a container while it converts one.
ArgsTypeOK ==
  /\ file \in Files
  /\ disk \in [VolumeName -> Run \cup {"before", None}]
  /\ removed \subseteq VolumeName
  /\ pc \in [Run -> Label]
  /\ name \in [Run -> [Source \cup MountId -> SUBSET VolumeName]]
  /\ \A r \in Run : /\ \A k \in DOMAIN name[r] : Optional(name[r][k])
                    /\ pc[r] \in {"mounts", "inspect", "create", "verify"} => todo[r] # <<>>

--------------------------------------------------------------------------------
(* Mounts: a string, split at its colons and each part at its commas, or a dict. *)

IsShort(m) == m.id = "short"

Absolute(part) == part # <<>> /\ Head(part) \in Paths

\* dst:options is told from src:dst by the slash.
HasSource(parts) == Len(parts) = 3 \/ (Len(parts) = 2 /\ Absolute(parts[2]))
MountOptions(parts) ==
  CASE Len(parts) = 3                        -> parts[3]
    [] Len(parts) = 2 /\ ~HasSource(parts)   -> parts[2]
    [] OTHER                                 -> <<>>

LastOf(words, kind) ==
  {words[i] : i \in {j \in DOMAIN words : /\ words[j] \in kind
                                          /\ \A k \in j + 1 .. Len(words) : words[k] \notin kind}}

ParseRaises(parts) ==
  \/ Len(parts) \notin 1 .. 3
  \/ \E i \in DOMAIN MountOptions(parts) : MountOptions(parts)[i] \notin Options

\* parse_short_mount
ParseShort(parts) ==
  LET src == IF HasSource(parts) THEN parts[1] ELSE <<>>
      dst == IF HasSource(parts) THEN parts[2] ELSE parts[1]
      opt == MountOptions(parts)
  IN  [id          |-> "short",
       type        |-> IF src # <<>> /\ Head(src) \in Paths \cup Dirs THEN "bind" ELSE "volume",
       source      |-> IF src = <<>> THEN {} ELSE {Head(src)},
       target      |-> Head(dst),
       read_only   |-> LastOf(opt, {"ro", "rw"}),
       propagation |-> LastOf(opt, Propagation)]

MountDict(m) == IF IsShort(m) THEN ParseShort(m.parts) ELSE m

Parses(m) == IsShort(m) => ~ParseRaises(m.parts)

HealthCheck == [list : BOOLEAN, items : Seq(STRING)]

\* What normalize and extends leave of a file: lists, dicts that are told apart by
\* their id, volumes whose words are among the names and paths.  health is what the
\* dicts of health checks say, each the dict of one service, and holds the service
\* whose dict a service has: with extends that of a base.
ASSUME FilesAssumption ==
  \A f \in Files :
    /\ DOMAIN f.volumes \subseteq Source
    /\ \A k \in DOMAIN f.volumes :
         /\ f.volumes[k].name \subseteq Given /\ Optional(f.volumes[k].name)
         /\ f.volumes[k].external \subseteq Given \cup {"yes"} /\ Optional(f.volumes[k].external)
    /\ f.health \in [Service -> HealthCheck] /\ f.holds \in [Service -> Service]
    /\ \A s \in Service :
         /\ IsList(f.mounts[s]) /\ IsList(f.uses[s]) /\ IsList(f.ports[s]) /\ IsList(f.ulimits[s])
         /\ \A i \in DOMAIN f.mounts[s] :
              LET m == f.mounts[s][i] IN
              /\ IsShort(m) \/ m.id \in MountId
              /\ Parses(m) /\ MountDict(m).type = "volume" =>
                   /\ MountDict(m).source \subseteq Source /\ Optional(MountDict(m).source)
                   /\ MountDict(m).target \in Paths
    /\ \A s, t \in Service : \A i \in DOMAIN f.mounts[s], j \in DOMAIN f.mounts[t] :
         IsShort(f.mounts[s][i]) \/ f.mounts[s][i].id # f.mounts[t][j].id \/ f.mounts[s][i] = f.mounts[t][j]

Declared == DOMAIN file.volumes
GivenName(k) == file.volumes[k].name \cup (file.volumes[k].external \ {"yes"})

\* What the file says of the health check of a service.
Health(s) == file.health[file.holds[s]]

\* The dict fix_mount_dict finds the name in: that of the declared volume, that
\* of the mount, or a new one.
Keys(m) ==
  (IF IsShort(m) THEN {} ELSE {m.id}) \cup (MountDict(m).source \cap Declared)

\* The name it has there.
NameKnown(r, m) == UNION {name[r][k] : k \in Keys(m)}

\* Mutant: anonymous volumes are named without their service.
NameChosenByTarget(c, d) ==
  IF d.source = {} THEN <<CHOOSE s \in Service : TRUE, d.target>>
  ELSE LET source == CHOOSE s \in d.source : TRUE
           given  == IF source \in Declared THEN file.volumes[source].external \ {"yes"} ELSE {}
       IN  IF given # {} THEN <<"given", CHOOSE g \in given : TRUE>> ELSE <<"source", source>>

\* The name fix_mount_dict chooses where there is none.
NameChosen(c, d) ==
  IF d.source = {} THEN <<c[1], d.target>>
  ELSE LET source == CHOOSE s \in d.source : TRUE
           given  == IF source \in Declared THEN file.volumes[source].external \ {"yes"} ELSE {}
       IN  IF given # {} THEN <<"given", CHOOSE g \in given : TRUE>> ELSE <<"source", source>>

VolumeOf(r, c, m) ==
  IF NameKnown(r, m) # {} THEN CHOOSE v \in NameKnown(r, m) : TRUE
                          ELSE NameChosen(c, MountDict(m))

\* assert_volume leaves external volumes alone.
IsExternal(d) == \E s \in d.source \cap Declared : file.volumes[s].external # {}
IsManaged(d)  == d.type = "volume" /\ ~IsExternal(d)

\* mount_desc_to_volume_args, and --tmpfs.
VolumeRaises(d) ==
  \/ d.type \notin {"bind", "volume", "tmpfs"}
  \/ d.type = "bind" /\ d.source = {}

VolumeArgs(d, source) ==
  IF d.type = "tmpfs" THEN [opt |-> "--tmpfs", source |-> {}, target |-> d.target, with |-> {}]
  ELSE [opt |-> "-v", source |-> source, target |-> d.target,
        with |-> d.propagation \cup d.read_only]

--------------------------------------------------------------------------------
(* Secrets, limits, ports and health checks. *)

\* get_secret_args: a secret that is a file is mounted, one that podman keeps
\* goes by its own name only.
SecretRaises(x) ==
  \/ x.source \notin DOMAIN file.secrets
  \/ LET d == file.secrets[x.source] IN
       /\ ~d.file
       /\ \/ ~d.external /\ d.name = {}
          \/ d.name \ {x.source} # {} \/ x.target \ {x.source} # {}

SecretArgs(x) ==
  IF file.secrets[x.source].file
  THEN [opt |-> "--volume", secret |-> x.source,
        below |-> IF x.target \subseteq Paths /\ x.target # {} THEN {} ELSE {"/run/secrets"},
        dest |-> IF x.target = {} THEN {x.source} ELSE x.target]
  ELSE [opt |-> "--secret", secret |-> x.source]

\* container_to_res_args: deploy.resources comes before the older keys; 0 is
\* not a limit.
Limit(new, old) == (IF new \ {0} # {} THEN new ELSE old) \ {0}

ResArgs(s) ==
  LET l == file.limits[s] IN
  [k \in {"cpus", "memory", "reservation"} |-> Limit(l.deploy[k], l.old[k])]

\* norm_ulimit
UlimitRaises(u) == u.soft = {} /\ u.hard = {}
UlimitArgs(u) ==
  [soft |-> IF u.soft = {} THEN u.hard ELSE u.soft,
   hard |-> IF u.hard = {} THEN u.soft ELSE u.hard]

\* norm_ports: a string is taken as it is, a dict by port_dict_to_str, and nothing
\* else is a port.
PortRaises(p) == p.form = "other" \/ (p.form = "dict" /\ p.target = {})
PortArgs(p)   == [p EXCEPT !.protocol = IF p.form = "dict" THEN @ \ {"tcp"} ELSE @]

\* healthcheck.test: the first item of a list is taken off the list.
TestRaises(test) ==
  /\ test.list /\ test.items # <<>>
  /\ \/ Head(test.items) \notin {"NONE", "CMD", "CMD-SHELL"}
     \/ Head(test.items) = "CMD-SHELL" /\ Len(test.items) # 2
TestArgs(test) ==
  IF test.items = <<>> THEN <<>>
  ELSE IF ~test.list THEN <<"/bin/sh -c">> \o test.items
  ELSE IF Head(test.items) = "NONE" THEN <<"--no-healthcheck">>
  ELSE <<"/bin/sh -c">> \o Tail(test.items)

\* Mutant: the first replica takes the test away.
TestTaken(test) == [test EXCEPT !.items = IF @ = <<>> THEN @ ELSE Tail(@)]

TestLeft(test) == [test EXCEPT !.items = IF test.list /\ @ # <<>> THEN Tail(@) ELSE @]

--------------------------------------------------------------------------------
(* container_to_args *)

\* The options that only repeat what a key says, before and after the volumes.
PlainFirst == <<"security_opt", "annotations", "read_only", "labels", "network_mode",
                "cap_add", "cap_drop", "devices", "group_add", "env_file",
                "environment", "tmpfs">>
PlainLast  == <<"user", "working_dir", "hostname", "ipc", "shm_size", "stdin_open",
                "stop_signal", "sysctls", "tty", "privileged", "pull_policy", "restart">>

Mapped(s, Op(_)) == [i \in DOMAIN s |-> Op(s[i])]

Option(k) == [opt |-> k]
Said(keys, s)  == {i \in DOMAIN keys : keys[i] \in file.plain[s]}
Plain(keys, s) == Mapped(Chosen(keys, Said(keys, s)), Option)

\* The options that come after those of the mounts; the image and the command
\* are the last.
AfterMounts(s, test) ==
  Plain(<<"logging">>, s) \o Mapped(file.uses[s], SecretArgs)
    \o Plain(<<"extra_hosts", "expose", "publishall">>, s)
    \o Mapped(file.ports[s], PortArgs) \o Plain(PlainLast, s)
    \o Mapped(file.ulimits[s], UlimitArgs) \o <<ResArgs(s)>>
    \o Plain(<<"init", "init-path", "entrypoint">>, s) \o <<[test |-> TestArgs(test)]>>
    \o <<[opt |-> "image"]>> \o Plain(<<"command">>, s)

\* All options of a container, given those of its mounts.
ContainerArgs(s, mounts, test) == Plain(PlainFirst, s) \o mounts \o AfterMounts(s, test)

\* What raises after the volumes.
RestRaises(s, test) ==
  \/ \E i \in DOMAIN file.uses[s] : SecretRaises(file.uses[s][i])
  \/ \E i \in DOMAIN file.ulimits[s] : UlimitRaises(file.ulimits[s][i])
  \/ TestRaises(test)

--------------------------------------------------------------------------------
(* A command *)

ArgsInit ==
  /\ file \in Files
  /\ disk \in {[v \in VolumeName |-> IF v \in old THEN "before" ELSE None] :
                 old \in {{}, {"given"} \X UNION {GivenName(k) : k \in Declared}}}
  /\ removed = {}
  /\ pc = [r \in Run |-> "parse"]
  /\ \E chosen \in [Run -> SUBSET Service \ {{}}] :
       todo = [r \in Run |-> Chosen(Order, {i \in DOMAIN Order : Order[i][1] \in chosen[r]})]
  /\ at = [r \in Run |-> 1] /\ opts = [r \in Run |-> <<>>]
  /\ name = [r \in Run |-> [k \in Source \cup MountId |->
               IF k \in Declared THEN {<<"given", g>> : g \in file.volumes[k].name} ELSE {}]]
  /\ tests = [r \in Run |-> file.health]
  /\ started = [r \in Run |-> <<>>]

Goto(r, label) == pc' = [pc EXCEPT ![r] = label]
Cnt(r)   == Head(todo[r])
Mount(r) == file.mounts[Cnt(r)[1]][at[r]]

\* The ports of all services are normalised with the file.
Parse(r) ==
  /\ pc[r] = "parse"
  /\ Goto(r, IF \E s \in Service : \E i \in DOMAIN file.ports[s] : PortRaises(file.ports[s][i])
             THEN "raised" ELSE "next")
  /\ UNCHANGED <<file, disk, removed, todo, at, opts, memory, started>>

\* Mutant: the loop goes on after the last container.
NextAlways(r) ==
  /\ pc[r] = "next"
  /\ Goto(r, "mounts")
  /\ at' = [at EXCEPT ![r] = 1]
  /\ opts' = [opts EXCEPT ![r] = <<>>]
  /\ UNCHANGED <<file, disk, removed, todo, memory, started>>

NextContainer(r) ==
  /\ pc[r] = "next"
  /\ Goto(r, IF todo[r] = <<>> THEN "done" ELSE "mounts")
  /\ at' = [at EXCEPT ![r] = 1]
  /\ opts' = [opts EXCEPT ![r] = <<>>]
  /\ UNCHANGED <<file, disk, removed, todo, memory, started>>

\* The mount is an option, and the next one follows.
Emitted(r, source) ==
  /\ Goto(r, "mounts")
  /\ at' = [at EXCEPT ![r] = @ + 1]
  /\ opts' = [opts EXCEPT ![r] = Append(@, VolumeArgs(MountDict(Mount(r)), source))]

\* get_mount_args up to the first call of podman.
MountRaises(r) ==
  /\ pc[r] = "mounts" /\ at[r] \in DOMAIN file.mounts[Cnt(r)[1]]
  /\ Parses(Mount(r)) => VolumeRaises(MountDict(Mount(r)))
  /\ Goto(r, "raised")
  /\ UNCHANGED <<file, disk, removed, todo, at, opts, memory, started>>

FixMount(r) ==
  /\ pc[r] = "mounts" /\ at[r] \in DOMAIN file.mounts[Cnt(r)[1]]
  /\ Parses(Mount(r))
  /\ ~VolumeRaises(MountDict(Mount(r)))
  /\ LET d == MountDict(Mount(r))
         v == VolumeOf(r, Cnt(r), Mount(r))
     IN  /\ name' = IF d.type # "volume" THEN name
                    ELSE [name EXCEPT ![r] = [k \in DOMAIN @ |-> IF k \in Keys(Mount(r)) THEN {v} ELSE @[k]]]
         /\ IF IsManaged(d) THEN Goto(r, "inspect") /\ UNCHANGED <<at, opts>>
            ELSE Emitted(r, IF d.type = "volume" THEN {v} ELSE {"host"} \X d.source)
  /\ UNCHANGED <<file, disk, removed, todo, tests, started>>

MountVolume(r) == VolumeOf(r, Cnt(r), Mount(r))

\* Mutant: a volume that cannot be inspected is taken as it is.
InspectOnly(r) ==
  /\ pc[r] = "inspect"
  /\ Emitted(r, {MountVolume(r)})
  /\ UNCHANGED <<file, disk, removed, todo, memory, started>>

\* Mutant: the volume is created without looking.
CreateAlways(r) ==
  /\ pc[r] = "inspect"
  /\ Goto(r, "create")
  /\ UNCHANGED <<file, disk, removed, todo, at, opts, memory, started>>

\* podman volume inspect || podman volume create
InspectVolume(r) ==
  /\ pc[r] = "inspect"
  /\ IF disk[MountVolume(r)] # None THEN Emitted(r, {MountVolume(r)})
     ELSE Goto(r, "create") /\ UNCHANGED <<at, opts>>
  /\ UNCHANGED <<file, disk, removed, todo, memory, started>>

\* CalledProcessError when the volume exists by now.  check_output does not
\* know of --dry-run.
CreateVolume(r) ==
  /\ pc[r] = "create"
  /\ IF disk[MountVolume(r)] # None THEN Goto(r, "raised") /\ UNCHANGED disk
     ELSE /\ disk' = [disk EXCEPT ![MountVolume(r)] = r]
          /\ Goto(r, "verify")
  /\ UNCHANGED <<file, removed, todo, at, opts, memory, started>>

VerifyVolume(r) ==
  /\ pc[r] = "verify"
  /\ IF disk[MountVolume(r)] # None THEN Emitted(r, {MountVolume(r)})
     ELSE Goto(r, "raised") /\ UNCHANGED <<at, opts>>
  /\ UNCHANGED <<file, disk, removed, todo, memory, started>>

\* The rest of container_to_args, and podman run.
Finish(r) ==
  /\ pc[r] = "mounts" /\ at[r] \notin DOMAIN file.mounts[Cnt(r)[1]]
  /\ LET s == Cnt(r)[1]
         o == file.holds[s] IN
     /\ IF RestRaises(s, tests[r][o])
        THEN Goto(r, "raised") /\ UNCHANGED <<todo, started>>
        ELSE /\ Goto(r, "next")
             /\ todo' = [todo EXCEPT ![r] = Tail(@)]
             /\ started' = [started EXCEPT ![r] = Append(@,
                  [cnt |-> Cnt(r), args |-> ContainerArgs(s, opts[r], tests[r][o])])]
     /\ tests' = [tests EXCEPT ![r][o] = TestLeft(@)]
  /\ UNCHANGED <<file, disk, removed, at, opts, name>>

--------------------------------------------------------------------------------
\* The options a started container got for its mounts, in their order, and the
\* volumes among them.
MountArgs(x) ==
  LET before == Cardinality(Said(PlainFirst, x.cnt[1]))
  IN  SubSeq(x.args, before + 1, before + Len(file.mounts[x.cnt[1]]))
IsVolume(s, i) == MountDict(file.mounts[s][i]).type = "volume"
VolumesOf(x) ==
  UNION {MountArgs(x)[i].source : i \in {j \in DOMAIN MountArgs(x) : IsVolume(x.cnt[1], j)}}
Started(r) == {started[r][i] : i \in DOMAIN started[r]}

\* podman volume rm, of a volume that is not in use.
RemoveVolume(v) ==
  /\ Cardinality(removed) < MaxRemovals
  /\ disk[v] # None
  /\ \A r \in Run : \A x \in Started(r) : r \in DryRun \/ v \notin VolumesOf(x)
  /\ disk' = [disk EXCEPT ![v] = None]
  /\ removed' = removed \cup {v}
  /\ UNCHANGED <<file, pc, todo, at, opts, memory, started>>

Command(r) ==
  \/ Parse(r) \/ NextContainer(r) \/ MountRaises(r) \/ FixMount(r)
  \/ InspectVolume(r) \/ CreateVolume(r) \/ VerifyVolume(r) \/ Finish(r)

ArgsNext ==
  \/ \E r \in Run : Command(r)
  \/ \E v \in VolumeName : RemoveVolume(v)

ArgsSpec == ArgsInit /\ [][ArgsNext]_argsVars

--------------------------------------------------------------------------------
\* What a mount is of: a given name, a name of the file, or nobody's volume, which
\* is that of the dict, or of the service and the place.
Means(s, m) ==
  LET d == MountDict(m) IN
  CASE d.source = {} /\ IsShort(m)  -> <<"anonymous", s, d.target>>
    [] d.source = {} /\ ~IsShort(m) -> <<"anonymous", m.id>>
    [] OTHER -> LET k == CHOOSE k \in d.source : TRUE IN
                IF k \in Declared /\ GivenName(k) # {} THEN <<"given", CHOOSE g \in GivenName(k) : TRUE>>
                                                      ELSE <<"named", k>>

VolumeMounts(r) ==
  UNION {{[means |-> Means(x.cnt[1], file.mounts[x.cnt[1]][i]), volume |-> MountArgs(x)[i].source] :
            i \in {j \in DOMAIN MountArgs(x) : IsVolume(x.cnt[1], j)}} : x \in Started(r)}

\* What a file is supposed to be like: it gives a volume one name, two volumes of a
\* container are not at one place (podman refuses them), and a volume is not said to be
\* external at one key and not at another.
Anonymous(m) == Parses(m) /\ MountDict(m).type = "volume" /\ MountDict(m).source = {}

NamesAgree(f) ==
  \A k \in DOMAIN f.volumes : Optional(f.volumes[k].name \cup (f.volumes[k].external \ {"yes"}))
PlacesDiffer(f) ==
  \A s \in Service : \A i, j \in DOMAIN f.mounts[s] :
    \A m \in {f.mounts[s][i]}, n \in {f.mounts[s][j]} :
      Anonymous(m) /\ Anonymous(n) /\ MountDict(m).target = MountDict(n).target => m.id = n.id
ExternalsApart(f) ==
  \A k, l \in DOMAIN f.volumes :
    f.volumes[k].external # {} /\ f.volumes[l].external = {} =>
      f.volumes[l].name \cap (f.volumes[k].name \cup (f.volumes[k].external \ {"yes"})) = {}

\* Containers share a volume exactly when their mounts mean the same one,
\* although its name is written into shared dicts as the loop goes on.  Another
\* command agrees, except about volumes without a name.
VolumesToldApart ==
  \A r, q \in Run : \A x \in VolumeMounts(r), y \in VolumeMounts(q) :
    r = q \/ (x.means[1] # "anonymous" /\ y.means[1] # "anonymous") =>
      (x.volume = y.volume <=> x.means = y.means)

\* A container is started on volumes that were there when it was converted, and
\* those of others are never created here.
VolumesExist ==
  /\ \A r \in Run : \A x \in Started(r) : \A i \in DOMAIN MountArgs(x) :
       IsManaged(MountDict(file.mounts[x.cnt[1]][i])) =>
         \A v \in MountArgs(x)[i].source : disk[v] # None \/ v \in removed
  /\ \A k \in Declared : file.volumes[k].external # {} =>
       \A g \in GivenName(k) : disk[<<"given", g>>] \notin Run

\* What is wrong with what the file says of a service.
Wrong(s) ==
  \/ RestRaises(s, Health(s))
  \/ \E i \in DOMAIN file.mounts[s] :
       Parses(file.mounts[s][i]) => VolumeRaises(MountDict(file.mounts[s][i]))

\* A command gives up only for a mistake in the file, for a health check whose list
\* an earlier container took the first item of, be it of the same service or of one
\* that has the list through extends, for a volume that another command created after
\* it had looked, or for one that was removed.
FailsForAReason ==
  \A r \in Run : pc[r] = "raised" =>
    \/ \E s \in Service : \E i \in DOMAIN file.ports[s] : PortRaises(file.ports[s][i])
    \/ Wrong(Cnt(r)[1])
    \/ /\ Health(Cnt(r)[1]).list
       /\ \E x \in Started(r) : file.holds[x.cnt[1]] = file.holds[Cnt(r)[1]]
    \/ at[r] \in DOMAIN file.mounts[Cnt(r)[1]] /\ disk[MountVolume(r)] \in Run \ {r}
    \/ removed # {}

\* The replicas of a service are started alike, unless their health check is a
\* list.
ReplicasAlike ==
  \A r \in Run : \A x, y \in Started(r) :
    x.cnt[1] = y.cnt[1] /\ ~Health(x.cnt[1]).list => x.args = y.args

\* podman_compose.py:1250 "No action; perform a simulation of commands".
DryRunChangesNothing == \A v \in VolumeName : disk[v] \notin DryRun
================================================================================
