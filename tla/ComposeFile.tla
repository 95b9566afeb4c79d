------------------------------ MODULE ComposeFile ------------------------------
(***************************************************************************)
(* How podman-compose reads a compose file: the names a service needs are  *)
(* collected and completed (ComposeDeps, twice), the services that extend  *)
(* others are merged with them, and the containers are made, ordered and   *)
(* transformed for podman.                                                 *)
(*                                                                         *)
(* Python's dicts and lists are shared, not copied, by the merge: what a   *)
(* service holds under a key is a reference, and obj says what is in the   *)
(* object.  Values are named by the place that wrote them: <<s, "own">> is *)
(* what service s of this file gives, <<s, "file">> what a service s of    *)
(* another file gives.  An optional value is a set of at most one element. *)
(* Lists are modelled as the set of their items; a list may be written as  *)
(* one string, which the merge replaces as it does scalars.                *)
(***************************************************************************)
EXTENDS ComposeDeps, Ranking

CONSTANTS ByName,      \* the services in alphabetical order
          FileOrders,  \* the orders a file may have them in
          Files,       \* the compose files considered
          Elsewhere,   \* the services of the other file that extends may name
          Policy       \* the transform policies considered

VARIABLES file,        \* the compose file, all -f files merged and normalised
          order,       \* the services in the order of the file
          srv,         \* services: what each holds under a key
          obj,         \* the lists and dicts the services refer to
          pending,     \* the services resolve_extends has still to visit
          phase,       \* what _parse_compose_file does
          given,       \* given_containers
          pods, containers   \* the result

fileVars == <<file, order, srv, obj, pending, phase, given, pods, containers>>

Scalars == {"image", "container_name"}
Lists   == {"ports", "depends_on"}
Refs    == Lists \cup {"deploy"}

Object == Service \X {"own", "file"}
Place  == Name \X {"own", "file"}

Own(s)      == <<s, "own">>
FromFile(s) == <<s, "file">>

\* The names containers can have: <<s, n>> is project_s_n, <<s, 0>> a word of its
\* own.
ContainerNames == Name \X (0 .. 2)

\* What a service of a compose file may say: text are the lists it writes as a
\* string, called what container_name spells, which may be what another container
\* is called, and deploy holds the replicas.
Desc == [extends : {{}} \cup {{e} : e \in [service : Name, file : BOOLEAN]},
         gives   : SUBSET (Scalars \cup {"ports"}),
         depends : SUBSET Name,
         text    : SUBSET Lists,
         called  : ContainerNames,
         deploy  : {{}} \cup {{n} : n \in 0 .. 2}]

Policies == {"identity", "publishall", "hostnet", "cntnet", "1pod", "1podfw"}

\* A list of all services, each of them once.
Enumerates(s) ==
  /\ s \in Seq(Service)
  /\ \A t \in Service : \E i \in DOMAIN s : s[i] = t
  /\ \A i, j \in DOMAIN s : s[i] = s[j] => i = j

ASSUME FilesAssumption ==
  /\ Files \subseteq [Service -> Desc]
  /\ \A f \in Files : \A s \in Service :     \* a string is one name
       "depends_on" \in f[s].text => \A m, n \in f[s].depends : m = n
  /\ Enumerates(ByName) /\ \A s \in FileOrders : Enumerates(s)
  /\ Policy \subseteq Policies

Phase == {"extends", "resolve", "depends", "transform", "done", "raised"}

Container == [name : (Name \cup {"infra"}) \X (0 .. 2), service : SUBSET Service,
              ports : SUBSET Place, hosts : SUBSET Service]

FileTypeOK ==
  /\ DepsTypeOK
  /\ file \in [Service -> Desc]
  /\ srv \in [Service -> [Scalars \cup Refs -> SUBSET (Place \cup Object)]]
  /\ \A s \in Service : \A k \in Refs : srv[s][k] \subseteq Object
  /\ \A o \in Object : /\ obj["ports"][o] \subseteq Place
                       /\ obj["depends_on"][o] \subseteq Name
                       /\ obj["deploy"][o] \in 0 .. 2
  /\ pending \in Seq(Service)
  /\ phase \in Phase
  /\ \A i \in DOMAIN given : given[i] \in Container
  /\ \A i \in DOMAIN containers : containers[i] \in Container
  /\ \A i \in DOMAIN pods : pods[i] \in [ports : SUBSET Place]

--------------------------------------------------------------------------------
\* The file has the key for this service.
Says(s, k) == IF k = "depends_on" THEN file[s].depends # {} ELSE k \in file[s].gives

\* A value that is a string.
IsText(k, o) == k \in Scalars \/ (o[2] = "own" /\ k \in file[o[1]].text)

\* Under a key of a service: the items of the list, or none.
Items(s, k) == UNION {obj[k][o] : o \in srv[s][k]}

\* The names flat_deps collects: with extends, the service that is extended
\* instead of all others.
NamesExtended(s) ==
  IF file[s].extends # {} THEN {e.service : e \in file[s].extends} \ {s}
                          ELSE file[s].depends

\* ... and the names of depends_on and links.
NamesNeeded == [s \in Service |-> Items(s, "depends_on")]

--------------------------------------------------------------------------------
FileInit ==
  /\ file \in Files
  /\ order \in FileOrders
  /\ srv = [s \in Service |->
              [k \in Scalars \cup Refs |->
                 CASE k = "depends_on" -> IF file[s].depends # {} THEN {Own(s)} ELSE {}
                   [] k = "deploy"     -> IF file[s].deploy # {} THEN {Own(s)} ELSE {}
                   [] OTHER            -> IF k \in file[s].gives THEN {Own(s)} ELSE {}]]
  /\ obj = [k \in Refs |-> [o \in Object |->
              IF o[2] = "file" THEN IF k = "deploy" THEN 1 ELSE {}
              ELSE CASE k = "ports"      -> {o}
                     [] k = "depends_on" -> file[o[1]].depends
                     [] k = "deploy"     -> IF file[o[1]].deploy = {} THEN 1
                                            ELSE CHOOSE n \in file[o[1]].deploy : TRUE]]
  /\ pending = <<>> /\ phase = "extends"
  /\ given = <<>> /\ pods = <<>> /\ containers = <<>>
  /\ direct = [s \in Service |-> NamesExtended(s)]
  /\ DepsInit

\* The services are visited in the order of the file, the names of a set in
\* any order.
Walk ==
  /\ phase \in {"extends", "depends"}
  /\ DepsNext
  /\ \A s \in todo \ todo' : \A i, j \in DOMAIN order :
       order[i] \in todo /\ order[j] = s => j <= i
  /\ UNCHANGED fileVars

\* RecursionError.
WalkRaises ==
  /\ phase \in {"extends", "depends"} /\ overflow
  /\ phase' = "raised"
  /\ UNCHANGED <<file, order, srv, obj, pending, given, pods, containers>>
  /\ UNCHANGED depsVars

\* resolve_extends goes through the services by the number of names they
\* need, then by name.
SortForExtends ==
  /\ phase = "extends" /\ Flattened
  /\ pending' = Sorted(ByName, [i \in DOMAIN ByName |-> Cardinality(deps[ByName[i]])])
  /\ phase' = "resolve"
  /\ UNCHANGED <<file, order, srv, obj, given, pods, containers>>
  /\ UNCHANGED depsVars

\* Mutant: a list replaces the list that was there.
Replaced(k, old, new) == new

\* What is under a key when a value is merged into one that was there.
Merged(k, old, new) == IF k \in Lists THEN old \cup new ELSE new

\* A key is a string in one of the two and a list in the other: ValueError.
Differ(s, base) == \E k \in Lists : \E o \in base[k], p \in srv[s][k] : IsText(k, o) # IsText(k, p)

\* The service's own value is a string.
Replaces(s, k) == \E p \in srv[s][k] : IsText(k, p)

\* rec_merge({}, base, service): the new dict takes the objects of the base
\* and puts into them what the service's own hold, strings excepted.
MergeWith(s, base, heap) ==
  /\ ~Differ(s, base)
  /\ srv' = [srv EXCEPT ![s] =
       [k \in Scalars \cup Refs |->
          IF Replaces(s, k) \/ base[k] = {} THEN srv[s][k] ELSE base[k]]]
  /\ obj' = [k \in Refs |-> [o \in Object |->
       IF base[k] = {o} /\ srv[s][k] # {} /\ ~Replaces(s, k)
       THEN Merged(k, heap[k][o], heap[k][CHOOSE p \in srv[s][k] : TRUE])
       ELSE heap[k][o]]]

\* What a service of the other file holds, in objects of its own.
Loaded(s, from) ==
  [k \in Scalars \cup Refs |->
     IF from \notin Elsewhere THEN {}
     ELSE CASE k = "image" -> {FromFile(from)}
            [] k = "ports" -> {FromFile(s)}
            [] OTHER       -> {}]

Resolve ==
  /\ phase = "resolve" /\ pending # <<>>
  /\ pending' = Tail(pending)
  /\ LET s == Head(pending) IN
     \/ /\ file[s].extends = {}
        /\ UNCHANGED <<srv, obj, phase>>
     \/ \E e \in file[s].extends : e.file
          /\ MergeWith(s, Loaded(s, e.service),
                       [obj EXCEPT !["ports"][FromFile(s)] = {FromFile(e.service)}])
          /\ UNCHANGED phase
     \/ \E e \in file[s].extends : ~e.file /\ e.service \in Service
          /\ MergeWith(s, srv[e.service], obj)
          /\ UNCHANGED phase
     \/ \E e \in file[s].extends :
          /\ IF e.file THEN Differ(s, Loaded(s, e.service))
                       ELSE e.service \in Service /\ Differ(s, srv[e.service])
          /\ phase' = "raised"          \* ValueError: can't merge
          /\ UNCHANGED <<srv, obj>>
     \/ \E e \in file[s].extends : ~e.file /\ e.service \notin Service
          /\ phase' = "raised"          \* KeyError: '_deps'
          /\ UNCHANGED <<srv, obj>>
  /\ UNCHANGED <<file, order, given, pods, containers>>
  /\ UNCHANGED depsVars

\* Mutant: the sets of the first walk are used again.
CollectOnce ==
  /\ phase = "resolve" /\ pending = <<>>
  /\ phase' = "depends"
  /\ UNCHANGED <<file, order, srv, obj, pending, given, pods, containers>>
  /\ UNCHANGED depsVars

\* The names are collected from the merged services.
CollectAgain ==
  /\ phase = "resolve" /\ pending = <<>>
  /\ CollectDeps(NamesNeeded)
  /\ phase' = "depends"
  /\ UNCHANGED <<file, order, srv, obj, pending, given, pods, containers>>

--------------------------------------------------------------------------------
Replicas(s) ==
  IF srv[s]["deploy"] = {} THEN 1
  ELSE CHOOSE n \in 0 .. 2 : \E o \in srv[s]["deploy"] : n = obj["deploy"][o]

\* Mutant: one number too far.
NameOffByOne(s, n) ==
  IF n = 1 /\ srv[s]["container_name"] # {}
  THEN file[CHOOSE t \in Service : Own(t) \in srv[s]["container_name"]].called
  ELSE <<s, n + 1>>

\* The name of a replica: container_name counts for the first one only.
ContainerName(s, n) ==
  IF n = 1 /\ srv[s]["container_name"] # {}
  THEN file[CHOOSE t \in Service : Own(t) \in srv[s]["container_name"]].called
  ELSE <<s, n>>

\* The n-th container of a service.
ContainerOf(s, n) ==
  [name |-> ContainerName(s, n), service |-> {s}, ports |-> Items(s, "ports"), hosts |-> {}]

\* The list of all containers, in the order of the file.
AllContainers ==
  LET all == {p \in (DOMAIN order) \X (1 .. 2) : p[2] <= Replicas(order[p[1]])}
      at  == InOrder(Lexicographic, all)
  IN  [k \in DOMAIN at |-> ContainerOf(order[at[k][1]], at[k][2])]

\* Mutant: containers are told apart by their service.
OnePerService(s) ==
  Chosen(s, {i \in DOMAIN s : \A j \in 1 .. i - 1 : s[j].service # s[i].service})

\* list(dict([(c["name"], c) ...]).values()): the place of the first container
\* of a name, the contents of the last.
OnePerName(s) ==
  LET named(i) == {j \in DOMAIN s : s[j].name = s[i].name}
      firsts   == {i \in DOMAIN s : \A j \in named(i) : i <= j}
      last     == [i \in DOMAIN s |-> CHOOSE j \in named(i) : \A k \in named(i) : k <= j]
  IN  Chosen([i \in DOMAIN s |-> s[last[i]]], firsts)

\* Those with fewer names in "_deps" come first.
ByDeps(s) ==
  Sorted(s, [i \in DOMAIN s |-> Cardinality(UNION {deps[t] : t \in s[i].service})])

MakeContainers ==
  /\ phase = "depends" /\ Flattened
  /\ given' = ByDeps(OnePerName(AllContainers))
  /\ phase' = "transform"
  /\ UNCHANGED <<file, order, srv, obj, pending, pods, containers>>
  /\ UNCHANGED depsVars

\* adj_hosts: a container finds every service under its name.
WithHosts(cs) == [i \in DOMAIN cs |-> [cs[i] EXCEPT !.hosts = Service]]

\* move_list
AllPorts(cs)    == UNION {cs[i].ports : i \in DOMAIN cs}
WithoutPorts(cs) == [i \in DOMAIN cs |-> [cs[i] EXCEPT !.ports = {}]]
AllHosts(cs)    == UNION {cs[i].hosts : i \in DOMAIN cs}
WithoutHosts(cs) == [i \in DOMAIN cs |-> [cs[i] EXCEPT !.hosts = {}]]

\* The container whose network the others share; it belongs to no service.
Infra(cs) == [name |-> <<"infra", 1>>, service |-> {},
              ports |-> AllPorts(cs), hosts |-> AllHosts(cs)]

Transform(p) ==
  /\ phase = "transform"
  /\ LET cs == WithHosts(given) IN
       CASE p = "identity" -> pods' = <<>> /\ containers' = given
         [] p \in {"publishall", "hostnet"} -> pods' = <<>> /\ containers' = cs
         [] p = "cntnet" -> pods' = <<>> /\ containers' = <<Infra(cs)>> \o WithoutHosts(WithoutPorts(cs))
         [] p = "1pod" -> pods' = << [ports |-> {}] >> /\ containers' = cs
         [] p = "1podfw" -> pods' = << [ports |-> AllPorts(cs)] >> /\ containers' = WithoutPorts(cs)
  /\ phase' = "done"
  /\ UNCHANGED <<file, order, srv, obj, pending, given>>
  /\ UNCHANGED depsVars

FileNext ==
  \/ Walk \/ WalkRaises \/ SortForExtends \/ Resolve \/ CollectAgain
  \/ MakeContainers \/ \E p \in Policy : Transform(p)

FileSpec == FileInit /\ [][FileNext]_<<fileVars, depsVars>>

--------------------------------------------------------------------------------
\* The graph the order of resolve_extends comes from, and its part that is
\* about services of this file.
ExtendsGraph == [s \in Service |-> NamesExtended(s)]
Bases        == [s \in Service |-> {e.service : e \in {x \in file[s].extends : ~x.file}}]

\* A service and all it extends, directly or not, and those that say a key.
Chain(s)     == {s} \cup (Needs(Bases, s) \cap Service)
Givers(s, k) == {t \in Chain(s) : Says(t, k)}

\* The nearest of them.
Nearest(s, k) == {t \in Givers(s, k) : Givers(s, k) \subseteq Chain(t)}

\* The end of the chain may lie in the other file.
FarEnd(s) ==
  {FromFile(e.service) : e \in {x \in UNION {file[t].extends : t \in Chain(s)} :
                                   x.file /\ x.service \in Elsewhere}}

\* The services are what they will be.
Resolved == phase = "transform"

\* What a service says itself wins over what it extends, and the nearest of
\* its bases over those further away: resolve_extends never merges with a base
\* it has still to resolve.
NearestWins ==
  Resolved /\ Acyclic(ExtendsGraph) =>
    \A s \in Service : \A k \in Scalars :
      srv[s][k] = IF Givers(s, k) # {} THEN {Own(t) : t \in Nearest(s, k)}
                  ELSE IF k = "image" THEN FarEnd(s) ELSE {}

\* A list that is given as a string is replaced like a scalar, ...
StringsReplace ==
  Resolved /\ Acyclic(ExtendsGraph) =>
    \A s \in Service : \A k \in Lists : \A t \in Nearest(s, k) :
      k \in file[t].text => srv[s][k] = {Own(t)}

\* ... and of lists a service has every item of its chain, in spite of the shared
\* objects.
NothingLost ==
  Resolved /\ Acyclic(ExtendsGraph) =>
    \A s \in Service :
      /\ (\A t \in Givers(s, "ports") : "ports" \notin file[t].text) =>
           {Own(t) : t \in Givers(s, "ports")} \cup FarEnd(s) \subseteq Items(s, "ports")
      /\ (\A t \in Givers(s, "depends_on") : "depends_on" \notin file[t].text) =>
           UNION {file[t].depends : t \in Chain(s)} \subseteq Items(s, "depends_on")

\* Containers are listed after the containers of everything their service
\* needs, under every policy and with the dependencies it inherited.
DependenciesFirst ==
  phase = "done" /\ Acyclic(NamesNeeded) =>
    \A j \in DOMAIN containers : \A i \in 1 .. j - 1 :
      \A s \in containers[i].service : \A d \in containers[j].service :
        d \notin Needs(NamesNeeded, s)

\* The ports of the services are published by the pod or by a container, and
\* no others: no transformation loses or invents one.
PortsPublished ==
  phase = "done" =>
    AllPorts(pods) \cup AllPorts(containers)
      = UNION {Items(s, "ports") : s \in UNION {given[i].service : i \in DOMAIN given}}

\* What the n-th container of a service is called by the file, and the services
\* with a container of that name.
Meant(s, n) ==
  IF n = 1 /\ Givers(s, "container_name") # {}
  THEN file[CHOOSE t \in Service : t \in Nearest(s, "container_name")].called
  ELSE <<s, n>>
Bearers(name) == {s \in Service : \E n \in 1 .. Replicas(s) : Meant(s, n) = name}

Position(s) == CHOOSE i \in DOMAIN order : order[i] = s

\* Every name the file gives is the name of one container.  Where several have it,
\* a container_name being what another one is called, that one is of the service
\* that comes last in the file; no container is lost otherwise.
EveryReplicaListed ==
  phase = "done" /\ Acyclic(ExtendsGraph) =>
    \A name \in ContainerNames : Bearers(name) # {} =>
      \E i \in DOMAIN containers :
        /\ containers[i].name = name
        /\ \E s \in Bearers(name) :
             /\ containers[i].service = {s}
             /\ \A t \in Bearers(name) : Position(t) <= Position(s)
        /\ \A j \in DOMAIN containers :
             containers[j].name = name /\ containers[j].service # {} => j = i

\* On the way from the services to podman no value a service says or inherits
\* is lost, ...
InheritsAll == NearestWins /\ StringsReplace /\ NothingLost

\* ... and no container or port of a service.
StackComplete == EveryReplicaListed /\ PortsPublished

\* A service has all its containers.
ReplicasCounted ==
  phase = "done" => \A s \in Service :
    Cardinality({i \in DOMAIN containers : containers[i].service = {s}}) = Replicas(s)

\* rec_merge_one updates "target from source": what a service says and
\* inherits is all it gets, and no service changes another.
InheritsExactly ==
  Resolved /\ Acyclic(ExtendsGraph) =>
    \A s \in Service : Items(s, "ports") = {Own(t) : t \in Givers(s, "ports")} \cup FarEnd(s)
================================================================================
