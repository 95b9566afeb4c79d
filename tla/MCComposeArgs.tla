---------------------------- MODULE MCComposeArgs ----------------------------
(* Compose files for ComposeArgs: two services, the first with two replicas,
   and one thing of the first varied at a time, or how both mount. *)
EXTENDS ComposeArgs, TLC

CONSTANTS r1, r2

MCOrder == << <<"a", 1>>, <<"b", 1>>, <<"a", 2>> >>
MCPaths == {"/p", "/q"}

Short(parts) == [id |-> "short", parts |-> parts]
Long(type, source) ==
  [id |-> "m1", type |-> type, source |-> source, target |-> "/q",
   read_only |-> {}, propagation |-> {}]
Data == Short(<< <<"data">>, <<"/p">> >>)

MountsOfA ==
  << <<>>, <<Data>>, <<Short(<< <<"/p">> >>)>>, <<Short(<< <<"./d">>, <<"/p">>, <<"ro", "z">> >>)>>,
     <<Short(<< <<"/p">>, <<"ro", "rw">> >>)>>, <<Short(<< <<"data">>, <<"/p">>, <<"bad">> >>)>>,
     <<Short(<< <<"data">>, <<"/p">>, <<"ro">>, <<"z">> >>)>>,
     <<Data, Long("volume", {})>>, <<Long("volume", {"data"})>>, <<Data, Long("volume", {"logs"})>>,
     <<Long("bind", {})>>, <<Long("tmpfs", {})>>, <<Long("npipe", {})>> >>
\* The second service: by itself, or with what it inherits from the first.
MountsOfB(a) ==
  << <<Data>>, <<Short(<< <<"/p">> >>)>>, SelectSeq(a, LAMBDA m : ~IsShort(m)) >>

Volume(given, external) == [name |-> given, external |-> external]
VolumeSections ==
  << <<>>, [data |-> Volume({}, {})], [data |-> Volume({"g"}, {})], [data |-> Volume({}, {"yes"})],
     [data |-> Volume({}, {"h"})], [data |-> Volume({"g"}, {}), logs |-> Volume({"g"}, {})] >>

Limits == [deploy |-> [cpus |-> {0}, memory |-> {2}, reservation |-> {}],
           old    |-> [cpus |-> {1}, memory |-> {1}, reservation |-> {}]]

Secret(source, target) == [source |-> source, target |-> target]
Test(list, items) == [list |-> list, items |-> items]

Port(form, target) ==
  [form |-> form, target |-> target, published |-> {8080}, protocol |-> {"tcp"}]

\* What one service may say instead of what the others say.
Variants ==
  << <<"uses", <<Secret("key", {}), Secret("ext", {})>> >>, <<"uses", <<Secret("key", {"/q"})>> >>,
     <<"uses", <<Secret("ext", {"/q"})>> >>, <<"uses", <<Secret("odd", {})>> >>,
     <<"uses", <<Secret("none", {})>> >>,
     <<"ports", <<Port("dict", {80}), Port("text", {80})>> >>,
     <<"ports", <<Port("dict", {})>> >>, <<"ports", <<Port("other", {80})>> >>,
     <<"ulimits", <<[soft |-> {1}, hard |-> {}]>> >>, <<"ulimits", <<[soft |-> {}, hard |-> {}]>> >>,
     <<"health", Test(FALSE, <<>>)>>, <<"health", Test(TRUE, <<>>)>>,
     <<"health", Test(TRUE, <<"CMD-SHELL">>)>>, <<"health", Test(TRUE, <<"true">>)>> >>

\* Lists of health checks, which the second service may have from the first.
Tests ==
  << Test(TRUE, <<"NONE">>), Test(TRUE, <<"CMD", "true">>), Test(TRUE, <<"CMD-SHELL", "true">>) >>

Base ==
  [volumes |-> [data |-> Volume({}, {})],
   mounts  |-> [s \in Service |-> <<Data>>],
   secrets |-> [key |-> [file |-> TRUE, external |-> FALSE, name |-> {}],
                ext |-> [file |-> FALSE, external |-> TRUE, name |-> {}],
                odd |-> [file |-> FALSE, external |-> FALSE, name |-> {}]],
   uses    |-> [s \in Service |-> <<>>],
   ports   |-> [s \in Service |-> <<>>],
   ulimits |-> [s \in Service |-> <<>>],
   limits  |-> [s \in Service |-> Limits],
   health  |-> [s \in Service |-> Test(FALSE, <<"true">>)],
   holds   |-> [s \in Service |-> s],
   plain   |-> [s \in Service |-> {"labels", "user", "command"}]]

MountFile(a, b, v) ==
  [Base EXCEPT !.volumes = VolumeSections[v],
               !.mounts  = [s \in Service |-> IF s = "a" THEN MountsOfA[a] ELSE MountsOfB(MountsOfA[a])[b]]]

\* The mounts that share a name are tried with every volumes section.
Sharing == {2, 8, 9, 10}
Alone   == DOMAIN MountsOfA \ Sharing
MCFiles ==
  {MountFile(a, 1, v) : a \in Sharing, v \in DOMAIN VolumeSections}
    \cup {MountFile(a, 3, v) : a \in Sharing, v \in {2, 3, 6}}
    \cup {MountFile(a, b, 2) : a \in Alone, b \in 1 .. 2}
    \cup {[Base EXCEPT ![Variants[k][1]] = [@ EXCEPT !["a"] = Variants[k][2]]] :
            k \in DOMAIN Variants}
    \cup {[Base EXCEPT !.health["a"] = Tests[k], !.holds["b"] = h] :
            k \in DOMAIN Tests, h \in Service}

\* The files are such as the theorems of ComposeArgsProofs suppose.
ASSUME MCFilesAgree ==
  \A f \in MCFiles : NamesAgree(f) /\ PlacesDiffer(f) /\ ExternalsApart(f)

Symmetric == Permutations(Run)
==============================================================================
