--------------------------- MODULE ComposeArgsProofs ---------------------------
(***************************************************************************)
(* The properties of module ComposeArgs, for every set of files, any       *)
(* number of commands of one project at once, every order of the           *)
(* containers and volumes that are removed by hand at any moment.          *)
(*                                                                         *)
(* The names of volumes are written into dicts that containers share.      *)
(* NameInv says that they are, at any moment, what the mounts mean         *)
(* (MeantBy), so that what is not written yet will agree with what is.     *)
(* Made is what the option of a mount is like once it is there;            *)
(* OptsInv says it of the container a command is at, StartedInv of those   *)
(* it has started.  TestsInv is about the lists of health checks that lose *)
(* an item, WaitInv about what may happen between two calls of podman.     *)
(***************************************************************************)
EXTENDS ComposeArgs, RankingProofs

\* The name of the volume that a name of the file stands for.
MeantBy(k) ==
  IF k \notin Declared THEN <<"source", k>>
  ELSE IF file.volumes[k].name # {} THEN <<"given", CHOOSE g \in file.volumes[k].name : TRUE>>
  ELSE IF file.volumes[k].external \ {"yes"} # {}
       THEN <<"given", CHOOSE g \in file.volumes[k].external \ {"yes"} : TRUE>>
       ELSE <<"source", k>>

MountsOf(s) == {file.mounts[s][i] : i \in DOMAIN file.mounts[s]}

DeclaredNames(r) ==
  \A k \in Declared : /\ name[r][k] \subseteq {MeantBy(k)}
                      /\ file.volumes[k].name # {} => name[r][k] # {}

\* An anonymous volume is named after a service that has the dict.
LongNames(r, m) ==
  /\ \A k \in m.source : name[r][m.id] \subseteq {MeantBy(k)}
  /\ m.source = {} =>
       name[r][m.id] \subseteq {<<t, m.target>> : t \in {u \in Service : m \in MountsOf(u)}}

NameInv ==
  \A r \in Run :
    /\ DeclaredNames(r)
    /\ \A s \in Service : \A m \in MountsOf(s) : ~IsShort(m) => LongNames(r, m)

\* The volume of a mount of service s, and whether it cannot change any more.
Vol(r, s, m)   == VolumeOf(r, <<s, 1>>, m)
Fixed(r, m)    == Keys(m) = {} \/ NameKnown(r, m) # {}
There(v)       == disk[v] # None \/ v \in removed

\* o is the option that mount m of service s becomes.
Made(r, s, m, o) ==
  LET d == MountDict(m) IN
  /\ Parses(m)
  /\ d.type # "volume" => o = VolumeArgs(d, {"host"} \X d.source)
  /\ d.type = "volume" => o = VolumeArgs(d, {Vol(r, s, m)}) /\ Fixed(r, m)
  /\ IsManaged(d)      => There(Vol(r, s, m))

Asking     == {"inspect", "create", "verify"}
Converting == {"mounts"} \cup Asking

\* The list l holds what the first mounts of service s became.
MadeOf(r, s, l) ==
  /\ Len(l) <= Len(file.mounts[s])
  /\ \A i \in 1 .. Len(l) :
       \A m \in {file.mounts[s][i]}, o \in {l[i]} : Made(r, s, m, o)

OptsOf(r) ==
  /\ pc[r] \in Converting =>
       \A s \in {Cnt(r)[1]}, l \in {opts[r]} : Len(l) = at[r] - 1 /\ MadeOf(r, s, l)
  /\ pc[r] \in Asking =>
       \A s \in {Cnt(r)[1]}, m \in {Mount(r)} :
         at[r] \in DOMAIN file.mounts[s] /\ Parses(m) /\ IsManaged(MountDict(m)) /\ Fixed(r, m)

OptsInv == \A r \in Run : OptsOf(r)

StartedAs(r, x) ==
  LET s == x.cnt[1] IN
  \A l \in {MountArgs(x)}, h \in {Health(s)} :
    /\ s \in Service
    /\ IsList(l) /\ Len(l) = Len(file.mounts[s])
    /\ MadeOf(r, s, l)
    /\ ~h.list => x.args = ContainerArgs(s, l, h)

StartedInv == \A r \in Run : \A x \in Started(r) : StartedAs(r, x)

\* The list of a health check is whole until a container of a service that has it has
\* started.
TestsOf(r) ==
  /\ \A s \in Service : ~file.health[s].list => tests[r][s] = file.health[s]
  /\ pc[r] # "raised" =>
       \A s \in Service :
         (\A x \in Started(r) : file.holds[x.cnt[1]] # s) => tests[r][s] = file.health[s]

TestsInv == \A r \in Run : TestsOf(r)

\* A volume that is there when it is to be created is another command's.
WaitOf(r) ==
  /\ pc[r] = "create" => disk[MountVolume(r)] \in {None} \cup (Run \ {r})
  /\ pc[r] = "verify" => disk[MountVolume(r)] # None \/ removed # {}

WaitInv == \A r \in Run : WaitOf(r)

FailOf(r) ==
  pc[r] = "raised" =>
    \/ \E s \in Service : \E i \in DOMAIN file.ports[s] : PortRaises(file.ports[s][i])
    \/ \E c \in {Cnt(r)} :
         \/ Wrong(c[1])
         \/ /\ Health(c[1]).list
            /\ \E x \in Started(r) : file.holds[x.cnt[1]] = file.holds[c[1]]
    \/ /\ at[r] \in DOMAIN file.mounts[Cnt(r)[1]] /\ MountVolume(r) \in VolumeName
       /\ disk[MountVolume(r)] \in Run \ {r}
    \/ removed # {}

FailInv == \A r \in Run : FailOf(r)

StateInv ==
  /\ ArgsTypeOK
  /\ todo \in [Run -> Seq(Service \X (Nat \ {0}))]
  /\ at \in [Run -> Nat \ {0}]
  /\ opts = [r \in Run |-> opts[r]] /\ \A r \in Run : IsList(opts[r])
  /\ tests \in [Run -> [Service -> HealthCheck]]
  /\ started = [r \in Run |-> started[r]] /\ \A r \in Run : IsList(started[r])

ArgsInv == StateInv /\ NameInv /\ OptsInv /\ StartedInv /\ TestsInv /\ WaitInv /\ FailInv

--------------------------------------------------------------------------------
(* Lists. *)

LEMMA ListFacts ==
  ASSUME NEW s, IsList(s)
  PROVE  /\ Len(s) \in Nat /\ DOMAIN s = 1 .. Len(s)
         /\ \A i \in 1 .. Len(s) : s[i] \in {s[j] : j \in DOMAIN s}
<1> DEFINE S == {s[j] : j \in DOMAIN s}
<1>1. s \in Seq(S)
  BY DEF IsList
<1> HIDE DEF S
<1>2. Len(s) \in Nat /\ DOMAIN s = 1 .. Len(s) /\ \A i \in 1 .. Len(s) : s[i] \in S
  BY <1>1, LenProperties, ElementOfSeq
<1> QED
  BY <1>2 DEF S

LEMMA SeqIsList ==
  ASSUME NEW S, NEW s \in Seq(S)
  PROVE  IsList(s)
<1>1. Len(s) \in Nat /\ s \in [1 .. Len(s) -> S] /\ DOMAIN s = 1 .. Len(s)
  BY LenProperties
<1> DEFINE T == {s[j] : j \in DOMAIN s}
<1>2. s \in [1 .. Len(s) -> T]
  BY <1>1
<1> HIDE DEF T
<1>3. s \in Seq(T)
  BY <1>1, <1>2
<1> QED
  BY <1>3 DEF IsList, T

LEMMA MadeList ==
  ASSUME NEW n \in Nat, NEW s, s = [i \in 1 .. n |-> s[i]]
  PROVE  IsList(s) /\ Len(s) = n
<1> DEFINE T == {s[i] : i \in 1 .. n}
<1>1. s \in [1 .. n -> T]
  <2>1. \A i \in 1 .. n : s[i] \in T
    OBVIOUS
  <2> HIDE DEF T
  <2> QED
    BY <2>1
<1> HIDE DEF T
<1>2. s \in Seq(T) /\ Len(s) = n
  BY <1>1
<1> QED
  BY <1>2, SeqIsList

LEMMA Both ==
  ASSUME NEW s, IsList(s), NEW t, IsList(t)
  PROVE  \E S : s \in Seq(S) /\ t \in Seq(S)
<1> DEFINE S == {s[i] : i \in DOMAIN s}
           T == {t[i] : i \in DOMAIN t}
<1>1. s \in Seq(S) /\ t \in Seq(T)
  BY DEF IsList
<1> HIDE DEF S, T
<1>2. s \in Seq(S \cup T) /\ t \in Seq(S \cup T)
  BY <1>1, SeqMonotonic
<1> QED
  BY <1>2

LEMMA Joined ==
  ASSUME NEW s, IsList(s), NEW t, IsList(t)
  PROVE  IsList(s \o t) /\ Len(s \o t) = Len(s) + Len(t)
<1>1. PICK S : s \in Seq(S) /\ t \in Seq(S)
  BY Both
<1>2. s \o t \in Seq(S) /\ Len(s \o t) = Len(s) + Len(t)
  BY <1>1, ConcatProperties
<1> QED
  BY <1>2, SeqIsList

\* The part of a list between two others.
LEMMA Middle ==
  ASSUME NEW a, IsList(a), NEW b, IsList(b), NEW c, IsList(c)
  PROVE  SubSeq((a \o b) \o c, Len(a) + 1, Len(a) + Len(b)) = b
<1> DEFINE ab == a \o b
           s  == ab \o c
           m  == Len(a) + 1
           n  == Len(a) + Len(b)
<1>1. Len(a) \in Nat /\ Len(b) \in Nat /\ Len(c) \in Nat
  BY ListFacts
<1>2. IsList(ab) /\ Len(ab) = Len(a) + Len(b)
  BY Joined
<1>3. PICK S : a \in Seq(S) /\ b \in Seq(S)
  BY Both
<1>4. \A i \in 1 .. Len(a) + Len(b) : ab[i] = IF i <= Len(a) THEN a[i] ELSE b[i - Len(a)]
  BY <1>3, ConcatProperties
<1> HIDE DEF ab
<1>5. PICK T : ab \in Seq(T) /\ c \in Seq(T)
  BY <1>2, Both
<1>6. s \in Seq(T) /\ Len(s) = Len(ab) + Len(c)
      /\ \A i \in 1 .. Len(ab) + Len(c) : s[i] = IF i <= Len(ab) THEN ab[i] ELSE c[i - Len(ab)]
  BY <1>5, ConcatProperties
<1> HIDE DEF s
<1>7. \A i \in m .. n : i \in 1 .. Len(a) + Len(b) /\ s[i] = ab[i] /\ ab[i] = b[i - Len(a)]
  BY <1>1, <1>2, <1>4, <1>6
<1>8. \A i \in m .. n : s[i] \in S
  <2> SUFFICES ASSUME NEW i \in m .. n PROVE s[i] \in S
    OBVIOUS
  <2>1. i - Len(a) \in 1 .. Len(b) /\ s[i] = b[i - Len(a)]
    BY <1>1, <1>7
  <2> QED
    BY <1>3, <2>1, ElementOfSeq
<1>9. m \in Int /\ n \in Int /\ n - m + 1 = Len(b)
  BY <1>1
<1> DEFINE t == SubSeq(s, m, n)
<1>10. /\ t \in Seq(S)
       /\ Len(t) = IF m <= n THEN n - m + 1 ELSE 0
       /\ \A i \in 1 .. n - m + 1 : t[i] = s[m + i - 1]
  BY <1>8, <1>9, SubSeqProperties
<1>11. Len(t) = Len(b)
  BY <1>1, <1>9, <1>10
<1>12. \A i \in 1 .. Len(t) : t[i] = b[i]
  <2> SUFFICES ASSUME NEW i \in 1 .. Len(b) PROVE t[i] = b[i]
    BY <1>11
  <2>1. t[i] = s[m + i - 1]
    BY <1>9, <1>10
  <2>2. m + i - 1 \in m .. n /\ (m + i - 1) - Len(a) = i
    BY <1>1
  <2> QED
    BY <1>7, <2>1, <2>2
<1> HIDE DEF t
<1>13. t = b
  BY <1>3, <1>10, <1>11, <1>12, SeqEqual
<1> QED
  BY <1>13 DEF t, s, ab

\* An option more.
LEMMA Appended ==
  ASSUME NEW s, IsList(s), NEW e
  PROVE  LET t == Append(s, e) IN
         /\ IsList(t) /\ Len(t) = Len(s) + 1
         /\ \A i \in 1 .. Len(s) : t[i] = s[i]
         /\ t[Len(s) + 1] = e
<1> DEFINE S == {s[i] : i \in DOMAIN s}
<1>1. s \in Seq(S)
  BY DEF IsList
<1> HIDE DEF S
<1>2. s \in Seq(S \cup {e}) /\ e \in S \cup {e}
  BY <1>1, SeqMonotonic
<1>3. /\ Append(s, e) \in Seq(S \cup {e})
      /\ Len(Append(s, e)) = Len(s) + 1
      /\ \A i \in 1 .. Len(s) : Append(s, e)[i] = s[i]
      /\ Append(s, e)[Len(s) + 1] = e
  BY <1>2, AppendProperties
<1> QED
  BY <1>3, SeqIsList

\* Two lists of the same items.
LEMMA SameList ==
  ASSUME NEW s, IsList(s), NEW t, IsList(t), Len(s) = Len(t),
         \A i \in 1 .. Len(s) : s[i] = t[i]
  PROVE  s = t
<1>1. PICK S : s \in Seq(S) /\ t \in Seq(S)
  BY Both
<1> QED
  BY <1>1, SeqEqual

--------------------------------------------------------------------------------
(* What the file says. *)

LEMMA MountsFact ==
  ASSUME file \in Files
  PROVE  /\ Declared \subseteq Source /\ \A s \in Service : file.holds[s] \in Service
         /\ \A s \in Service : /\ IsList(file.mounts[s])
                               /\ IsList(file.uses[s]) /\ IsList(file.ports[s])
                               /\ IsList(file.ulimits[s])
         /\ \A s \in Service : \A m \in MountsOf(s) :
              /\ IsShort(m) \/ (m.id \in MountId /\ m.id \notin Source)
              /\ Parses(m) /\ MountDict(m).type = "volume" =>
                   /\ MountDict(m).source \subseteq Source /\ Optional(MountDict(m).source)
                   /\ MountDict(m).target \in Paths
         /\ \A s, t \in Service : \A m \in MountsOf(s), n \in MountsOf(t) :
              IsShort(m) \/ m.id # n.id \/ m = n
<1>1. /\ DOMAIN file.volumes \subseteq Source /\ file.holds \in [Service -> Service]
      /\ \A s \in Service :
         /\ IsList(file.mounts[s]) /\ IsList(file.uses[s]) /\ IsList(file.ports[s])
         /\ IsList(file.ulimits[s])
         /\ \A i \in DOMAIN file.mounts[s] :
              /\ IsShort(file.mounts[s][i]) \/ file.mounts[s][i].id \in MountId
              /\ Parses(file.mounts[s][i]) /\ MountDict(file.mounts[s][i]).type = "volume" =>
                   /\ MountDict(file.mounts[s][i]).source \subseteq Source
                   /\ Optional(MountDict(file.mounts[s][i]).source)
                   /\ MountDict(file.mounts[s][i]).target \in Paths
      /\ \A s, t \in Service : \A i \in DOMAIN file.mounts[s], j \in DOMAIN file.mounts[t] :
           \/ IsShort(file.mounts[s][i])
           \/ file.mounts[s][i].id # file.mounts[t][j].id
           \/ file.mounts[s][i] = file.mounts[t][j]
  BY FilesAssumption
<1>2. Source \cap MountId = {}
  BY ArgsAssumption
<1> QED
  BY <1>1, <1>2 DEF MountsOf, Declared

LEMMA DeclaredFact ==
  ASSUME file \in Files, NEW k \in Declared
  PROVE  /\ file.volumes[k].name \subseteq Given /\ Optional(file.volumes[k].name)
         /\ file.volumes[k].external \subseteq Given \cup {"yes"}
         /\ Optional(file.volumes[k].external)
         /\ GivenName(k) \subseteq Given
BY FilesAssumption DEF Declared, GivenName

\* What the file means is the name of a volume.
LEMMA MeantIsVolume ==
  ASSUME file \in Files, NEW k \in Source
  PROVE  MeantBy(k) \in VolumeName
<1>1. <<"source", k>> \in VolumeName
  BY DEF VolumeName
<1>2. \A g \in Given : <<"given", g>> \in VolumeName
  BY DEF VolumeName
<1>3. CASE k \notin Declared
  BY <1>1, <1>3 DEF MeantBy
<1>4. CASE k \in Declared
  <2>1. file.volumes[k].name \subseteq Given /\ file.volumes[k].external \ {"yes"} \subseteq Given
    BY <1>4, DeclaredFact
  <2> QED
    BY <1>1, <1>2, <1>4, <2>1 DEF MeantBy
<1> QED
  BY <1>3, <1>4

\* The dicts with a name are that of the mount and that of the declared volume.
LEMMA KeysAre ==
  ASSUME file \in Files, NEW s \in Service, NEW m \in MountsOf(s),
         Parses(m), MountDict(m).type = "volume"
  PROVE  /\ Keys(m) \subseteq Source \cup MountId
         /\ \A k \in Keys(m) : \/ k \in Declared /\ MountDict(m).source = {k}
                               \/ ~IsShort(m) /\ k = m.id /\ k \in MountId /\ k \notin Source
         /\ \A k \in MountDict(m).source : MountDict(m).source = {k} /\ k \in Source
         /\ \A k \in MountDict(m).source \cap Declared : k \in Keys(m)
         /\ ~IsShort(m) => m.id \in Keys(m) /\ MountDict(m) = m
         /\ IsShort(m) /\ MountDict(m).source = {} => Keys(m) = {}
<1>1. /\ IsShort(m) \/ (m.id \in MountId /\ m.id \notin Source)
      /\ MountDict(m).source \subseteq Source /\ Optional(MountDict(m).source)
      /\ Declared \subseteq Source
  BY MountsFact
<1>2. Keys(m) = (IF IsShort(m) THEN {} ELSE {m.id}) \cup (MountDict(m).source \cap Declared)
  BY DEF Keys
<1>3. \A k \in MountDict(m).source : MountDict(m).source = {k} /\ k \in Source
  BY <1>1 DEF Optional
<1>4. ~IsShort(m) => MountDict(m) = m
  BY DEF MountDict
<1> QED
  BY <1>1, <1>2, <1>3, <1>4

\* What is written into the dicts of a mount is one name, that of what it means.
LEMMA KnownIsMeant ==
  ASSUME file \in Files, NameInv, NEW r \in Run, NEW s \in Service, NEW m \in MountsOf(s),
         Parses(m), MountDict(m).type = "volume"
  PROVE  /\ \A k \in MountDict(m).source : NameKnown(r, m) \subseteq {MeantBy(k)}
         /\ MountDict(m).source = {} /\ ~IsShort(m) =>
              /\ NameKnown(r, m) = name[r][m.id]
              /\ NameKnown(r, m) \subseteq {<<t, m.target>> : t \in {u \in Service : m \in MountsOf(u)}}
<1>1. /\ Keys(m) \subseteq Source \cup MountId
      /\ \A k \in Keys(m) : \/ k \in Declared /\ MountDict(m).source = {k}
                            \/ ~IsShort(m) /\ k = m.id
      /\ \A k \in MountDict(m).source : MountDict(m).source = {k}
      /\ ~IsShort(m) => m.id \in Keys(m) /\ MountDict(m) = m
  BY KeysAre
<1>2. DeclaredNames(r) /\ (~IsShort(m) => LongNames(r, m))
  BY DEF NameInv
<1>3. ASSUME NEW k \in MountDict(m).source, NEW l \in Keys(m)
      PROVE  name[r][l] \subseteq {MeantBy(k)}
  <2>1. CASE l \in Declared /\ MountDict(m).source = {l}
    BY <1>1, <1>2, <1>3, <2>1 DEF DeclaredNames
  <2>2. CASE ~IsShort(m) /\ l = m.id
    BY <1>1, <1>2, <1>3, <2>2 DEF LongNames
  <2> QED
    BY <1>1, <2>1, <2>2
<1>4. ASSUME MountDict(m).source = {}, ~IsShort(m)
      PROVE  Keys(m) = {m.id} /\ m.source = {}
  BY <1>1, <1>4
<1>5. NameKnown(r, m) = UNION {name[r][k] : k \in Keys(m)}
  BY DEF NameKnown
<1>6. \A k \in MountDict(m).source : NameKnown(r, m) \subseteq {MeantBy(k)}
  BY <1>3, <1>5
<1>7. MountDict(m).source = {} /\ ~IsShort(m) => NameKnown(r, m) = name[r][m.id]
  BY <1>4, <1>5
<1> QED
  BY <1>2, <1>4, <1>6, <1>7 DEF LongNames

\* The volume of a mount.
LEMMA VolIs ==
  ASSUME file \in Files, NameInv, NEW r \in Run, NEW s \in Service, NEW m \in MountsOf(s),
         Parses(m), MountDict(m).type = "volume"
  PROVE  /\ \A k \in MountDict(m).source : Vol(r, s, m) = MeantBy(k)
         /\ MountDict(m).source = {} /\ NameKnown(r, m) = {} => Vol(r, s, m) = <<s, MountDict(m).target>>
         /\ NameKnown(r, m) # {} => Vol(r, s, m) \in NameKnown(r, m)
         /\ Vol(r, s, m) \in VolumeName
<1>1. Vol(r, s, m) = IF NameKnown(r, m) # {} THEN CHOOSE v \in NameKnown(r, m) : TRUE
                     ELSE NameChosen(<<s, 1>>, MountDict(m))
  BY DEF Vol, VolumeOf
<1>2. NameKnown(r, m) # {} => Vol(r, s, m) \in NameKnown(r, m)
  BY <1>1
<1>3. MountDict(m).source = {} /\ NameKnown(r, m) = {} => Vol(r, s, m) = <<s, MountDict(m).target>>
  BY <1>1 DEF NameChosen
<1>4. ASSUME NEW k \in MountDict(m).source
      PROVE  Vol(r, s, m) = MeantBy(k)
  <2>1. CASE NameKnown(r, m) # {}
    BY <1>2, <2>1, KnownIsMeant
  <2>2. CASE NameKnown(r, m) = {}
    <3>1. MountDict(m).source = {k} /\ (k \in Declared => k \in Keys(m))
      BY KeysAre
    <3>2. k \in Declared => name[r][k] = {}
      BY <2>2, <3>1 DEF NameKnown
    <3>3. k \in Declared => file.volumes[k].name = {}
      BY <3>2 DEF NameInv, DeclaredNames
    <3>4. (CHOOSE x \in MountDict(m).source : TRUE) = k
      BY <3>1
    <3>5. Vol(r, s, m) = LET given == IF k \in Declared THEN file.volumes[k].external \ {"yes"} ELSE {}
                         IN  IF given # {} THEN <<"given", CHOOSE g \in given : TRUE>> ELSE <<"source", k>>
      BY <1>1, <2>2, <3>1, <3>4 DEF NameChosen
    <3> QED
      BY <3>3, <3>5 DEF MeantBy
  <2> QED
    BY <2>1, <2>2
<1>5. Vol(r, s, m) \in VolumeName
  <2>1. CASE MountDict(m).source # {}
    BY <1>4, <2>1, KeysAre, MeantIsVolume
  <2>2. CASE MountDict(m).source = {}
    <3>1. \A t \in Service : \A p \in Paths : <<t, p>> \in VolumeName
      BY DEF VolumeName
    <3>2. MountDict(m).target \in Paths
      BY MountsFact
    <3>3. CASE NameKnown(r, m) = {}
      BY <1>3, <2>2, <3>1, <3>2, <3>3
    <3>4. CASE NameKnown(r, m) # {}
      <4>1. ~IsShort(m)
        BY <2>2, <3>4, KeysAre DEF NameKnown
      <4>2. MountDict(m) = m
        BY <4>1, KeysAre
      <4> QED
        BY <1>2, <2>2, <3>1, <3>2, <3>4, <4>1, <4>2, KnownIsMeant
    <3> QED
      BY <3>3, <3>4
  <2> QED
    BY <2>1, <2>2
<1> QED
  BY <1>2, <1>3, <1>4, <1>5

--------------------------------------------------------------------------------
(* Steps. *)

\* A command changes what is its own.
OthersSame(q) ==
  /\ file' = file /\ removed' = removed
  /\ \A r \in Run \ {q} :
       /\ pc'[r] = pc[r] /\ todo'[r] = todo[r] /\ at'[r] = at[r] /\ opts'[r] = opts[r]
       /\ name'[r] = name[r] /\ tests'[r] = tests[r] /\ started'[r] = started[r]

\* A volume is created where there is none, and only removed by hand.
DiskStep(q) ==
  \A v \in VolumeName :
    \/ disk'[v] = disk[v]
    \/ /\ disk[v] = None /\ disk'[v] = q /\ v = MountVolume(q)
       /\ pc[q] = "create" /\ pc'[q] = "verify"

LEMMA CommandFrame ==
  ASSUME StateInv, NEW q \in Run, Command(q)
  PROVE  OthersSame(q) /\ DiskStep(q)
<1>1. /\ DOMAIN pc = Run /\ DOMAIN todo = Run /\ DOMAIN at = Run /\ DOMAIN opts = Run
      /\ DOMAIN name = Run /\ DOMAIN tests = Run /\ DOMAIN started = Run
      /\ DOMAIN disk = VolumeName
  BY DEF StateInv, ArgsTypeOK
<1>2. CASE Parse(q)
  BY <1>1, <1>2 DEF Parse, Goto, memory, OthersSame, DiskStep
<1>3. CASE NextContainer(q)
  BY <1>1, <1>3 DEF NextContainer, Goto, memory, OthersSame, DiskStep
<1>4. CASE MountRaises(q)
  BY <1>1, <1>4 DEF MountRaises, Goto, memory, OthersSame, DiskStep
<1>5. CASE FixMount(q)
  <2>1. UNCHANGED <<file, disk, removed, todo, tests, started>>
    BY <1>5 DEF FixMount
  <2>2. \A r \in Run \ {q} : pc'[r] = pc[r] /\ at'[r] = at[r] /\ opts'[r] = opts[r]
    BY <1>1, <1>5 DEF FixMount, Goto, Emitted
  <2>3. \A r \in Run \ {q} : name'[r] = name[r]
    BY <1>1, <1>5 DEF FixMount
  <2> QED
    BY <2>1, <2>2, <2>3 DEF OthersSame, DiskStep
<1>6. CASE InspectVolume(q)
  BY <1>1, <1>6 DEF InspectVolume, Emitted, Goto, memory, OthersSame, DiskStep
<1>7. CASE CreateVolume(q)
  BY <1>1, <1>7 DEF CreateVolume, Goto, memory, OthersSame, DiskStep
<1>8. CASE VerifyVolume(q)
  BY <1>1, <1>8 DEF VerifyVolume, Emitted, Goto, memory, OthersSame, DiskStep
<1>9. CASE Finish(q)
  <2>1. UNCHANGED <<file, disk, removed, at, opts, name>>
    BY <1>9 DEF Finish
  <2>2. \A r \in Run \ {q} : pc'[r] = pc[r] /\ todo'[r] = todo[r] /\ started'[r] = started[r]
    BY <1>1, <1>9 DEF Finish, Goto
  <2>3. \A r \in Run \ {q} : tests'[r] = tests[r]
    BY <1>1, <1>9 DEF Finish
  <2> QED
    BY <2>1, <2>2, <2>3 DEF OthersSame, DiskStep
<1> QED
  BY <1>2, <1>3, <1>4, <1>5, <1>6, <1>7, <1>8, <1>9 DEF Command

\* Of a container only the service matters for its volumes.
LEMMA VolOfCnt ==
  ASSUME NEW r \in Run, NEW c, NEW m
  PROVE  VolumeOf(r, c, m) = Vol(r, c[1], m)
BY DEF VolumeOf, Vol, NameChosen

\* The container a command is at, and its mount.
LEMMA AtMount ==
  ASSUME StateInv, NEW q \in Run, pc[q] \in Converting
  PROVE  /\ todo[q] # <<>> /\ Cnt(q) \in Service \X (Nat \ {0}) /\ Cnt(q)[1] \in Service
         /\ Cnt(q) = todo[q][1]
         /\ Tail(todo[q]) \in Seq(Service \X (Nat \ {0}))
         /\ IsList(file.mounts[Cnt(q)[1]])
         /\ at[q] \in DOMAIN file.mounts[Cnt(q)[1]] => Mount(q) \in MountsOf(Cnt(q)[1])
         /\ MountVolume(q) = Vol(q, Cnt(q)[1], Mount(q))
<1>1. todo[q] # <<>> /\ todo[q] \in Seq(Service \X (Nat \ {0})) /\ file \in Files
  BY DEF StateInv, ArgsTypeOK, Converting, Asking
<1>2. Cnt(q) \in Service \X (Nat \ {0}) /\ Tail(todo[q]) \in Seq(Service \X (Nat \ {0}))
  BY <1>1, HeadTailProperties DEF Cnt
<1>3. Cnt(q)[1] \in Service
  BY <1>2
<1>4. MountVolume(q) = Vol(q, Cnt(q)[1], Mount(q))
  BY VolOfCnt DEF MountVolume
<1>5. Cnt(q) = todo[q][1]
  BY <1>1 DEF Cnt
<1> QED
  BY <1>1, <1>2, <1>3, <1>4, <1>5, MountsFact DEF Mount, MountsOf

\* What FixMount does to the dicts: where there is a name, it stays.
LEMMA FixNames ==
  ASSUME StateInv, NameInv, NEW q \in Run, FixMount(q)
  PROVE  LET m == Mount(q)
             v == Vol(q, Cnt(q)[1], m)
         IN  /\ Cnt(q)[1] \in Service /\ m \in MountsOf(Cnt(q)[1]) /\ Parses(m)
             /\ MountDict(m).type # "volume" => name' = name
             /\ MountDict(m).type = "volume" =>
                  /\ v \in VolumeName
                  /\ name' = [name EXCEPT ![q] =
                                [k \in DOMAIN name[q] |-> IF k \in Keys(m) THEN {v} ELSE name[q][k]]]
                  /\ \A k \in Source \cup MountId :
                       name'[q][k] = IF k \in Keys(m) THEN {v} ELSE name[q][k]
                  /\ \A k \in Keys(m) : name[q][k] \in {{}, {v}}
<1> DEFINE m == Mount(q)
           s == Cnt(q)[1]
           v == Vol(q, s, m)
<1>1. /\ s \in Service /\ m \in MountsOf(s) /\ Parses(m) /\ file \in Files
      /\ MountVolume(q) = v
  BY AtMount DEF FixMount, Converting, StateInv, ArgsTypeOK
<1>2. VolumeOf(q, Cnt(q), Mount(q)) = v
  BY <1>1 DEF MountVolume
<1>3. name' = IF MountDict(m).type # "volume" THEN name
              ELSE [name EXCEPT ![q] =
                      [k \in DOMAIN name[q] |-> IF k \in Keys(m) THEN {v} ELSE name[q][k]]]
  BY <1>2 DEF FixMount
<1>4. name \in [Run -> [Source \cup MountId -> SUBSET VolumeName]]
  BY DEF StateInv, ArgsTypeOK
<1> HIDE DEF m, s, v
<1>5. ASSUME MountDict(m).type = "volume"
      PROVE  /\ v \in VolumeName
             /\ \A k \in Source \cup MountId :
                  name'[q][k] = IF k \in Keys(m) THEN {v} ELSE name[q][k]
             /\ \A k \in Keys(m) : name[q][k] \in {{}, {v}}
  <2>1. v \in VolumeName
    BY <1>1, <1>5, VolIs DEF v
  <2>2. \A k \in Source \cup MountId :
          name'[q][k] = IF k \in Keys(m) THEN {v} ELSE name[q][k]
    BY <1>3, <1>4, <1>5
  <2>3. ASSUME NEW k \in Keys(m)
        PROVE  name[q][k] \in {{}, {v}}
    <3>1. /\ MountDict(m).source # {} \/ ~IsShort(m)
          /\ name[q][k] \subseteq NameKnown(q, m)
      BY <1>1, <1>5, KeysAre DEF NameKnown
    <3>2. NameKnown(q, m) # {} => v \in NameKnown(q, m)
      BY <1>1, <1>5, VolIs DEF v
    <3>3. CASE MountDict(m).source # {}
      <4>1. \E w : NameKnown(q, m) \subseteq {w}
        BY <1>1, <1>5, <3>3, KnownIsMeant
      <4> QED
        BY <3>1, <3>2, <4>1
    <3>4. CASE MountDict(m).source = {} /\ ~IsShort(m)
      <4>1. NameKnown(q, m) = name[q][m.id] /\ m.id \in Source \cup MountId
        BY <1>1, <1>5, <3>4, KnownIsMeant, MountsFact
      <4>2. Optional(name[q][m.id])
        BY <1>4, <4>1 DEF StateInv, ArgsTypeOK
      <4> QED
        BY <3>1, <3>2, <4>1, <4>2 DEF Optional
    <3> QED
      BY <3>1, <3>3, <3>4
  <2> QED
    BY <2>1, <2>2, <2>3
<1> QED
  BY <1>1, <1>3, <1>5 DEF m, s, v

--------------------------------------------------------------------------------
(* Types. *)

\* The part of the types that is about one command.
TypeOf(r) ==
  /\ pc[r] \in Label /\ todo[r] \in Seq(Service \X (Nat \ {0})) /\ at[r] \in Nat \ {0}
  /\ IsList(opts[r]) /\ IsList(started[r])
  /\ name[r] \in [Source \cup MountId -> SUBSET VolumeName]
  /\ \A k \in Source \cup MountId : Optional(name[r][k])
  /\ tests[r] \in [Service -> HealthCheck]
  /\ pc[r] \in Converting => todo[r] # <<>>

Functions ==
  /\ DOMAIN pc = Run /\ DOMAIN todo = Run /\ DOMAIN at = Run /\ DOMAIN opts = Run
  /\ DOMAIN name = Run /\ DOMAIN tests = Run /\ DOMAIN started = Run
  /\ pc = [r \in Run |-> pc[r]] /\ todo = [r \in Run |-> todo[r]] /\ at = [r \in Run |-> at[r]]
  /\ opts = [r \in Run |-> opts[r]] /\ name = [r \in Run |-> name[r]]
  /\ tests = [r \in Run |-> tests[r]] /\ started = [r \in Run |-> started[r]]

DiskType ==
  /\ file \in Files /\ removed \subseteq VolumeName
  /\ disk \in [VolumeName -> Run \cup {"before", None}]

LEMMA StateParts == StateInv <=> DiskType /\ Functions /\ \A r \in Run : TypeOf(r)
<1>1. StateInv => DiskType /\ Functions
  BY DEF StateInv, ArgsTypeOK, DiskType, Functions
<1>2. ASSUME StateInv, NEW r \in Run PROVE TypeOf(r)
  <2>1. name[r] \in [Source \cup MountId -> SUBSET VolumeName]
        /\ \A k \in DOMAIN name[r] : Optional(name[r][k])
    BY <1>2 DEF StateInv, ArgsTypeOK
  <2> QED
    BY <1>2, <2>1 DEF StateInv, ArgsTypeOK, TypeOf, Converting, Asking
<1>3. ASSUME DiskType, Functions, \A r \in Run : TypeOf(r) PROVE StateInv
  <2>1. ArgsTypeOK
    <3>1. pc \in [Run -> Label] /\ name \in [Run -> [Source \cup MountId -> SUBSET VolumeName]]
      BY <1>3 DEF Functions, TypeOf
    <3>2. ASSUME NEW r \in Run
          PROVE  \A k \in DOMAIN name[r] : Optional(name[r][k])
      BY <1>3 DEF TypeOf
    <3>3. \A r \in Run : pc[r] \in {"mounts", "inspect", "create", "verify"} => todo[r] # <<>>
      BY <1>3 DEF TypeOf, Converting, Asking
    <3> QED
      BY <1>3, <3>1, <3>2, <3>3 DEF ArgsTypeOK, DiskType
  <2>2. todo \in [Run -> Seq(Service \X (Nat \ {0}))] /\ at \in [Run -> Nat \ {0}]
    BY <1>3 DEF Functions, TypeOf
  <2>3. tests \in [Run -> [Service -> HealthCheck]]
    BY <1>3 DEF Functions, TypeOf
  <2> QED
    BY <1>3, <2>1, <2>2, <2>3 DEF StateInv, Functions, TypeOf
<1> QED
  BY <1>1, <1>2, <1>3

LEMMA StatePartsNext == (StateInv <=> DiskType /\ Functions /\ \A r \in Run : TypeOf(r))'
BY StateParts, PTL

LEMMA EmittedType ==
  ASSUME StateInv, NEW q \in Run, NEW source, Emitted(q, source), pc[q] \in Converting
  PROVE  /\ pc'[q] = "mounts" /\ at'[q] = at[q] + 1 /\ at'[q] \in Nat \ {0}
         /\ opts'[q] = Append(opts[q], VolumeArgs(MountDict(Mount(q)), source))
         /\ IsList(opts'[q]) /\ Len(opts'[q]) = Len(opts[q]) + 1
         /\ \A i \in 1 .. Len(opts[q]) : opts'[q][i] = opts[q][i]
         /\ opts'[q][Len(opts[q]) + 1] = VolumeArgs(MountDict(Mount(q)), source)
<1>1. /\ q \in DOMAIN pc /\ q \in DOMAIN at /\ q \in DOMAIN opts
      /\ at[q] \in Nat \ {0} /\ IsList(opts[q])
  BY StateParts DEF Functions, TypeOf
<1>2. /\ pc'[q] = "mounts" /\ at'[q] = at[q] + 1
      /\ opts'[q] = Append(opts[q], VolumeArgs(MountDict(Mount(q)), source))
  BY <1>1 DEF Emitted, Goto
<1> QED
  BY <1>1, <1>2, Appended

LEMMA HealthLeft ==
  ASSUME NEW h \in HealthCheck
  PROVE  TestLeft(h) \in HealthCheck /\ (~h.list => TestLeft(h) = h)
<1>1. h.list \in BOOLEAN /\ h.items \in Seq(STRING) /\ h = [list |-> h.list, items |-> h.items]
  BY DEF HealthCheck
<1>2. TestLeft(h) = [list |-> h.list,
                     items |-> IF h.list /\ h.items # <<>> THEN Tail(h.items) ELSE h.items]
  BY <1>1 DEF TestLeft
<1>3. h.items # <<>> => Tail(h.items) \in Seq(STRING)
  BY <1>1, HeadTailProperties
<1> DEFINE items == IF h.list /\ h.items # <<>> THEN Tail(h.items) ELSE h.items
<1>4. items \in Seq(STRING) /\ (~h.list => items = h.items)
  BY <1>1, <1>3
<1>5. TestLeft(h) = [list |-> h.list, items |-> items]
  BY <1>2
<1> HIDE DEF items
<1> QED
  BY <1>1, <1>4, <1>5 DEF HealthCheck

LEMMA StateNext ==
  ASSUME StateInv, NameInv, ArgsNext
  PROVE  StateInv'
<1>0. DiskType /\ Functions /\ \A r \in Run : TypeOf(r)
  BY StateParts
<1> SUFFICES DiskType' /\ Functions' /\ \A r \in Run : TypeOf(r)'
  BY StatePartsNext
<1>1. ASSUME NEW v \in VolumeName, RemoveVolume(v)
      PROVE  DiskType' /\ Functions' /\ \A r \in Run : TypeOf(r)'
  <2>1. DiskType'
    BY <1>0, <1>1 DEF RemoveVolume, DiskType
  <2>2. Functions' /\ \A r \in Run : TypeOf(r)'
    BY <1>0, <1>1 DEF RemoveVolume, Functions, TypeOf, memory
  <2> QED
    BY <2>1, <2>2
<1>2. ASSUME NEW q \in Run, Command(q)
      PROVE  DiskType' /\ Functions' /\ \A r \in Run : TypeOf(r)'
  <2>1. OthersSame(q) /\ DiskStep(q)
    BY <1>2, CommandFrame
  <2>2. \A r \in Run \ {q} : TypeOf(r)'
    BY <1>0, <2>1 DEF OthersSame, TypeOf
  <2>3. TypeOf(q)
    BY <1>0
  <2>4. /\ q \in DOMAIN pc /\ q \in DOMAIN todo /\ q \in DOMAIN at /\ q \in DOMAIN opts
        /\ q \in DOMAIN name /\ q \in DOMAIN tests /\ q \in DOMAIN started
    BY <1>0 DEF Functions
  <2>5. disk' = disk \/ disk' = [disk EXCEPT ![MountVolume(q)] = q]
    BY <1>2 DEF Command, Parse, NextContainer, MountRaises, FixMount, InspectVolume, CreateVolume,
                VerifyVolume, Finish
  <2>6. DiskType'
    BY <1>0, <2>1, <2>5 DEF DiskType, OthersSame
  <2>7. CASE Parse(q)
    <3>1. Functions'
      BY <1>0, <2>7 DEF Functions, Parse, Goto, memory
    <3>2. TypeOf(q)'
      BY <2>3, <2>4, <2>7 DEF TypeOf, Parse, Goto, memory, Label, Converting, Asking
    <3> QED
      BY <2>2, <2>6, <3>1, <3>2
  <2>8. CASE NextContainer(q)
    <3>1. Functions'
      BY <1>0, <2>8 DEF Functions, NextContainer, Goto, memory
    <3>2. TypeOf(q)'
      <4>1. opts'[q] = <<>> /\ IsList(<<>>)
        BY <2>4, <2>8, EmptySeq DEF NextContainer, IsList
      <4>2. at'[q] = 1 /\ pc'[q] = IF todo[q] = <<>> THEN "done" ELSE "mounts"
        BY <2>4, <2>8 DEF NextContainer, Goto
      <4> QED
        BY <2>3, <2>8, <4>1, <4>2 DEF TypeOf, NextContainer, memory, Label, Converting, Asking
    <3> QED
      BY <2>2, <2>6, <3>1, <3>2
  <2>9. CASE MountRaises(q)
    <3>1. Functions'
      BY <1>0, <2>9 DEF Functions, MountRaises, Goto, memory
    <3>2. TypeOf(q)'
      BY <2>3, <2>4, <2>9 DEF TypeOf, MountRaises, Goto, memory, Label, Converting, Asking
    <3> QED
      BY <2>2, <2>6, <3>1, <3>2
  <2>10. CASE FixMount(q)
    <3>1. pc[q] = "mounts" /\ pc[q] \in Converting /\ UNCHANGED <<file, disk, removed, todo, tests, started>>
      BY <2>10 DEF FixMount, Converting
    <3>2. Functions'
      <4>1. name' = name \/ \E f : name' = [name EXCEPT ![q] = f]
        BY <2>10 DEF FixMount
      <4>2. \E label : pc' = [pc EXCEPT ![q] = label]
        BY <2>10 DEF FixMount, Emitted, Goto
      <4>3. /\ at' = at \/ \E n : at' = [at EXCEPT ![q] = n]
            /\ opts' = opts \/ \E o : opts' = [opts EXCEPT ![q] = o]
        BY <2>10 DEF FixMount, Emitted
      <4> QED
        BY <1>0, <3>1, <4>1, <4>2, <4>3 DEF Functions
    <3>3. name'[q] \in [Source \cup MountId -> SUBSET VolumeName]
          /\ \A k \in Source \cup MountId : Optional(name'[q][k])
      <4> DEFINE m == Mount(q)
                 v == Vol(q, Cnt(q)[1], m)
      <4>1. /\ MountDict(m).type # "volume" => name' = name
            /\ MountDict(m).type = "volume" =>
                 /\ v \in VolumeName
                 /\ name' = [name EXCEPT ![q] =
                               [k \in DOMAIN name[q] |-> IF k \in Keys(m) THEN {v} ELSE name[q][k]]]
        BY <2>10, FixNames
      <4> HIDE DEF m, v
      <4>2. CASE MountDict(m).type # "volume"
        BY <2>3, <4>1, <4>2 DEF TypeOf
      <4>3. CASE MountDict(m).type = "volume"
        <5>1. name'[q] = [k \in Source \cup MountId |-> IF k \in Keys(m) THEN {v} ELSE name[q][k]]
          BY <2>3, <2>4, <4>1, <4>3 DEF TypeOf
        <5>2. {v} \in SUBSET VolumeName /\ Optional({v})
          BY <4>1, <4>3 DEF Optional
        <5> QED
          BY <2>3, <5>1, <5>2 DEF TypeOf
      <4> QED
        BY <4>2, <4>3
    <3>4. pc'[q] \in {"inspect", "mounts"} /\ at'[q] \in Nat \ {0} /\ IsList(opts'[q])
      <4>1. CASE IsManaged(MountDict(Mount(q)))
        <5>1. Goto(q, "inspect") /\ UNCHANGED <<at, opts>>
          BY <2>10, <4>1 DEF FixMount
        <5> QED
          BY <2>3, <2>4, <5>1 DEF TypeOf, Goto
      <4>2. CASE ~IsManaged(MountDict(Mount(q)))
        <5>1. PICK source : Emitted(q, source)
          BY <2>10, <4>2 DEF FixMount
        <5> QED
          BY <3>1, <5>1, EmittedType
      <4> QED
        BY <4>1, <4>2
    <3>5. TypeOf(q)'
      BY <2>3, <3>1, <3>3, <3>4 DEF TypeOf, Label, Converting, Asking
    <3> QED
      BY <2>2, <2>6, <3>2, <3>5
  <2>11. CASE InspectVolume(q)
    <3>1. Functions'
      BY <1>0, <2>11 DEF Functions, InspectVolume, Emitted, Goto, memory
    <3>2. pc[q] \in Converting
          /\ UNCHANGED <<file, disk, removed, todo, memory, started>>
      BY <2>11 DEF InspectVolume, Converting, Asking
    <3>3. pc'[q] \in {"create", "mounts"} /\ at'[q] \in Nat \ {0} /\ IsList(opts'[q])
      <4>1. CASE Emitted(q, {MountVolume(q)})
        BY <3>2, <4>1, EmittedType
      <4>2. CASE ~Emitted(q, {MountVolume(q)})
        BY <2>3, <2>4, <2>11, <4>2 DEF TypeOf, InspectVolume, Goto
      <4> QED
        BY <4>1, <4>2
    <3>4. TypeOf(q)'
      BY <2>3, <3>2, <3>3 DEF TypeOf, Label, memory, Converting, Asking
    <3> QED
      BY <2>2, <2>6, <3>1, <3>4
  <2>12. CASE CreateVolume(q)
    <3>1. Functions'
      BY <1>0, <2>12 DEF Functions, CreateVolume, Goto, memory
    <3>2. TypeOf(q)'
      BY <2>3, <2>4, <2>12 DEF TypeOf, CreateVolume, Goto, memory, Label, Converting, Asking
    <3> QED
      BY <2>2, <2>6, <3>1, <3>2
  <2>13. CASE VerifyVolume(q)
    <3>1. Functions'
      BY <1>0, <2>13 DEF Functions, VerifyVolume, Emitted, Goto, memory
    <3>2. pc[q] \in Converting
          /\ UNCHANGED <<file, disk, removed, todo, memory, started>>
      BY <2>13 DEF VerifyVolume, Converting, Asking
    <3>3. pc'[q] \in {"raised", "mounts"} /\ at'[q] \in Nat \ {0} /\ IsList(opts'[q])
      <4>1. CASE Emitted(q, {MountVolume(q)})
        BY <3>2, <4>1, EmittedType
      <4>2. CASE ~Emitted(q, {MountVolume(q)})
        BY <2>3, <2>4, <2>13, <4>2 DEF TypeOf, VerifyVolume, Goto
      <4> QED
        BY <4>1, <4>2
    <3>4. TypeOf(q)'
      BY <2>3, <3>2, <3>3 DEF TypeOf, Label, memory, Converting, Asking
    <3> QED
      BY <2>2, <2>6, <3>1, <3>4
  <2>14. CASE Finish(q)
    <3> DEFINE s == Cnt(q)[1]
               o == file.holds[s]
    <3>1. pc[q] \in Converting /\ UNCHANGED <<file, disk, removed, at, opts, name>>
      BY <2>14 DEF Finish, Converting
    <3>2. s \in Service /\ o \in Service /\ Tail(todo[q]) \in Seq(Service \X (Nat \ {0}))
      BY <3>1, AtMount, MountsFact DEF StateInv, ArgsTypeOK
    <3>3. Functions'
      <4>1. \E label : pc' = [pc EXCEPT ![q] = label]
        BY <2>14 DEF Finish, Goto
      <4>2. /\ todo' = todo \/ \E t : todo' = [todo EXCEPT ![q] = t]
            /\ started' = started \/ \E t : started' = [started EXCEPT ![q] = t]
        BY <2>14 DEF Finish
      <4>3. \E t : tests' = [tests EXCEPT ![q] = t]
        BY <2>14 DEF Finish
      <4> QED
        BY <1>0, <3>1, <4>1, <4>2, <4>3 DEF Functions
    <3>4. tests'[q] \in [Service -> HealthCheck]
      <4>1. tests'[q] = [tests[q] EXCEPT ![o] = TestLeft(tests[q][o])]
        BY <2>4, <2>14 DEF Finish
      <4> HIDE DEF s, o
      <4>2. TestLeft(tests[q][o]) \in HealthCheck
        BY <2>3, <3>2, HealthLeft DEF TypeOf
      <4> QED
        BY <2>3, <3>2, <4>1, <4>2 DEF TypeOf
    <3>5. /\ pc'[q] \in {"raised", "next"} /\ todo'[q] \in Seq(Service \X (Nat \ {0}))
          /\ IsList(started'[q])
      <4>1. CASE RestRaises(s, tests[q][o])
        BY <2>3, <2>4, <2>14, <4>1 DEF Finish, Goto, TypeOf
      <4>2. CASE ~RestRaises(s, tests[q][o])
        <5>1. /\ pc'[q] = "next" /\ todo'[q] = Tail(todo[q])
              /\ \E x : started'[q] = Append(started[q], x)
          BY <2>4, <2>14, <4>2 DEF Finish, Goto
        <5> QED
          BY <2>3, <3>2, <5>1, Appended DEF TypeOf
      <4> QED
        BY <4>1, <4>2
    <3>6. TypeOf(q)'
      BY <2>3, <3>1, <3>4, <3>5 DEF TypeOf, Label, Converting, Asking
    <3> QED
      BY <2>2, <2>6, <3>3, <3>6
  <2> QED
    BY <1>2, <2>7, <2>8, <2>9, <2>10, <2>11, <2>12, <2>13, <2>14 DEF Command
<1> QED
  BY <1>1, <1>2 DEF ArgsNext

--------------------------------------------------------------------------------
(* Names. *)

LEMMA FileSame ==
  ASSUME ArgsNext
  PROVE  file' = file
BY DEF ArgsNext, Command, RemoveVolume, Parse, NextContainer, MountRaises, FixMount, InspectVolume,
       CreateVolume, VerifyVolume, Finish

\* Only FixMount writes names.
LEMMA NamesWritten ==
  ASSUME ArgsNext
  PROVE  name' = name \/ \E q \in Run : FixMount(q)
BY DEF ArgsNext, Command, RemoveVolume, Parse, NextContainer, MountRaises, InspectVolume,
       CreateVolume, VerifyVolume, Finish, memory

LEMMA NamesOfOthers ==
  ASSUME StateInv, NEW q \in Run, FixMount(q)
  PROVE  \A r \in Run \ {q} : name'[r] = name[r]
BY CommandFrame DEF Command, OthersSame

LEMMA NameNext ==
  ASSUME StateInv, NameInv, ArgsNext
  PROVE  NameInv'
<1>0. file' = file /\ file \in Files
  BY FileSame DEF StateInv, ArgsTypeOK
<1>1. ASSUME NEW r \in Run, name'[r] = name[r]
      PROVE  /\ DeclaredNames(r)'
             /\ \A s \in Service : \A m \in MountsOf(s)' : ~IsShort(m) => LongNames(r, m)'
  <2>1. DeclaredNames(r) /\ \A s \in Service : \A m \in MountsOf(s) : ~IsShort(m) => LongNames(r, m)
    BY DEF NameInv
  <2>2. Declared' = Declared /\ \A k : MeantBy(k)' = MeantBy(k)
    BY <1>0 DEF Declared, MeantBy
  <2>3. \A s \in Service : MountsOf(s)' = MountsOf(s)
    BY <1>0 DEF MountsOf
  <2>4. DeclaredNames(r)'
    BY <1>0, <1>1, <2>1, <2>2 DEF DeclaredNames
  <2>5. \A m : LongNames(r, m) => LongNames(r, m)'
    BY <1>1, <2>2, <2>3 DEF LongNames
  <2> QED
    BY <2>1, <2>3, <2>4, <2>5
<1>2. ASSUME NEW q \in Run, FixMount(q)
      PROVE  /\ DeclaredNames(q)'
             /\ \A s \in Service : \A m \in MountsOf(s)' : ~IsShort(m) => LongNames(q, m)'
  <2> DEFINE m0 == Mount(q)
             s0 == Cnt(q)[1]
             d0 == MountDict(m0)
             v  == Vol(q, s0, m0)
  <2>1. /\ s0 \in Service /\ m0 \in MountsOf(s0) /\ Parses(m0)
        /\ d0.type # "volume" => name' = name
        /\ d0.type = "volume" =>
             \A k \in Source \cup MountId : name'[q][k] = IF k \in Keys(m0) THEN {v} ELSE name[q][k]
    BY <1>2, FixNames
  <2>2. CASE d0.type # "volume"
    BY <1>1, <2>1, <2>2
  <2>3. CASE d0.type = "volume"
    <3>1. /\ \A k \in d0.source : v = MeantBy(k)
          /\ d0.source = {} /\ NameKnown(q, m0) = {} => v = <<s0, d0.target>>
          /\ NameKnown(q, m0) # {} => v \in NameKnown(q, m0)
      BY <1>0, <2>1, <2>3, VolIs
    <3>2. /\ \A k \in Keys(m0) : \/ k \in Declared /\ d0.source = {k}
                                 \/ ~IsShort(m0) /\ k = m0.id /\ k \in MountId /\ k \notin Source
          /\ ~IsShort(m0) => d0 = m0
      BY <1>0, <2>1, <2>3, KeysAre
    <3>3. d0.source = {} /\ ~IsShort(m0) =>
            NameKnown(q, m0) \subseteq {<<t, m0.target>> : t \in {u \in Service : m0 \in MountsOf(u)}}
      BY <1>0, <2>1, <2>3, KnownIsMeant
    <3>4. \A k \in Source \cup MountId : name'[q][k] = IF k \in Keys(m0) THEN {v} ELSE name[q][k]
      BY <2>1, <2>3
    <3>5. Declared' = Declared /\ Declared \subseteq Source /\ \A k : MeantBy(k)' = MeantBy(k)
      BY <1>0, MountsFact DEF Declared, MeantBy
    <3>6. \A s \in Service : MountsOf(s)' = MountsOf(s)
      BY <1>0 DEF MountsOf
    <3> HIDE DEF m0, s0, d0, v
    <3>7. DeclaredNames(q)'
      <4>1. DeclaredNames(q)
        BY DEF NameInv
      <4>2. ASSUME NEW k \in Declared
            PROVE  /\ name'[q][k] \subseteq {MeantBy(k)}
                   /\ file.volumes[k].name # {} => name'[q][k] # {}
        BY <3>1, <3>2, <3>4, <3>5, <4>1 DEF DeclaredNames
      <4> QED
        BY <1>0, <3>5, <4>2 DEF DeclaredNames
    <3>8. ASSUME NEW s \in Service, NEW m \in MountsOf(s), ~IsShort(m)
          PROVE  LongNames(q, m)'
      <4>1. LongNames(q, m) /\ m.id \in MountId /\ m.id \notin Source
        BY <1>0, <3>8, MountsFact DEF NameInv
      <4>2. /\ \A k \in m.source : name'[q][m.id] \subseteq {MeantBy(k)}
            /\ m.source = {} =>
                 name'[q][m.id] \subseteq {<<t, m.target>> : t \in {u \in Service : m \in MountsOf(u)}}
        <5>1. CASE m.id \notin Keys(m0)
          BY <3>4, <4>1, <5>1 DEF LongNames
        <5>2. CASE m.id \in Keys(m0)
          <6>1. ~IsShort(m0) /\ m.id = m0.id
            BY <3>2, <3>5, <4>1, <5>2
          <6>2. m = m0 /\ d0 = m
            BY <1>0, <2>1, <3>2, <3>8, <6>1, MountsFact DEF m0, s0, d0
          <6>3. name'[q][m.id] = {v}
            BY <3>4, <4>1, <5>2
          <6>4. m.source = {} => v \in {<<t, m.target>> : t \in {u \in Service : m \in MountsOf(u)}}
            BY <2>1, <3>1, <3>3, <3>8, <6>2 DEF m0, s0, d0
          <6> QED
            BY <3>1, <6>2, <6>3, <6>4
        <5> QED
          BY <5>1, <5>2
      <4> QED
        BY <3>5, <3>6, <4>2 DEF LongNames
    <3> QED
      BY <3>6, <3>7, <3>8
  <2> QED
    BY <2>2, <2>3
<1>3. CASE name' = name
  BY <1>1, <1>3 DEF NameInv
<1>4. ASSUME NEW q \in Run, FixMount(q)
      PROVE  NameInv'
  BY <1>1, <1>2, <1>4, NamesOfOthers DEF NameInv
<1> QED
  BY <1>3, <1>4, NamesWritten

\* The dicts of a mount never hold two names.
LEMMA KnownOnce ==
  StateInv /\ NameInv =>
    \A r \in Run : \A s \in Service : \A m \in MountsOf(s) :
      Parses(m) /\ MountDict(m).type = "volume" => Optional(NameKnown(r, m))
<1> SUFFICES ASSUME StateInv, NameInv, NEW r \in Run, NEW s \in Service, NEW m \in MountsOf(s),
                    Parses(m), MountDict(m).type = "volume"
             PROVE  Optional(NameKnown(r, m))
  OBVIOUS
<1>1. file \in Files
  BY DEF StateInv, ArgsTypeOK
<1>2. CASE MountDict(m).source # {}
  BY <1>1, <1>2, KnownIsMeant DEF Optional
<1>3. CASE MountDict(m).source = {} /\ IsShort(m)
  BY <1>1, <1>3, KeysAre DEF NameKnown, Optional
<1>4. CASE MountDict(m).source = {} /\ ~IsShort(m)
  <2>1. NameKnown(r, m) = name[r][m.id] /\ m.id \in Source \cup MountId
    BY <1>1, <1>4, KnownIsMeant, MountsFact
  <2> QED
    BY <2>1, StateParts DEF TypeOf
<1> QED
  BY <1>2, <1>3, <1>4

LEMMA KnownOnceNext ==
  (StateInv /\ NameInv =>
    \A r \in Run : \A s \in Service : \A m \in MountsOf(s) :
      Parses(m) /\ MountDict(m).type = "volume" => Optional(NameKnown(r, m)))'
BY KnownOnce, PTL

\* The volume of a mount stays the same once it is fixed, and FixMount fixes it.
LEMMA VolStays ==
  ASSUME StateInv, NameInv, ArgsNext, NEW r \in Run, NEW s \in Service, NEW m \in MountsOf(s),
         Parses(m), MountDict(m).type = "volume",
         Fixed(r, m) \/ (FixMount(r) /\ Cnt(r)[1] = s /\ Mount(r) = m)
  PROVE  Vol(r, s, m)' = Vol(r, s, m) /\ Fixed(r, m)'
<1>0. file' = file /\ file \in Files
  BY FileSame DEF StateInv, ArgsTypeOK
<1>1. Keys(m)' = Keys(m) /\ NameChosen(<<s, 1>>, MountDict(m))' = NameChosen(<<s, 1>>, MountDict(m))
  BY <1>0 DEF Keys, NameChosen, Declared
<1>2. /\ NameKnown(r, m) = UNION {name[r][k] : k \in Keys(m)}
      /\ NameKnown(r, m)' = UNION {name'[r][k] : k \in Keys(m)}
  BY <1>1 DEF NameKnown
<1>3. /\ Vol(r, s, m) = IF NameKnown(r, m) # {} THEN CHOOSE v \in NameKnown(r, m) : TRUE
                        ELSE NameChosen(<<s, 1>>, MountDict(m))
      /\ Vol(r, s, m)' = IF NameKnown(r, m)' # {} THEN CHOOSE v \in NameKnown(r, m)' : TRUE
                         ELSE NameChosen(<<s, 1>>, MountDict(m))
  BY <1>1 DEF Vol, VolumeOf
<1>4. ASSUME name'[r] = name[r], Fixed(r, m)
      PROVE  Vol(r, s, m)' = Vol(r, s, m) /\ Fixed(r, m)'
  BY <1>1, <1>2, <1>3, <1>4 DEF Fixed
<1>5. ASSUME FixMount(r)
      PROVE  Vol(r, s, m)' = Vol(r, s, m) /\ Fixed(r, m)'
  <2> DEFINE m0 == Mount(r)
             w  == Vol(r, Cnt(r)[1], m0)
             v  == Vol(r, s, m)
  <2>1. /\ MountDict(m0).type # "volume" => name' = name
        /\ MountDict(m0).type = "volume" =>
             /\ \A k \in Source \cup MountId :
                  name'[r][k] = IF k \in Keys(m0) THEN {w} ELSE name[r][k]
             /\ \A k \in Keys(m0) : name[r][k] \in {{}, {w}}
    BY <1>5, FixNames
  <2>2. Keys(m) \subseteq Source \cup MountId
    BY <1>0, KeysAre
  <2>3. CASE Keys(m) = {}
    BY <1>1, <1>2, <1>3, <2>3 DEF Fixed
  <2>4. CASE Keys(m) # {}
    <3>1. \E k \in Keys(m) : v \in name'[r][k]
      <4>1. CASE Fixed(r, m)
        <5>1. PICK k \in Keys(m) : v \in name[r][k]
          BY <1>2, <1>3, <2>4, <4>1 DEF Fixed
        <5> HIDE DEF m0, w, v
        <5>2. v \in name'[r][k]
          BY <2>1, <2>2, <5>1
        <5> QED
          BY <5>2
      <4>2. CASE Cnt(r)[1] = s /\ Mount(r) = m
        BY <2>1, <2>2, <2>4, <4>2
      <4> QED
        BY <1>5, <4>1, <4>2
    <3>2. v \in NameKnown(r, m)'
      BY <1>2, <3>1
    <3>3. NameInv' /\ StateInv' /\ m \in MountsOf(s)'
      BY <1>0, NameNext, StateNext DEF MountsOf
    <3>4. Optional(NameKnown(r, m))'
      BY <3>3, KnownOnceNext
    <3>5. Vol(r, s, m)' \in NameKnown(r, m)'
      BY <1>3, <3>2
    <3> QED
      BY <3>2, <3>4, <3>5 DEF Optional, Fixed
  <2> QED
    BY <2>3, <2>4
<1>6. name'[r] = name[r] \/ FixMount(r)
  BY NamesWritten, NamesOfOthers
<1> QED
  BY <1>4, <1>5, <1>6

--------------------------------------------------------------------------------
(* The options of mounts. *)

LEMMA ThereStays ==
  ASSUME StateInv, ArgsNext, NEW v \in VolumeName, There(v)
  PROVE  There(v)'
<1>1. ASSUME NEW q \in Run, Command(q)
      PROVE  There(v)'
  <2>1. removed' = removed /\ (disk'[v] = disk[v] \/ (disk[v] = None /\ disk'[v] = q))
    BY <1>1, CommandFrame DEF OthersSame, DiskStep
  <2> QED
    BY <2>1, ArgsAssumption DEF There
<1>2. ASSUME NEW w \in VolumeName, RemoveVolume(w)
      PROVE  There(v)'
  BY <1>2 DEF RemoveVolume, There, StateInv, ArgsTypeOK
<1> QED
  BY <1>1, <1>2 DEF ArgsNext

\* What a mount became stays what it means.
LEMMA MadeStays ==
  ASSUME StateInv, NameInv, ArgsNext, NEW r \in Run, NEW s \in Service, NEW m \in MountsOf(s),
         NEW o, Made(r, s, m, o)
  PROVE  Made(r, s, m, o)'
<1>0. file' = file /\ file \in Files
  BY FileSame DEF StateInv, ArgsTypeOK
<1>1. IsManaged(MountDict(m))' = IsManaged(MountDict(m))
  BY <1>0 DEF IsManaged, IsExternal, Declared
<1>2. IsManaged(MountDict(m)) => MountDict(m).type = "volume"
  BY DEF IsManaged
<1>3. /\ Parses(m)
      /\ MountDict(m).type # "volume" => o = VolumeArgs(MountDict(m), {"host"} \X MountDict(m).source)
      /\ MountDict(m).type = "volume" => o = VolumeArgs(MountDict(m), {Vol(r, s, m)}) /\ Fixed(r, m)
      /\ IsManaged(MountDict(m)) => There(Vol(r, s, m))
  BY DEF Made
<1>4. CASE MountDict(m).type # "volume"
  BY <1>1, <1>2, <1>3, <1>4 DEF Made
<1>5. CASE MountDict(m).type = "volume"
  <2>1. Vol(r, s, m)' = Vol(r, s, m) /\ Fixed(r, m)' /\ Vol(r, s, m) \in VolumeName
    BY <1>0, <1>3, <1>5, VolStays, VolIs
  <2> DEFINE v == Vol(r, s, m)
  <2>2. There(v) => There(v)'
    <3>1. v \in VolumeName
      BY <2>1
    <3>2. \A w \in VolumeName : There(w) => There(w)'
      BY ThereStays
    <3>3. There(v) => disk'[v] # None \/ v \in removed'
      BY <3>1, <3>2 DEF There
    <3> QED
      BY <2>1, <3>3 DEF There
  <2>3. IsManaged(MountDict(m)) => disk'[Vol(r, s, m)'] # None \/ Vol(r, s, m)' \in removed'
    BY <1>3, <2>1, <2>2 DEF There
  <2> QED
    BY <1>1, <1>3, <1>5, <2>1, <2>3 DEF Made, There
<1> QED
  BY <1>4, <1>5

LEMMA MadeOfStays ==
  ASSUME StateInv, NameInv, ArgsNext, NEW r \in Run, NEW s \in Service, NEW l, Len(l) \in Nat,
         MadeOf(r, s, l)
  PROVE  MadeOf(r, s, l)'
<1>0. file' = file /\ file \in Files
  BY FileSame DEF StateInv, ArgsTypeOK
<1>1. Len(file.mounts[s]) \in Nat /\ DOMAIN file.mounts[s] = 1 .. Len(file.mounts[s])
  BY <1>0, MountsFact, ListFacts
<1>2. ASSUME NEW i \in 1 .. Len(l), NEW m \in {file.mounts[s][i]}, NEW o \in {l[i]}
      PROVE  Made(r, s, m, o)'
  <2>1. m \in MountsOf(s)
    BY <1>1, <1>2 DEF MadeOf, MountsOf
  <2>2. Made(r, s, m, o)
    BY <1>2 DEF MadeOf
  <2> QED
    BY <2>1, <2>2, MadeStays
<1> QED
  BY <1>0, <1>2 DEF MadeOf

\* The options of a command that stays at its container, or of another.
LEMMA OptsStay ==
  ASSUME StateInv, NameInv, OptsInv, ArgsNext, NEW r \in Run,
         todo'[r] = todo[r], opts'[r] = opts[r], at'[r] = at[r],
         pc'[r] \in Converting => pc[r] \in Converting,
         pc'[r] \in Asking => pc[r] \in Asking
  PROVE  OptsOf(r)'
<1>0. file' = file /\ file \in Files /\ OptsOf(r)
  BY FileSame DEF StateInv, ArgsTypeOK, OptsInv
<1>1. Cnt(r)' = Cnt(r) /\ Mount(r)' = Mount(r)
  BY <1>0 DEF Cnt, Mount
<1>2. ASSUME pc[r] \in Converting, NEW s \in {Cnt(r)[1]}, NEW l \in {opts[r]}
      PROVE  Len(l) = at[r] - 1 /\ MadeOf(r, s, l)'
  <2>1. s \in Service /\ Len(l) \in Nat
    BY <1>2, AtMount, StateParts, ListFacts DEF TypeOf
  <2>2. Len(l) = at[r] - 1 /\ MadeOf(r, s, l)
    BY <1>0, <1>2 DEF OptsOf
  <2> QED
    BY <2>1, <2>2, MadeOfStays
<1>3. ASSUME pc[r] \in Asking, NEW s \in {Cnt(r)[1]}, NEW m \in {Mount(r)}
      PROVE  /\ at[r] \in DOMAIN file.mounts[s] /\ Parses(m)
             /\ IsManaged(MountDict(m))' /\ Fixed(r, m)'
  <2>1. at[r] \in DOMAIN file.mounts[s] /\ Parses(m) /\ IsManaged(MountDict(m)) /\ Fixed(r, m)
    BY <1>0, <1>3 DEF OptsOf
  <2>2. s \in Service /\ m \in MountsOf(s)
    BY <1>3, <2>1, AtMount DEF Converting
  <2>3. IsManaged(MountDict(m))' /\ MountDict(m).type = "volume"
    BY <1>0, <2>1 DEF IsManaged, IsExternal, Declared
  <2>4. Fixed(r, m)'
    BY <2>1, <2>2, <2>3, VolStays
  <2> QED
    BY <2>1, <2>3, <2>4
<1>4. pc'[r] \in Converting =>
        \A s \in {Cnt(r)[1]}, l \in {opts[r]} : Len(l) = at[r] - 1 /\ MadeOf(r, s, l)'
  BY <1>2
<1>5. pc'[r] \in Asking =>
        \A s \in {Cnt(r)[1]}, m \in {Mount(r)} :
          /\ at[r] \in DOMAIN file.mounts[s] /\ Parses(m)
          /\ IsManaged(MountDict(m))' /\ Fixed(r, m)'
  BY <1>3
<1> QED
  BY <1>0, <1>1, <1>4, <1>5 DEF OptsOf

\* One more mount is an option.
LEMMA OneMore ==
  ASSUME StateInv, NameInv, OptsInv, ArgsNext, NEW q \in Run, pc[q] \in Converting,
         todo'[q] = todo[q], NEW source, Emitted(q, source),
         at[q] \in DOMAIN file.mounts[Cnt(q)[1]],
         \A s \in {Cnt(q)[1]}, m \in {Mount(q)} : \A o \in {VolumeArgs(MountDict(m), source)} :
           Made(q, s, m, o)'
  PROVE  OptsOf(q)'
<1>0. file' = file /\ file \in Files /\ OptsOf(q) /\ q \in DOMAIN at
  BY FileSame, StateParts DEF StateInv, ArgsTypeOK, OptsInv, Functions
<1>1. Cnt(q)' = Cnt(q) /\ Cnt(q)[1] \in Service
  BY AtMount DEF Cnt
<1>2. /\ pc'[q] = "mounts" /\ at'[q] = at[q] + 1 /\ at[q] \in Nat \ {0}
      /\ IsList(opts[q]) /\ Len(opts[q]) \in Nat /\ IsList(opts'[q])
      /\ Len(opts'[q]) = Len(opts[q]) + 1
      /\ \A i \in 1 .. Len(opts[q]) : opts'[q][i] = opts[q][i]
      /\ opts'[q][Len(opts[q]) + 1] = VolumeArgs(MountDict(Mount(q)), source)
  BY EmittedType, StateParts, ListFacts DEF TypeOf
<1>3. ASSUME NEW s \in {Cnt(q)[1]}, NEW l \in {opts'[q]}
      PROVE  Len(l) = at'[q] - 1 /\ MadeOf(q, s, l)'
  <2>1. /\ s \in Service
        /\ Len(file.mounts[s]) \in Nat /\ DOMAIN file.mounts[s] = 1 .. Len(file.mounts[s])
    BY <1>0, <1>1, MountsFact, ListFacts
  <2>2. ASSUME NEW k \in {opts[q]}
        PROVE  Len(k) = at[q] - 1 /\ MadeOf(q, s, k)'
    <3>1. Len(k) = at[q] - 1 /\ MadeOf(q, s, k)
      BY <1>0 DEF OptsOf
    <3> QED
      BY <1>2, <2>1, <3>1, MadeOfStays
  <2>3. \A k \in {opts[q]} : Len(k) <= Len(file.mounts[s])
          /\ \A i \in 1 .. Len(k) : \A m \in {file.mounts[s][i]}, o \in {k[i]} : Made(q, s, m, o)'
    BY <1>0, <2>2 DEF MadeOf
  <2>4. Len(opts[q]) + 1 = at[q] /\ Len(l) = Len(opts[q]) + 1 /\ Len(l) <= Len(file.mounts[s])
    BY <1>2, <2>1, <2>2
  <2>5. \A m \in {file.mounts[s][at[q]]}, o \in {l[at[q]]} : Made(q, s, m, o)'
    BY <1>2, <2>4 DEF Mount
  <2>6. ASSUME NEW i \in 1 .. Len(l), NEW m \in {file.mounts[s][i]}, NEW o \in {l[i]}
        PROVE  Made(q, s, m, o)'
    <3>1. CASE i = at[q]
      BY <2>5, <3>1
    <3>2. CASE i # at[q]
      <4>1. i \in 1 .. Len(opts[q]) /\ o \in {opts[q][i]}
        BY <1>2, <2>4, <3>2
      <4> QED
        BY <2>3, <4>1
    <3> QED
      BY <3>1, <3>2
  <2>7. MadeOf(q, s, l)'
    BY <1>0, <2>4, <2>6 DEF MadeOf
  <2> QED
    BY <1>2, <2>4, <2>7
<1> QED
  BY <1>1, <1>2, <1>3 DEF OptsOf, Asking

LEMMA OptsNext ==
  ASSUME StateInv, NameInv, OptsInv, ArgsNext
  PROVE  OptsInv'
<1>0. file' = file /\ file \in Files
  BY FileSame DEF StateInv, ArgsTypeOK
<1>1. ASSUME NEW v \in VolumeName, RemoveVolume(v), NEW r \in Run
      PROVE  OptsOf(r)'
  BY <1>1, OptsStay DEF RemoveVolume
<1>2. ASSUME NEW q \in Run, Command(q), NEW r \in Run \ {q}
      PROVE  OptsOf(r)'
  <2>1. pc'[r] = pc[r] /\ todo'[r] = todo[r] /\ at'[r] = at[r] /\ opts'[r] = opts[r]
    BY <1>2, CommandFrame DEF OthersSame
  <2> QED
    BY <2>1, OptsStay
<1>3. ASSUME NEW q \in Run, Command(q)
      PROVE  OptsOf(q)'
  <2>0. /\ q \in DOMAIN pc /\ q \in DOMAIN todo /\ q \in DOMAIN at /\ q \in DOMAIN opts
        /\ TypeOf(q) /\ OptsOf(q)
    BY StateParts DEF Functions, OptsInv
  <2>1. CASE Parse(q) \/ MountRaises(q) \/ Finish(q)
    <3>1. pc'[q] \notin Converting /\ pc'[q] \notin Asking
      BY <2>0, <2>1 DEF Parse, MountRaises, Finish, Goto, Converting, Asking
    <3> QED
      BY <3>1 DEF OptsOf
  <2>2. CASE NextContainer(q)
    <3>1. /\ pc'[q] \in {"done", "mounts"} /\ at'[q] = 1 /\ opts'[q] = <<>>
          /\ (pc'[q] = "mounts" => todo[q] # <<>>) /\ todo' = todo
      BY <2>0, <2>2 DEF NextContainer, Goto
    <3>2. ASSUME pc'[q] = "mounts", NEW s \in {Cnt(q)[1]}
          PROVE  Len(file.mounts[s]) \in Nat
      <4>1. Cnt(q) \in Service \X (Nat \ {0})
        BY <2>0, <3>1, <3>2, HeadTailProperties DEF TypeOf, Cnt
      <4>2. s \in Service
        BY <3>2, <4>1
      <4> QED
        BY <1>0, <4>2, MountsFact, ListFacts
    <3>3. ASSUME pc'[q] = "mounts", NEW s \in {Cnt(q)[1]}, NEW l \in {opts'[q]}
          PROVE  Len(l) = at'[q] - 1 /\ MadeOf(q, s, l)'
      <4>1. Len(l) = 0
        BY <3>1, EmptySeq
      <4> QED
        BY <1>0, <3>1, <3>2, <3>3, <4>1 DEF MadeOf
    <3>4. Cnt(q)' = Cnt(q)
      BY <3>1 DEF Cnt
    <3> QED
      BY <3>1, <3>3, <3>4 DEF OptsOf, Converting, Asking
  <2>3. CASE FixMount(q)
    <3> DEFINE m0 == Mount(q)
               s0 == Cnt(q)[1]
    <3>1. /\ pc[q] \in Converting /\ todo' = todo /\ at[q] \in DOMAIN file.mounts[s0]
          /\ Parses(m0) /\ disk' = disk
      BY <2>3 DEF FixMount, Converting
    <3>2. s0 \in Service /\ m0 \in MountsOf(s0) /\ Cnt(q)' = Cnt(q)
      BY <3>1, AtMount DEF Cnt
    <3>3. MountDict(m0).type = "volume" =>
            \A s \in {s0}, m \in {m0} : Vol(q, s, m)' = Vol(q, s, m) /\ Fixed(q, m)'
      BY <2>3, <3>1, <3>2, VolStays
    <3>4. \A m : IsManaged(MountDict(m))' = IsManaged(MountDict(m))
      BY <1>0 DEF IsManaged, IsExternal, Declared
    <3>5. IsManaged(MountDict(m0)) => MountDict(m0).type = "volume"
      BY DEF IsManaged
    <3>6. CASE IsManaged(MountDict(m0))
      <4>1. pc'[q] = "inspect" /\ at'[q] = at[q] /\ opts'[q] = opts[q] /\ Mount(q)' = Mount(q)
        BY <1>0, <2>0, <2>3, <3>1, <3>2, <3>6 DEF FixMount, Goto, Mount
      <4>2. ASSUME NEW s \in {Cnt(q)[1]}, NEW l \in {opts[q]}
            PROVE  Len(l) = at[q] - 1 /\ MadeOf(q, s, l)'
        <5>1. Len(l) = at[q] - 1 /\ MadeOf(q, s, l) /\ Len(l) \in Nat /\ s \in Service
          BY <2>0, <3>1, <3>2, ListFacts DEF OptsOf, TypeOf
        <5> QED
          BY <5>1, MadeOfStays
      <4>3. \A s \in {Cnt(q)[1]}, m \in {Mount(q)} :
              /\ at[q] \in DOMAIN file.mounts[s] /\ Parses(m)
              /\ IsManaged(MountDict(m))' /\ Fixed(q, m)'
        BY <3>1, <3>3, <3>4, <3>5, <3>6
      <4> QED
        BY <1>0, <3>2, <4>1, <4>2, <4>3 DEF OptsOf
    <3>7. CASE ~IsManaged(MountDict(m0))
      <4> DEFINE source == IF MountDict(m0).type = "volume" THEN {Vol(q, s0, m0)}
                           ELSE {"host"} \X MountDict(m0).source
      <4>1. Emitted(q, source)
        <5>1. VolumeOf(q, Cnt(q), m0) = Vol(q, s0, m0)
          BY VolOfCnt
        <5> QED
          BY <2>3, <3>7, <5>1 DEF FixMount
      <4>2. \A s \in {s0}, m \in {m0} : \A o \in {VolumeArgs(MountDict(m), source)} : Made(q, s, m, o)'
        BY <3>1, <3>3, <3>4, <3>7 DEF Made
      <4> QED
        BY <3>1, <4>1, <4>2, OneMore
    <3> QED
      BY <3>6, <3>7
  <2>4. ASSUME pc[q] \in Asking, Emitted(q, {MountVolume(q)}), disk[MountVolume(q)] # None,
               todo' = todo, UNCHANGED <<disk, removed, name>>
        PROVE  OptsOf(q)'
    <3> DEFINE m0 == Mount(q)
               s0 == Cnt(q)[1]
    <3>1. /\ pc[q] \in Converting /\ at[q] \in DOMAIN file.mounts[s0] /\ Parses(m0)
          /\ IsManaged(MountDict(m0)) /\ Fixed(q, m0)
      BY <2>0, <2>4 DEF OptsOf, Converting
    <3>2. s0 \in Service /\ m0 \in MountsOf(s0) /\ MountVolume(q) = Vol(q, s0, m0)
      BY <3>1, AtMount
    <3>3. MountDict(m0).type = "volume"
      BY <3>1 DEF IsManaged
    <3>4. \A s \in {s0}, m \in {m0} : Vol(q, s, m)' = Vol(q, s, m) /\ Fixed(q, m)'
      BY <3>1, <3>2, <3>3, VolStays
    <3>5. \A s \in {s0}, m \in {m0} : \A o \in {VolumeArgs(MountDict(m), {MountVolume(q)})} :
            Made(q, s, m, o)'
      <4>1. \A s \in {s0}, m \in {m0} : disk'[Vol(q, s, m)'] # None
        BY <2>4, <3>2, <3>4
      <4> QED
        BY <3>1, <3>2, <3>3, <3>4, <4>1 DEF Made, There
    <3> QED
      BY <2>4, <3>1, <3>5, OneMore
  <2>5. CASE InspectVolume(q)
    <3>1. pc[q] \in Asking /\ pc[q] \in Converting /\ todo' = todo
          /\ UNCHANGED <<file, disk, removed, name>>
      BY <2>5 DEF InspectVolume, Asking, Converting, memory
    <3>2. CASE disk[MountVolume(q)] # None
      BY <2>4, <2>5, <3>1, <3>2 DEF InspectVolume
    <3>3. CASE disk[MountVolume(q)] = None
      <4>1. at'[q] = at[q] /\ opts'[q] = opts[q]
        BY <2>5, <3>3 DEF InspectVolume
      <4> QED
        BY <3>1, <4>1, OptsStay
    <3> QED
      BY <3>2, <3>3
  <2>6. CASE VerifyVolume(q)
    <3>1. pc[q] \in Asking /\ pc[q] \in Converting /\ todo' = todo
          /\ UNCHANGED <<file, disk, removed, name>>
      BY <2>6 DEF VerifyVolume, Asking, Converting, memory
    <3>2. CASE disk[MountVolume(q)] # None
      BY <2>4, <2>6, <3>1, <3>2 DEF VerifyVolume
    <3>3. CASE disk[MountVolume(q)] = None
      <4>1. at'[q] = at[q] /\ opts'[q] = opts[q]
        BY <2>6, <3>3 DEF VerifyVolume
      <4> QED
        BY <3>1, <4>1, OptsStay
    <3> QED
      BY <3>2, <3>3
  <2>7. CASE CreateVolume(q)
    <3>1. /\ pc[q] \in Asking /\ pc[q] \in Converting /\ todo'[q] = todo[q]
          /\ at'[q] = at[q] /\ opts'[q] = opts[q]
      BY <2>7 DEF CreateVolume, Asking, Converting
    <3> QED
      BY <3>1, OptsStay
  <2> QED
    BY <1>3, <2>1, <2>2, <2>3, <2>5, <2>6, <2>7 DEF Command
<1>4. \A r \in Run : OptsOf(r)'
  BY <1>1, <1>2, <1>3 DEF ArgsNext
<1> QED
  BY <1>4 DEF OptsInv

--------------------------------------------------------------------------------
(* The arguments of a container. *)

LEMMA KeysAreLists ==
  /\ IsList(PlainFirst) /\ IsList(PlainLast)
  /\ IsList(<<"logging">>) /\ IsList(<<"extra_hosts", "expose", "publishall">>)
  /\ IsList(<<"init", "init-path", "entrypoint">>) /\ IsList(<<"command">>)
<1>1. PlainFirst = [i \in 1 .. 12 |-> PlainFirst[i]]
  BY DEF PlainFirst
<1>2. PlainLast = [i \in 1 .. 12 |-> PlainLast[i]]
  BY DEF PlainLast
<1>3. <<"logging">> = [i \in 1 .. 1 |-> "logging"] /\ <<"command">> = [i \in 1 .. 1 |-> "command"]
  OBVIOUS
<1>4. <<"extra_hosts", "expose", "publishall">>
        = [i \in 1 .. 3 |-> <<"extra_hosts", "expose", "publishall">>[i]]
  OBVIOUS
<1>5. <<"init", "init-path", "entrypoint">>
        = [i \in 1 .. 3 |-> <<"init", "init-path", "entrypoint">>[i]]
  OBVIOUS
<1>6. ASSUME NEW n \in {1, 3, 12}, NEW s, s = [i \in 1 .. n |-> s[i]]
      PROVE  IsList(s)
  BY <1>6, MadeList
<1> QED
  BY <1>1, <1>2, <1>3, <1>4, <1>5, <1>6

LEMMA PlainList ==
  ASSUME NEW keys, IsList(keys), NEW s
  PROVE  /\ IsList(Plain(keys, s))
         /\ Len(Plain(keys, s)) = Cardinality(Said(keys, s))
         /\ Cardinality(Said(keys, s)) \in Nat
<1> DEFINE places == Said(keys, s)
           n      == Cardinality(places)
           chosen == Chosen(keys, places)
<1>1. places \in SUBSET DOMAIN keys
  BY DEF Said
<1> HIDE DEF places
<1>2. n \in Nat /\ DOMAIN chosen = 1 .. n
  <2>1. PICK S : keys \in Seq(S)
    BY DEF IsList
  <2> QED
    BY <1>1, <2>1, ChosenLists
<1>3. Plain(keys, s) = [i \in DOMAIN chosen |-> Option(chosen[i])]
  BY DEF Plain, Mapped, places
<1> HIDE DEF n, chosen
<1>4. Plain(keys, s) = [i \in 1 .. n |-> Plain(keys, s)[i]]
  BY <1>2, <1>3
<1>5. IsList(Plain(keys, s)) /\ Len(Plain(keys, s)) = n
  BY <1>2, <1>4, MadeList
<1> QED
  BY <1>2, <1>5 DEF n, places

LEMMA MappedList ==
  ASSUME NEW l, IsList(l)
  PROVE  IsList(Mapped(l, SecretArgs)) /\ IsList(Mapped(l, PortArgs)) /\ IsList(Mapped(l, UlimitArgs))
<1>1. Len(l) \in Nat /\ DOMAIN l = 1 .. Len(l)
  BY ListFacts
<1>2. /\ Mapped(l, SecretArgs) = [i \in 1 .. Len(l) |-> SecretArgs(l[i])]
      /\ Mapped(l, PortArgs) = [i \in 1 .. Len(l) |-> PortArgs(l[i])]
      /\ Mapped(l, UlimitArgs) = [i \in 1 .. Len(l) |-> UlimitArgs(l[i])]
  BY <1>1 DEF Mapped
<1>3. ASSUME NEW f, f = [i \in 1 .. Len(l) |-> f[i]]
      PROVE  IsList(f)
  BY <1>1, <1>3, MadeList
<1> QED
  BY <1>2, <1>3

LEMMA SingleList ==
  ASSUME NEW x
  PROVE  IsList(<<x>>)
BY SeqIsList, <<x>> \in Seq({x})

LEMMA AfterMountsList ==
  ASSUME file \in Files, NEW s \in Service, NEW test
  PROVE  IsList(AfterMounts(s, test))
<1>1. /\ IsList(<<"logging">>) /\ IsList(<<"extra_hosts", "expose", "publishall">>)
      /\ IsList(PlainLast) /\ IsList(<<"init", "init-path", "entrypoint">>)
      /\ IsList(<<"command">>)
  BY KeysAreLists
<1>2. IsList(file.uses[s]) /\ IsList(file.ports[s]) /\ IsList(file.ulimits[s])
  BY MountsFact
<1> DEFINE a == Plain(<<"logging">>, s)
           b == Mapped(file.uses[s], SecretArgs)
           c == Plain(<<"extra_hosts", "expose", "publishall">>, s)
           d == Mapped(file.ports[s], PortArgs)
           e == Plain(PlainLast, s)
           f == Mapped(file.ulimits[s], UlimitArgs)
           g == <<ResArgs(s)>>
           h == Plain(<<"init", "init-path", "entrypoint">>, s)
           i == <<[test |-> TestArgs(test)]>>
           j == <<[opt |-> "image"]>>
           k == Plain(<<"command">>, s)
<1>3. /\ IsList(a) /\ IsList(b) /\ IsList(c) /\ IsList(d) /\ IsList(e) /\ IsList(f) /\ IsList(g)
      /\ IsList(h) /\ IsList(i) /\ IsList(j) /\ IsList(k)
  BY <1>1, <1>2, PlainList, MappedList, SingleList
<1>4. AfterMounts(s, test) = a \o b \o c \o d \o e \o f \o g \o h \o i \o j \o k
  BY DEF AfterMounts
<1> HIDE DEF a, b, c, d, e, f, g, h, i, j, k
<1>5. IsList(a \o b \o c \o d)
  BY <1>3, Joined
<1>6. IsList(a \o b \o c \o d \o e \o f \o g)
  BY <1>3, <1>5, Joined
<1>7. IsList(a \o b \o c \o d \o e \o f \o g \o h \o i)
  BY <1>3, <1>6, Joined
<1> QED
  BY <1>3, <1>4, <1>7, Joined

\* The options of the mounts are found again among the others.
LEMMA MountArgsFound ==
  ASSUME file \in Files, NEW c, c[1] \in Service, NEW l, IsList(l),
         Len(l) = Len(file.mounts[c[1]]), NEW test
  PROVE  MountArgs([cnt |-> c, args |-> ContainerArgs(c[1], l, test)]) = l
<1> DEFINE s == c[1]
           x == [cnt |-> c, args |-> ContainerArgs(s, l, test)]
           a == Plain(PlainFirst, s)
           b == AfterMounts(s, test)
<1>1. IsList(PlainFirst)
  BY KeysAreLists
<1>2. IsList(a) /\ IsList(b) /\ Len(a) = Cardinality(Said(PlainFirst, s))
  BY <1>1, PlainList, AfterMountsList
<1>3. x.cnt[1] = s /\ x.args = (a \o l) \o b
  BY DEF ContainerArgs
<1>4. MountArgs(x) = SubSeq(x.args, Len(a) + 1, Len(a) + Len(l))
  BY <1>2, <1>3 DEF MountArgs
<1>5. SubSeq((a \o l) \o b, Len(a) + 1, Len(a) + Len(l)) = l
  <2> HIDE DEF a, b
  <2> QED
    BY <1>2, Middle
<1>6. MountArgs(x) = l
  BY <1>3, <1>4, <1>5
<1> QED
  BY <1>6

LEMMA ArgsSame ==
  ASSUME file' = file, NEW s, NEW l, NEW test, NEW x
  PROVE  ContainerArgs(s, l, test)' = ContainerArgs(s, l, test) /\ MountArgs(x)' = MountArgs(x)
<1>1. /\ Plain(PlainFirst, s)' = Plain(PlainFirst, s)
      /\ Plain(PlainLast, s)' = Plain(PlainLast, s)
      /\ Plain(<<"logging">>, s)' = Plain(<<"logging">>, s)
      /\ Plain(<<"extra_hosts", "expose", "publishall">>, s)'
           = Plain(<<"extra_hosts", "expose", "publishall">>, s)
      /\ Plain(<<"init", "init-path", "entrypoint">>, s)'
           = Plain(<<"init", "init-path", "entrypoint">>, s)
      /\ Plain(<<"command">>, s)' = Plain(<<"command">>, s)
  BY DEF Plain, Said, Mapped
<1>2. /\ Mapped(file.uses[s], SecretArgs)' = Mapped(file.uses[s], SecretArgs)
      /\ Mapped(file.ports[s], PortArgs)' = Mapped(file.ports[s], PortArgs)
      /\ Mapped(file.ulimits[s], UlimitArgs)' = Mapped(file.ulimits[s], UlimitArgs)
  BY DEF Mapped, SecretArgs
<1>3. ResArgs(s)' = ResArgs(s)
  BY DEF ResArgs
<1>4. AfterMounts(s, test)' = AfterMounts(s, test)
  BY <1>1, <1>2, <1>3 DEF AfterMounts
<1>5. ContainerArgs(s, l, test)' = ContainerArgs(s, l, test)
  BY <1>1, <1>4 DEF ContainerArgs
<1>6. MountArgs(x)' = MountArgs(x)
  BY DEF MountArgs, Said
<1> QED
  BY <1>5, <1>6

LEMMA StartedGrows ==
  ASSUME StateInv, NEW r \in Run, Finish(r), ~RestRaises(Cnt(r)[1], tests[r][file.holds[Cnt(r)[1]]])
  PROVE  Started(r)' = Started(r) \cup
           {[cnt |-> Cnt(r), args |-> ContainerArgs(Cnt(r)[1], opts[r], tests[r][file.holds[Cnt(r)[1]]])]}
<1> DEFINE y == [cnt |-> Cnt(r), args |-> ContainerArgs(Cnt(r)[1], opts[r], tests[r][file.holds[Cnt(r)[1]]])]
<1>1. started'[r] = Append(started[r], y) /\ IsList(started[r])
  BY StateParts DEF Finish, Functions, TypeOf
<1> HIDE DEF y
<1>2. /\ IsList(started'[r]) /\ Len(started'[r]) = Len(started[r]) + 1
      /\ \A i \in 1 .. Len(started[r]) : started'[r][i] = started[r][i]
      /\ started'[r][Len(started[r]) + 1] = y
  BY <1>1, Appended
<1>3. /\ DOMAIN started'[r] = 1 .. Len(started[r]) + 1 /\ Len(started[r]) \in Nat
      /\ DOMAIN started[r] = 1 .. Len(started[r])
  BY <1>1, <1>2, ListFacts
<1>4. \A i \in 1 .. Len(started[r]) + 1 : i \in 1 .. Len(started[r]) \/ i = Len(started[r]) + 1
  BY <1>3
<1>5. \A i \in 1 .. Len(started[r]) : i \in 1 .. Len(started[r]) + 1
  BY <1>3
<1>6. Len(started[r]) + 1 \in 1 .. Len(started[r]) + 1
  BY <1>3
<1>7. Started(r)' = {started'[r][i] : i \in DOMAIN started'[r]}
  BY DEF Started
<1>8. ASSUME NEW x \in Started(r)' PROVE x \in Started(r) \cup {y}
  BY <1>2, <1>3, <1>4, <1>7, <1>8 DEF Started
<1>9. ASSUME NEW x \in Started(r) \cup {y} PROVE x \in Started(r)'
  BY <1>2, <1>3, <1>5, <1>6, <1>7, <1>9 DEF Started
<1>10. Started(r)' = Started(r) \cup {y}
  BY <1>8, <1>9
<1> QED
  BY <1>10 DEF y

LEMMA StartedNext ==
  ASSUME StateInv, NameInv, OptsInv, StartedInv, TestsInv, ArgsNext
  PROVE  StartedInv'
<1>0. file' = file /\ file \in Files /\ StateInv'
  BY FileSame, StateNext DEF StateInv, ArgsTypeOK
<1>1. ASSUME NEW r \in Run, NEW x, NEW l, NEW h, NEW s \in Service, x.cnt[1] = s, IsList(l),
             l = MountArgs(x), h = Health(s), Len(l) = Len(file.mounts[s]), MadeOf(r, s, l)',
             ~h.list => x.args = ContainerArgs(s, l, h)
      PROVE  StartedAs(r, x)'
  <2>1. MountArgs(x)' = l /\ ContainerArgs(s, l, h)' = ContainerArgs(s, l, h)
    BY <1>0, <1>1, ArgsSame
  <2>2. Health(s)' = h
    BY <1>0, <1>1 DEF Health
  <2> QED
    BY <1>0, <1>1, <2>1, <2>2 DEF StartedAs
<1>2. ASSUME NEW r \in Run, NEW x \in Started(r)
      PROVE  StartedAs(r, x)'
  <2>1. PICK l, h : l = MountArgs(x) /\ h = Health(x.cnt[1])
    OBVIOUS
  <2>2. PICK s : s = x.cnt[1]
    OBVIOUS
  <2>3. /\ s \in Service /\ IsList(l) /\ Len(l) = Len(file.mounts[s]) /\ MadeOf(r, s, l)
        /\ ~h.list => x.args = ContainerArgs(s, l, h)
    BY <1>2, <2>1, <2>2 DEF StartedInv, StartedAs
  <2>4. MadeOf(r, s, l)'
    BY <2>3, MadeOfStays, ListFacts
  <2> QED
    BY <1>1, <2>1, <2>2, <2>3, <2>4
<1>3. ASSUME NEW q \in Run, Finish(q), ~RestRaises(Cnt(q)[1], tests[q][file.holds[Cnt(q)[1]]])
      PROVE  \A x \in {[cnt |-> Cnt(q), args |-> ContainerArgs(Cnt(q)[1], opts[q], tests[q][file.holds[Cnt(q)[1]]])]} :
               StartedAs(q, x)'
  <2>1. PICK c, s, l, t : /\ c = Cnt(q) /\ s = c[1] /\ l = opts[q] /\ t = tests[q][file.holds[s]]
    OBVIOUS
  <2>2. pc[q] \in Converting /\ at[q] \notin DOMAIN file.mounts[s]
    BY <1>3, <2>1 DEF Finish, Converting
  <2>3. s \in Service /\ DOMAIN file.mounts[s] = 1 .. Len(file.mounts[s])
        /\ Len(file.mounts[s]) \in Nat
    BY <2>1, <2>2, AtMount, ListFacts
  <2>4. IsList(l) /\ Len(l) = at[q] - 1 /\ MadeOf(q, s, l) /\ at[q] \in Nat \ {0}
    BY <2>1, <2>2, StateParts DEF OptsInv, OptsOf, TypeOf
  <2>5. Len(l) = Len(file.mounts[s]) /\ Len(l) \in Nat
    BY <2>2, <2>3, <2>4 DEF MadeOf
  <2>6. MadeOf(q, s, l)'
    BY <2>3, <2>4, <2>5, MadeOfStays
  <2>7. PICK h : h = Health(s)
    OBVIOUS
  <2>8. ~h.list => t = h
    <3>1. file.holds[s] \in Service
      BY <1>0, <2>3, MountsFact
    <3> QED
      BY <2>1, <2>7, <3>1 DEF TestsInv, TestsOf, Health
  <2> DEFINE x == [cnt |-> c, args |-> ContainerArgs(s, l, t)]
  <2>9. MountArgs(x) = l /\ x.cnt[1] = s /\ x.args = ContainerArgs(s, l, t)
    BY <1>0, <2>1, <2>3, <2>4, <2>5, MountArgsFound
  <2>10. PICK y : y = x
    OBVIOUS
  <2>11. /\ y.cnt[1] = s /\ l = MountArgs(y)
         /\ ~h.list => y.args = ContainerArgs(s, l, h)
    BY <2>8, <2>9, <2>10
  <2> HIDE DEF x
  <2>12. StartedAs(q, y)'
    BY <1>1, <2>3, <2>4, <2>5, <2>6, <2>7, <2>11
  <2>13. y = [cnt |-> Cnt(q), args |-> ContainerArgs(Cnt(q)[1], opts[q], tests[q][file.holds[Cnt(q)[1]]])]
    BY <2>1, <2>10 DEF x
  <2> QED
    BY <2>12, <2>13
<1>4. ASSUME NEW r \in Run, NEW x \in Started(r)'
      PROVE  \/ x \in Started(r)
             \/ /\ Finish(r) /\ ~RestRaises(Cnt(r)[1], tests[r][file.holds[Cnt(r)[1]]])
                /\ x = [cnt |-> Cnt(r), args |-> ContainerArgs(Cnt(r)[1], opts[r], tests[r][file.holds[Cnt(r)[1]]])]
  <2>1. CASE started'[r] = started[r]
    BY <1>4, <2>1 DEF Started
  <2>2. CASE started'[r] # started[r]
    <3>1. Command(r)
      <4>1. \A v \in VolumeName : ~RemoveVolume(v)
        BY <2>2 DEF RemoveVolume
      <4>2. \A q \in Run : Command(q) => q = r
        BY <2>2, CommandFrame DEF OthersSame
      <4> QED
        BY <4>1, <4>2 DEF ArgsNext
    <3>2. Finish(r)
      BY <2>2, <3>1 DEF Command, Parse, NextContainer, MountRaises, FixMount, InspectVolume,
                        CreateVolume, VerifyVolume
    <3>3. ~RestRaises(Cnt(r)[1], tests[r][file.holds[Cnt(r)[1]]])
      BY <2>2, <3>2 DEF Finish
    <3> QED
      BY <1>4, <3>2, <3>3, StartedGrows
  <2> QED
    BY <2>1, <2>2
<1>5. \A r \in Run : \A x \in Started(r)' : StartedAs(r, x)'
  BY <1>2, <1>3, <1>4
<1> QED
  BY <1>5 DEF StartedInv

--------------------------------------------------------------------------------
(* Health checks. *)

LEMMA TestsNext ==
  ASSUME StateInv, TestsInv, ArgsNext
  PROVE  TestsInv'
<1>0. file' = file /\ \A r \in Run : TestsOf(r) /\ TypeOf(r)
  BY FileSame, StateParts DEF TestsInv
<1>1. ASSUME NEW r \in Run, tests'[r] = tests[r], started'[r] = started[r],
             pc'[r] # "raised" => pc[r] # "raised"
      PROVE  TestsOf(r)'
  <2>1. Started(r)' = Started(r)
    BY <1>1 DEF Started
  <2> QED
    BY <1>0, <1>1, <2>1 DEF TestsOf
<1>2. ASSUME NEW q \in Run, Finish(q)
      PROVE  TestsOf(q)'
  <2> DEFINE s1 == Cnt(q)[1]
             s0 == file.holds[s1]
  <2>1. pc[q] = "mounts" /\ pc[q] \in Converting
    BY <1>2 DEF Finish, Converting
  <2>2. s0 \in Service
    BY <2>1, AtMount, MountsFact DEF StateInv, ArgsTypeOK
  <2>3. q \in DOMAIN tests /\ q \in DOMAIN pc /\ tests[q] \in [Service -> HealthCheck]
    BY <1>0, StateParts DEF Functions, TypeOf
  <2>4. tests'[q] = [tests[q] EXCEPT ![s0] = TestLeft(tests[q][s0])]
    BY <1>2, <2>3 DEF Finish
  <2>5. ~RestRaises(s1, tests[q][s0]) =>
          \A x \in Started(q) : x \in Started(q)'
    BY <1>2, StartedGrows
  <2>6. ASSUME ~RestRaises(s1, tests[q][s0])
        PROVE  \E x \in Started(q)' : file.holds[x.cnt[1]] = s0
    <3>1. PICK c, a : c = Cnt(q) /\ a = ContainerArgs(Cnt(q)[1], opts[q], tests[q][file.holds[Cnt(q)[1]]])
      OBVIOUS
    <3>2. [cnt |-> c, args |-> a] \in Started(q)'
      BY <1>2, <2>6, <3>1, StartedGrows
    <3>3. file.holds[[cnt |-> c, args |-> a].cnt[1]] = s0
      BY <3>1
    <3> QED
      BY <3>2, <3>3
  <2>7. RestRaises(s1, tests[q][s0]) => pc'[q] = "raised"
    BY <1>2, <2>3 DEF Finish, Goto
  <2> HIDE DEF s0, s1
  <2>8. \A s \in Service : ~file.health[s].list => tests'[q][s] = file.health[s]
    <3> SUFFICES ASSUME NEW s \in Service, ~file.health[s].list
                 PROVE  tests'[q][s] = file.health[s]
      OBVIOUS
    <3>1. tests[q][s] = file.health[s] /\ tests[q][s] \in HealthCheck
      BY <1>0, <2>3 DEF TestsOf
    <3>2. TestLeft(tests[q][s]) = tests[q][s]
      BY <3>1, HealthLeft
    <3> QED
      BY <2>2, <2>3, <2>4, <3>1, <3>2
  <2>9. ASSUME pc'[q] # "raised", NEW s \in Service,
               \A x \in Started(q)' : file.holds[x.cnt[1]] # s
         PROVE  tests'[q][s] = file.health[s]
    <3>1. s # s0 /\ \A x \in Started(q) : file.holds[x.cnt[1]] # s
      BY <2>5, <2>6, <2>7, <2>9
    <3>2. tests[q][s] = file.health[s]
      BY <1>0, <2>1, <3>1 DEF TestsOf
    <3> QED
      BY <2>3, <2>4, <3>1, <3>2
  <2> QED
    BY <1>0, <2>8, <2>9 DEF TestsOf
<1>3. ASSUME NEW v \in VolumeName, RemoveVolume(v), NEW r \in Run
      PROVE  TestsOf(r)'
  BY <1>1, <1>3 DEF RemoveVolume, memory
<1>4. ASSUME NEW q \in Run, Command(q)
      PROVE  TestsOf(q)' /\ \A r \in Run \ {q} : TestsOf(r)'
  <2>1. \A r \in Run \ {q} : TestsOf(r)'
    BY <1>1, <1>4, CommandFrame DEF OthersSame
  <2>2. CASE ~Finish(q)
    <3>1. tests' = tests /\ started' = started
      BY <1>4, <2>2 DEF Command, Parse, NextContainer, MountRaises, FixMount, InspectVolume,
                        CreateVolume, VerifyVolume, memory
    <3>2. pc[q] # "raised"
      BY <1>4, <2>2 DEF Command, Parse, NextContainer, MountRaises, FixMount, InspectVolume,
                        CreateVolume, VerifyVolume
    <3>3. TestsOf(q)'
      BY <1>1, <3>1, <3>2
    <3> QED
      BY <2>1, <3>3
  <2> QED
    BY <1>2, <2>1, <2>2
<1>5. \A r \in Run : TestsOf(r)'
  BY <1>3, <1>4 DEF ArgsNext
<1> QED
  BY <1>5 DEF TestsInv

--------------------------------------------------------------------------------
(* What happens between two calls of podman, and how a command fails. *)

LEMMA MountVolumeSame ==
  ASSUME NEW r \in Run, file' = file, name'[r] = name[r], todo'[r] = todo[r], at'[r] = at[r]
  PROVE  MountVolume(r)' = MountVolume(r) /\ Cnt(r)' = Cnt(r)
<1>1. Cnt(r)' = Cnt(r)
  BY DEF Cnt
<1>2. Mount(r)' = Mount(r)
  BY <1>1 DEF Mount
<1>3. \A m : NameKnown(r, m)' = NameKnown(r, m)
  BY DEF NameKnown, Keys, Declared
<1>4. ASSUME NEW c, NEW m
      PROVE  VolumeOf(r, c, m)' = VolumeOf(r, c, m)
  <2>1. NameChosen(c, MountDict(m))' = NameChosen(c, MountDict(m))
    BY DEF NameChosen, Declared
  <2>2. NameKnown(r, m)' = NameKnown(r, m)
    BY <1>3
  <2> QED
    BY <2>1, <2>2 DEF VolumeOf
<1>5. PICK c, m : c = Cnt(r) /\ m = Mount(r)
  OBVIOUS
<1>6. MountVolume(r) = VolumeOf(r, c, m) /\ MountVolume(r)' = VolumeOf(r, c, m)'
  BY <1>1, <1>2, <1>5 DEF MountVolume
<1> QED
  BY <1>1, <1>4, <1>6

\* The volume a command asks podman about.
LEMMA AskedVolume ==
  ASSUME StateInv, NameInv, OptsInv, NEW r \in Run, pc[r] \in Asking
  PROVE  /\ MountVolume(r) \in VolumeName
         /\ MountVolume(r) = Vol(r, Cnt(r)[1], Mount(r))
         /\ Cnt(r)[1] \in Service /\ Mount(r) \in MountsOf(Cnt(r)[1])
         /\ at[r] \in DOMAIN file.mounts[Cnt(r)[1]]
         /\ Parses(Mount(r)) /\ IsManaged(MountDict(Mount(r)))
<1>1. /\ at[r] \in DOMAIN file.mounts[Cnt(r)[1]]
      /\ Parses(Mount(r)) /\ IsManaged(MountDict(Mount(r)))
  BY DEF OptsInv, OptsOf
<1>2. /\ MountVolume(r) = Vol(r, Cnt(r)[1], Mount(r))
      /\ Cnt(r)[1] \in Service /\ Mount(r) \in MountsOf(Cnt(r)[1])
  BY <1>1, AtMount DEF Converting
<1>3. Vol(r, Cnt(r)[1], Mount(r)) \in VolumeName
  BY <1>1, <1>2, VolIs DEF IsManaged, StateInv, ArgsTypeOK
<1> QED
  BY <1>1, <1>2, <1>3

\* What others and removals do to the volumes one waits for.
LEMMA DiskOfOthers ==
  ASSUME StateInv, NEW r \in Run, NEW v \in VolumeName,
         \/ \E q \in Run \ {r} : Command(q)
         \/ \E w \in VolumeName : RemoveVolume(w)
  PROVE  /\ \/ disk'[v] = disk[v]
            \/ disk[v] = None /\ disk'[v] \in Run \ {r}
            \/ disk'[v] = None /\ removed' # {}
         /\ removed # {} => removed' # {}
<1>1. ASSUME NEW q \in Run \ {r}, Command(q)
      PROVE  /\ disk'[v] = disk[v] \/ (disk[v] = None /\ disk'[v] \in Run \ {r})
             /\ removed' = removed
  BY <1>1, CommandFrame DEF DiskStep, OthersSame
<1>2. ASSUME NEW w \in VolumeName, RemoveVolume(w)
      PROVE  /\ disk'[v] = disk[v] \/ disk'[v] = None
             /\ removed' = removed \cup {w}
  BY <1>2 DEF RemoveVolume, StateInv, ArgsTypeOK
<1> QED
  BY <1>1, <1>2

LEMMA OwnSame ==
  ASSUME StateInv, ArgsNext, NEW r \in Run, ~Command(r)
  PROVE  /\ \/ \E q \in Run \ {r} : Command(q)
            \/ \E w \in VolumeName : RemoveVolume(w)
         /\ pc'[r] = pc[r] /\ todo'[r] = todo[r] /\ at'[r] = at[r] /\ name'[r] = name[r]
         /\ Started(r)' = Started(r)
<1>1. CASE \E q \in Run \ {r} : Command(q)
  BY <1>1, CommandFrame DEF OthersSame, Started
<1>2. CASE \E w \in VolumeName : RemoveVolume(w)
  BY <1>2 DEF RemoveVolume, memory, Started
<1> QED
  BY <1>1, <1>2 DEF ArgsNext

LEMMA WaitNext ==
  ASSUME StateInv, NameInv, OptsInv, WaitInv, ArgsNext
  PROVE  WaitInv'
<1>0. file' = file
  BY FileSame
<1>1. ASSUME NEW r \in Run, ~Command(r)
      PROVE  WaitOf(r)'
  <2>1. /\ \/ \E q \in Run \ {r} : Command(q)
           \/ \E w \in VolumeName : RemoveVolume(w)
        /\ pc'[r] = pc[r] /\ MountVolume(r)' = MountVolume(r)
    BY <1>0, <1>1, OwnSame, MountVolumeSame
  <2>2. CASE pc[r] \in Asking
    <3> DEFINE v == MountVolume(r)
    <3>1. WaitOf(r) /\ v \in VolumeName
      BY <2>2, AskedVolume DEF WaitInv
    <3>2. /\ \/ disk'[v] = disk[v]
             \/ disk[v] = None /\ disk'[v] \in Run \ {r}
             \/ disk'[v] = None /\ removed' # {}
          /\ removed # {} => removed' # {}
      BY <2>1, <3>1, DiskOfOthers
    <3>3. None \notin Run
      BY ArgsAssumption
    <3> HIDE DEF v
    <3>4. /\ pc[r] = "create" => disk'[v] \in {None} \cup (Run \ {r})
          /\ pc[r] = "verify" => disk'[v] # None \/ removed' # {}
      BY <3>1, <3>2, <3>3 DEF WaitOf, v
    <3> QED
      BY <2>1, <3>4 DEF WaitOf, v
  <2>3. CASE pc[r] \notin Asking
    BY <2>1, <2>3 DEF WaitOf, Asking
  <2> QED
    BY <2>2, <2>3
<1>2. ASSUME NEW q \in Run, Command(q)
      PROVE  WaitOf(q)'
  <2>0. q \in DOMAIN pc /\ DOMAIN disk = VolumeName /\ None \notin Run
    BY StateParts, ArgsAssumption DEF Functions, DiskType
  <2>1. CASE Parse(q) \/ NextContainer(q) \/ MountRaises(q) \/ FixMount(q) \/ Finish(q)
    <3>1. pc'[q] \notin {"create", "verify"}
      BY <2>0, <2>1 DEF Parse, NextContainer, MountRaises, FixMount, Finish, Emitted, Goto
    <3> QED
      BY <3>1 DEF WaitOf
  <2>2. CASE InspectVolume(q)
    <3>1. CASE disk[MountVolume(q)] # None
      BY <2>0, <2>2, <3>1 DEF InspectVolume, Emitted, Goto, WaitOf
    <3>2. CASE disk[MountVolume(q)] = None
      <4>1. pc'[q] = "create" /\ UNCHANGED <<file, disk, todo, at, name>>
        BY <2>0, <2>2, <3>2 DEF InspectVolume, Goto, memory
      <4>2. MountVolume(q)' = MountVolume(q)
        BY <4>1, MountVolumeSame
      <4> QED
        BY <3>2, <4>1, <4>2 DEF WaitOf
    <3> QED
      BY <3>1, <3>2
  <2>3. CASE CreateVolume(q)
    <3>1. CASE disk[MountVolume(q)] # None
      BY <2>0, <2>3, <3>1 DEF CreateVolume, Goto, WaitOf
    <3>2. CASE disk[MountVolume(q)] = None
      <4>1. /\ pc'[q] = "verify" /\ UNCHANGED <<file, todo, at, name>>
            /\ disk' = [disk EXCEPT ![MountVolume(q)] = q]
        BY <2>0, <2>3, <3>2 DEF CreateVolume, Goto, memory
      <4>2. MountVolume(q)' = MountVolume(q)
        BY <4>1, MountVolumeSame
      <4>3. MountVolume(q) \in VolumeName
        BY <2>3, AskedVolume DEF CreateVolume, Asking
      <4>4. disk'[MountVolume(q)] = q
        BY <2>0, <4>1, <4>3
      <4> QED
        BY <2>0, <4>1, <4>2, <4>4 DEF WaitOf
    <3> QED
      BY <3>1, <3>2
  <2>4. CASE VerifyVolume(q)
    BY <2>0, <2>4 DEF VerifyVolume, Emitted, Goto, WaitOf
  <2> QED
    BY <1>2, <2>1, <2>2, <2>3, <2>4 DEF Command
<1>3. \A r \in Run : WaitOf(r)'
  BY <1>1, <1>2
<1> QED
  BY <1>3 DEF WaitInv

LEMMA WrongSame ==
  ASSUME file' = file, NEW s
  PROVE  Wrong(s)' = Wrong(s)
BY DEF Wrong, RestRaises, SecretRaises, Health

LEMMA FailNext ==
  ASSUME StateInv, NameInv, OptsInv, TestsInv, WaitInv, FailInv, ArgsNext
  PROVE  FailInv'
<1>0. file' = file /\ None \notin Run
  BY FileSame, ArgsAssumption
<1>1. ASSUME NEW r \in Run, ~Command(r)
      PROVE  FailOf(r)'
  <2>1. /\ \/ \E q \in Run \ {r} : Command(q)
           \/ \E w \in VolumeName : RemoveVolume(w)
        /\ pc'[r] = pc[r] /\ at'[r] = at[r]
        /\ MountVolume(r)' = MountVolume(r) /\ Cnt(r)' = Cnt(r) /\ Started(r)' = Started(r)
    BY <1>0, <1>1, OwnSame, MountVolumeSame
  <2>2. removed # {} => removed' # {}
    BY <2>1, CommandFrame DEF OthersSame, RemoveVolume
  <2>3. FailOf(r)
    BY DEF FailInv
  <2>4. ASSUME MountVolume(r) \in VolumeName, disk[MountVolume(r)] \in Run \ {r}
        PROVE  disk'[MountVolume(r)] \in Run \ {r} \/ removed' # {}
    <3> DEFINE v == MountVolume(r)
    <3>1. \/ disk'[v] = disk[v]
          \/ disk[v] = None /\ disk'[v] \in Run \ {r}
          \/ disk'[v] = None /\ removed' # {}
      BY <2>1, <2>4, DiskOfOthers
    <3> QED
      BY <2>4, <3>1
  <2>5. \A c : Wrong(c[1])' = Wrong(c[1]) /\ Health(c[1])' = Health(c[1])
    BY <1>0, WrongSame DEF Health
  <2> QED
    BY <1>0, <2>1, <2>2, <2>3, <2>4, <2>5 DEF FailOf
<1>2. ASSUME NEW q \in Run, Command(q)
      PROVE  FailOf(q)'
  <2>0. q \in DOMAIN pc /\ pc[q] # "raised"
    BY <1>2, StateParts DEF Functions, Command, Parse, NextContainer, MountRaises, FixMount,
       InspectVolume, CreateVolume, VerifyVolume, Finish
  <2>1. CASE NextContainer(q) \/ FixMount(q) \/ InspectVolume(q)
    <3>1. pc'[q] # "raised"
      BY <2>0, <2>1 DEF NextContainer, FixMount, InspectVolume, Emitted, Goto
    <3> QED
      BY <3>1 DEF FailOf
  <2>2. CASE Parse(q)
    <3>1. pc'[q] = "raised" =>
            \E s \in Service : \E i \in DOMAIN file.ports[s] : PortRaises(file.ports[s][i])
      BY <2>0, <2>2 DEF Parse, Goto
    <3> QED
      BY <1>0, <3>1 DEF FailOf
  <2>3. ASSUME NEW c, c = Cnt(q), todo' = todo, started' = started,
               \/ Wrong(c[1])
               \/ /\ Health(c[1]).list
                  /\ \E x \in Started(q) : file.holds[x.cnt[1]] = file.holds[c[1]]
        PROVE  FailOf(q)'
    <3>1. /\ Cnt(q)' = c /\ Wrong(c[1])' = Wrong(c[1]) /\ Started(q)' = Started(q)
          /\ Health(c[1])' = Health(c[1])
      BY <1>0, <2>3, WrongSame DEF Cnt, Started, Health
    <3> QED
      BY <1>0, <2>3, <3>1 DEF FailOf
  <2>4. CASE MountRaises(q)
    <3>1. /\ at[q] \in DOMAIN file.mounts[Cnt(q)[1]]
          /\ Parses(Mount(q)) => VolumeRaises(MountDict(Mount(q)))
          /\ todo' = todo /\ started' = started
      BY <2>4 DEF MountRaises
    <3>2. Wrong(Cnt(q)[1])
      BY <3>1 DEF Wrong, Mount
    <3> QED
      BY <2>3, <3>1, <3>2
  <2>5. CASE CreateVolume(q)
    <3>1. CASE disk[MountVolume(q)] = None
      BY <2>0, <2>5, <3>1 DEF CreateVolume, Goto, FailOf
    <3>2. CASE disk[MountVolume(q)] # None
      <4>1. UNCHANGED <<file, disk, todo, at, name>>
        BY <2>5, <3>2 DEF CreateVolume, memory
      <4>2. MountVolume(q)' = MountVolume(q) /\ Cnt(q)' = Cnt(q)
        BY <4>1, MountVolumeSame
      <4>3. MountVolume(q) \in VolumeName /\ at[q] \in DOMAIN file.mounts[Cnt(q)[1]]
        BY <2>5, AskedVolume DEF CreateVolume, Asking
      <4>4. disk[MountVolume(q)] \in Run \ {q}
        BY <2>5, <3>2 DEF WaitInv, WaitOf, CreateVolume
      <4> QED
        BY <4>1, <4>2, <4>3, <4>4 DEF FailOf
    <3> QED
      BY <3>1, <3>2
  <2>6. CASE VerifyVolume(q)
    <3>1. CASE disk[MountVolume(q)] # None
      BY <2>0, <2>6, <3>1 DEF VerifyVolume, Emitted, Goto, FailOf
    <3>2. CASE disk[MountVolume(q)] = None
      <4>1. removed # {} /\ removed' = removed
        BY <2>6, <3>2 DEF WaitInv, WaitOf, VerifyVolume
      <4> QED
        BY <4>1 DEF FailOf
    <3> QED
      BY <3>1, <3>2
  <2>7. CASE Finish(q)
    <3> DEFINE s == Cnt(q)[1]
               o == file.holds[s]
    <3>1. CASE ~RestRaises(s, tests[q][o])
      BY <2>0, <2>7, <3>1 DEF Finish, Goto, FailOf
    <3>2. CASE RestRaises(s, tests[q][o])
      <4>1. /\ todo' = todo /\ started' = started /\ pc[q] # "raised"
            /\ s \in Service /\ o \in Service
        BY <2>7, <3>2, AtMount, MountsFact DEF Finish, Converting, StateInv, ArgsTypeOK
      <4>2. CASE Health(s).list /\ \E x \in Started(q) : file.holds[x.cnt[1]] = o
        BY <2>3, <4>1, <4>2
      <4>3. CASE ~(Health(s).list /\ \E x \in Started(q) : file.holds[x.cnt[1]] = o)
        <5>1. tests[q][o] = Health(s)
          BY <4>1, <4>3 DEF TestsInv, TestsOf, Health
        <5>2. Wrong(Cnt(q)[1])
          BY <3>2, <5>1 DEF Wrong
        <5> QED
          BY <2>3, <4>1, <5>2
      <4> QED
        BY <4>2, <4>3
    <3> QED
      BY <3>1, <3>2
  <2> QED
    BY <1>2, <2>1, <2>2, <2>4, <2>5, <2>6, <2>7 DEF Command
<1>3. \A r \in Run : FailOf(r)'
  BY <1>1, <1>2
<1> QED
  BY <1>3 DEF FailInv

--------------------------------------------------------------------------------
(* The beginning, and the theorem. *)

LEMMA TodoAtFirst ==
  ASSUME NEW l, NEW chosen, l = Chosen(Order, {i \in DOMAIN Order : Order[i][1] \in chosen})
  PROVE  l \in Seq(Service \X (Nat \ {0}))
<1>1. PICK S : S = Service \X (Nat \ {0}) /\ Order \in Seq(S)
  BY ArgsAssumption
<1>2. PICK places \in SUBSET DOMAIN Order : l = Chosen(Order, places)
  OBVIOUS
<1>3. l \in Seq(S)
  BY <1>1, <1>2, ChosenLists
<1> QED
  BY <1>1, <1>3

LEMMA NamesAtFirst ==
  ASSUME ArgsInit, NEW r \in Run
  PROVE  /\ name[r] \in [Source \cup MountId -> SUBSET VolumeName]
         /\ \A k \in Source \cup MountId :
              /\ k \notin Declared => name[r][k] = {}
              /\ k \in Declared => /\ name[r][k] \subseteq {MeantBy(k)}
                                   /\ file.volumes[k].name # {} => name[r][k] # {}
         /\ \A k \in Source \cup MountId : Optional(name[r][k])
<1>1. /\ file \in Files
      /\ name[r] = [k \in Source \cup MountId |->
                      IF k \in Declared THEN {<<"given", g>> : g \in file.volumes[k].name} ELSE {}]
  BY DEF ArgsInit
<1>2. ASSUME NEW k \in Declared
      PROVE  /\ {<<"given", g>> : g \in file.volumes[k].name} \subseteq {MeantBy(k)}
             /\ {<<"given", g>> : g \in file.volumes[k].name} \in SUBSET VolumeName
             /\ file.volumes[k].name # {} => {<<"given", g>> : g \in file.volumes[k].name} # {}
  <2>1. file.volumes[k].name \subseteq Given /\ Optional(file.volumes[k].name)
    BY <1>1, <1>2, DeclaredFact
  <2>2. \A g \in Given : <<"given", g>> \in VolumeName
    BY DEF VolumeName
  <2>3. \A g \in file.volumes[k].name : MeantBy(k) = <<"given", g>>
    BY <1>2, <2>1 DEF MeantBy, Optional
  <2> QED
    BY <2>1, <2>2, <2>3
<1>3. \A k \in Source \cup MountId :
        /\ k \notin Declared => name[r][k] = {}
        /\ k \in Declared => name[r][k] = {<<"given", g>> : g \in file.volumes[k].name}
  BY <1>1
<1>4. \A k \in Source \cup MountId : name[r][k] \in SUBSET VolumeName
  BY <1>2, <1>3
<1>5. name[r] = [k \in Source \cup MountId |-> name[r][k]]
  BY <1>1
<1>6. name[r] \in [Source \cup MountId -> SUBSET VolumeName]
  BY <1>4, <1>5
<1>7. \A k \in Source \cup MountId : Optional(name[r][k])
  BY <1>2, <1>3 DEF Optional
<1> QED
  BY <1>2, <1>3, <1>6, <1>7

LEMMA ArgsInitially ==
  ASSUME ArgsInit
  PROVE  ArgsInv
<1>1. /\ file \in Files /\ removed = {}
      /\ pc = [r \in Run |-> "parse"] /\ at = [r \in Run |-> 1] /\ opts = [r \in Run |-> <<>>]
      /\ tests = [r \in Run |-> file.health] /\ started = [r \in Run |-> <<>>]
  BY DEF ArgsInit
<1>2. disk \in [VolumeName -> Run \cup {"before", None}]
  BY DEF ArgsInit
<1>3. PICK chosen : todo = [r \in Run |-> Chosen(Order, {i \in DOMAIN Order : Order[i][1] \in chosen[r]})]
  BY DEF ArgsInit
<1>4. file.health \in [Service -> HealthCheck]
  BY <1>1, FilesAssumption
<1>5. IsList(<<>>) /\ DOMAIN <<>> = {}
  <2>1. IsList(<<>>)
    BY EmptySeq DEF IsList
  <2>2. DOMAIN <<>> = {}
    OBVIOUS
  <2> QED
    BY <2>1, <2>2
<1>6. ASSUME NEW r \in Run
      PROVE  todo[r] \in Seq(Service \X (Nat \ {0}))
  <2>1. PICK l, c : l = todo[r] /\ c = chosen[r]
    OBVIOUS
  <2>2. l = Chosen(Order, {i \in DOMAIN Order : Order[i][1] \in c})
    BY <1>3, <2>1
  <2> QED
    BY <2>1, <2>2, TodoAtFirst
<1>7. StateInv
  <2>1. DiskType
    BY <1>1, <1>2 DEF DiskType
  <2>2. Functions
    <3>1. name = [r \in Run |-> name[r]]
      BY DEF ArgsInit
    <3> QED
      BY <1>1, <1>3, <3>1 DEF Functions
  <2>3. ASSUME NEW r \in Run PROVE TypeOf(r)
    <3>1. tests[r] \in [Service -> HealthCheck]
      BY <1>1, <1>4
    <3>2. pc[r] = "parse" /\ at[r] = 1 /\ opts[r] = <<>> /\ started[r] = <<>>
      BY <1>1
    <3>3. IsList(opts[r]) /\ IsList(started[r])
      BY <1>5, <3>2
    <3>4. pc[r] \in Label /\ at[r] \in Nat \ {0} /\ pc[r] \notin Converting
      BY <3>2 DEF Label, Converting, Asking
    <3>5. /\ name[r] \in [Source \cup MountId -> SUBSET VolumeName]
          /\ \A k \in Source \cup MountId : Optional(name[r][k])
      BY NamesAtFirst
    <3> QED
      BY <1>6, <3>1, <3>3, <3>4, <3>5 DEF TypeOf
  <2> QED
    BY <2>1, <2>2, <2>3, StateParts
<1>8. NameInv
  <2>1. ASSUME NEW r \in Run PROVE DeclaredNames(r)
    BY <1>1, MountsFact, NamesAtFirst DEF DeclaredNames
  <2>2. ASSUME NEW r \in Run, NEW s \in Service, NEW m \in MountsOf(s), ~IsShort(m)
        PROVE  LongNames(r, m)
    <3>1. m.id \in MountId /\ m.id \notin Declared
      BY <1>1, <2>2, MountsFact
    <3>2. name[r][m.id] = {}
      BY <3>1, NamesAtFirst
    <3> QED
      BY <3>2 DEF LongNames
  <2> QED
    BY <2>1, <2>2 DEF NameInv
<1>9. OptsInv
  BY <1>1 DEF OptsInv, OptsOf, Converting, Asking
<1>10. StartedInv
  BY <1>1, <1>5 DEF StartedInv, Started
<1>11. TestsInv
  BY <1>1 DEF TestsInv, TestsOf
<1>12. WaitInv /\ FailInv
  BY <1>1 DEF WaitInv, WaitOf, FailInv, FailOf
<1> QED
  BY <1>7, <1>8, <1>9, <1>10, <1>11, <1>12 DEF ArgsInv

LEMMA MadeSame ==
  ASSUME UNCHANGED argsVars, NEW r, NEW s, NEW m, NEW o, Made(r, s, m, o)
  PROVE  Made(r, s, m, o)'
<1>1. file' = file /\ name' = name /\ disk' = disk /\ removed' = removed
  BY DEF argsVars, memory
<1>2. Keys(m)' = Keys(m) /\ NameKnown(r, m)' = NameKnown(r, m)
  BY <1>1 DEF NameKnown, Keys, Declared
<1>3. NameChosen(<<s, 1>>, MountDict(m))' = NameChosen(<<s, 1>>, MountDict(m))
  BY <1>1 DEF NameChosen, Declared
<1>4. Vol(r, s, m)' = Vol(r, s, m)
  BY <1>2, <1>3 DEF Vol, VolumeOf
<1>5. Fixed(r, m)' = Fixed(r, m) /\ There(Vol(r, s, m))' = There(Vol(r, s, m))
  BY <1>1, <1>2, <1>4 DEF Fixed, There
<1>6. IsManaged(MountDict(m))' = IsManaged(MountDict(m))
  BY <1>1 DEF IsManaged, IsExternal, Declared
<1> QED
  BY <1>4, <1>5, <1>6 DEF Made

LEMMA MadeOfSame ==
  ASSUME UNCHANGED argsVars, NEW r, NEW s, NEW l, MadeOf(r, s, l)
  PROVE  MadeOf(r, s, l)'
<1>1. file' = file
  BY DEF argsVars
<1>2. ASSUME NEW i \in 1 .. Len(l), NEW m \in {file.mounts[s][i]}, NEW o \in {l[i]}
      PROVE  Made(r, s, m, o)'
  BY <1>2, MadeSame DEF MadeOf
<1> QED
  BY <1>1, <1>2 DEF MadeOf

LEMMA ArgsUnchanged ==
  ASSUME ArgsInv, UNCHANGED argsVars
  PROVE  ArgsInv'
<1>0. /\ file' = file /\ disk' = disk /\ removed' = removed /\ pc' = pc /\ todo' = todo
      /\ at' = at /\ opts' = opts /\ name' = name /\ tests' = tests /\ started' = started
  BY DEF argsVars, memory
<1>1. StateInv'
  BY <1>0 DEF ArgsInv, StateInv, ArgsTypeOK
<1>2. TestsInv'
  BY <1>0 DEF ArgsInv, TestsInv, TestsOf, Started
<1>3. NameInv'
  <2>1. Declared' = Declared /\ \A k : MeantBy(k)' = MeantBy(k)
    BY <1>0 DEF Declared, MeantBy
  <2>2. \A s : MountsOf(s)' = MountsOf(s)
    BY <1>0 DEF MountsOf
  <2>3. \A r : DeclaredNames(r)' = DeclaredNames(r)
    BY <1>0, <2>1 DEF DeclaredNames
  <2>4. \A r, m : LongNames(r, m)' = LongNames(r, m)
    BY <1>0, <2>1, <2>2 DEF LongNames
  <2> QED
    BY <2>2, <2>3, <2>4 DEF ArgsInv, NameInv
<1>4. OptsInv'
  <2>1. ASSUME NEW r \in Run
        PROVE  OptsOf(r)'
    <3>1. Cnt(r)' = Cnt(r) /\ Mount(r)' = Mount(r)
      BY <1>0 DEF Cnt, Mount
    <3>2. pc[r] \in Converting =>
            \A s \in {Cnt(r)[1]}, l \in {opts[r]} : Len(l) = at[r] - 1 /\ MadeOf(r, s, l)'
      BY MadeOfSame DEF ArgsInv, OptsInv, OptsOf
    <3>3. \A m : Fixed(r, m)' = Fixed(r, m) /\ IsManaged(MountDict(m))' = IsManaged(MountDict(m))
      BY <1>0 DEF Fixed, NameKnown, Keys, IsManaged, IsExternal, Declared
    <3>4. pc[r] \in Asking =>
            \A s \in {Cnt(r)[1]}, m \in {Mount(r)} :
              at[r] \in DOMAIN file.mounts[s] /\ Parses(m) /\ IsManaged(MountDict(m)) /\ Fixed(r, m)
      BY DEF ArgsInv, OptsInv, OptsOf
    <3> QED
      BY <1>0, <3>1, <3>2, <3>3, <3>4 DEF OptsOf
  <2> QED
    BY <2>1 DEF OptsInv
<1>5. StartedInv'
  <2>1. ASSUME NEW r \in Run, NEW x \in Started(r)
        PROVE  StartedAs(r, x)'
    <3>1. PICK s, l, h : s = x.cnt[1] /\ l = MountArgs(x) /\ h = Health(s)
      OBVIOUS
    <3>2. /\ s \in Service /\ IsList(l) /\ Len(l) = Len(file.mounts[s]) /\ MadeOf(r, s, l)
          /\ ~h.list => x.args = ContainerArgs(s, l, h)
      BY <2>1, <3>1 DEF ArgsInv, StartedInv, StartedAs
    <3>3. MountArgs(x)' = l /\ ContainerArgs(s, l, h)' = ContainerArgs(s, l, h) /\ MadeOf(r, s, l)'
      BY <1>0, <3>1, <3>2, ArgsSame, MadeOfSame
    <3>4. Health(s)' = h
      BY <1>0, <3>1 DEF Health
    <3> QED
      BY <1>0, <3>1, <3>2, <3>3, <3>4 DEF StartedAs
  <2>2. \A r \in Run : Started(r)' = Started(r)
    BY <1>0 DEF Started
  <2> QED
    BY <2>1, <2>2 DEF StartedInv
<1>6. WaitInv' /\ FailInv'
  <2>1. ASSUME NEW r \in Run
        PROVE  WaitOf(r)' /\ FailOf(r)'
    <3>1. MountVolume(r)' = MountVolume(r) /\ Cnt(r)' = Cnt(r) /\ Started(r)' = Started(r)
      BY <1>0, MountVolumeSame DEF Started
    <3>2. \A c : Wrong(c[1])' = Wrong(c[1]) /\ Health(c[1])' = Health(c[1])
      BY <1>0, WrongSame DEF Health
    <3>3. WaitOf(r) /\ FailOf(r)
      BY DEF ArgsInv, WaitInv, FailInv
    <3> QED
      BY <1>0, <3>1, <3>2, <3>3 DEF WaitOf, FailOf
  <2> QED
    BY <2>1 DEF WaitInv, FailInv
<1> QED
  BY <1>1, <1>2, <1>3, <1>4, <1>5, <1>6 DEF ArgsInv

\* All parts of the invariant together are inductive.
THEOREM ArgsInvariant == ArgsSpec => []ArgsInv
<1>1. ArgsInit => ArgsInv
  BY ArgsInitially
<1>2. ArgsInv /\ [ArgsNext]_argsVars => ArgsInv'
  <2>1. ASSUME ArgsInv, ArgsNext PROVE ArgsInv'
    BY <2>1, StateNext, NameNext, OptsNext, StartedNext, TestsNext, WaitNext, FailNext DEF ArgsInv
  <2>2. ASSUME ArgsInv, UNCHANGED argsVars PROVE ArgsInv'
    BY <2>2, ArgsUnchanged
  <2> QED
    BY <2>1, <2>2
<1> QED
  BY <1>1, <1>2, PTL DEF ArgsSpec

\* Volumes have a maker or are not there, and a command is at a container while it
\* converts one.
THEOREM ArgsTypeCorrect == ArgsSpec => []ArgsTypeOK
<1>1. ArgsInv => ArgsTypeOK
  BY DEF ArgsInv, StateInv
<1> QED
  BY <1>1, ArgsInvariant, PTL

\* podman-compose gives up for a mistake in the file, a health check an earlier
\* container took the first item of, another command's volume or one removed by hand,
\* and for nothing else.
THEOREM FailuresHaveReasons == ArgsSpec => []FailsForAReason
<1>1. ArgsInv => FailsForAReason
  BY DEF ArgsInv, FailInv, FailOf, FailsForAReason
<1> QED
  BY <1>1, ArgsInvariant, PTL

--------------------------------------------------------------------------------
(* What was started. *)

\* The options that one mount becomes are determined.
LEMMA MadeOnce ==
  ASSUME NEW r, NEW s, NEW m, NEW o, NEW p, Made(r, s, m, o), Made(r, s, m, p)
  PROVE  o = p
BY DEF Made

LEMMA StartedMounts ==
  ASSUME ArgsInv, NEW r \in Run, NEW x \in Started(r)
  PROVE  LET s == x.cnt[1]
             l == MountArgs(x)
         IN  /\ s \in Service /\ IsList(l)
             /\ Len(l) = Len(file.mounts[s]) /\ DOMAIN l = DOMAIN file.mounts[s]
             /\ \A i \in DOMAIN l : /\ file.mounts[s][i] \in MountsOf(s)
                                    /\ Made(r, s, file.mounts[s][i], l[i])
<1>1. PICK s, l : s = x.cnt[1] /\ l = MountArgs(x)
  OBVIOUS
<1>2. s \in Service /\ IsList(l) /\ Len(l) = Len(file.mounts[s]) /\ MadeOf(r, s, l)
  BY <1>1 DEF ArgsInv, StartedInv, StartedAs
<1>3. /\ DOMAIN l = 1 .. Len(l) /\ DOMAIN file.mounts[s] = 1 .. Len(file.mounts[s])
  BY <1>2, MountsFact, ListFacts DEF ArgsInv, StateInv, ArgsTypeOK
<1>4. \A i \in DOMAIN l : /\ file.mounts[s][i] \in MountsOf(s)
                          /\ Made(r, s, file.mounts[s][i], l[i])
  BY <1>2, <1>3 DEF MadeOf, MountsOf
<1> QED
  BY <1>1, <1>2, <1>3, <1>4

\* The replicas of a service get the same arguments, whatever was written into the
\* dicts they share between one and the next.
THEOREM ReplicasStartAlike == ArgsSpec => []ReplicasAlike
<1>1. ArgsInv => ReplicasAlike
  <2> SUFFICES ASSUME ArgsInv, NEW r \in Run, NEW x \in Started(r), NEW y \in Started(r),
                      x.cnt[1] = y.cnt[1], ~Health(x.cnt[1]).list
               PROVE  x.args = y.args
    BY DEF ReplicasAlike
  <2>1. PICK s, k, l, h : /\ s = x.cnt[1] /\ k = MountArgs(x) /\ l = MountArgs(y)
                          /\ h = Health(s)
    OBVIOUS
  <2>2. /\ IsList(k) /\ IsList(l) /\ Len(k) = Len(l) /\ DOMAIN k = DOMAIN l
        /\ \A i \in DOMAIN k : /\ Made(r, s, file.mounts[s][i], k[i])
                               /\ Made(r, s, file.mounts[s][i], l[i])
    BY <2>1, StartedMounts
  <2>3. DOMAIN k = 1 .. Len(k)
    BY <2>2, ListFacts
  <2>4. \A i \in 1 .. Len(k) : k[i] = l[i]
    BY <2>2, <2>3, MadeOnce
  <2>5. k = l
    BY <2>2, <2>4, SameList
  <2>6. x.args = ContainerArgs(s, k, h) /\ y.args = ContainerArgs(s, l, h)
    BY <2>1 DEF ArgsInv, StartedInv, StartedAs
  <2> QED
    BY <2>5, <2>6
<1> QED
  BY <1>1, ArgsInvariant, PTL

\* Nobody's volume that is external.
ExternalsKept ==
  \A k \in Declared : file.volumes[k].external # {} =>
    \A g \in GivenName(k) : disk[<<"given", g>>] \notin Run

\* The volume that is created is none that another key says is external.
LEMMA CreatedIsOwn ==
  ASSUME ArgsInv, \A f \in Files : ExternalsApart(f), NEW q \in Run, pc[q] \in Asking,
         NEW k \in Declared, file.volumes[k].external # {}, NEW g \in GivenName(k)
  PROVE  MountVolume(q) # <<"given", g>>
<1>1. StateInv /\ NameInv /\ OptsInv /\ file \in Files
  BY DEF ArgsInv, StateInv, ArgsTypeOK
<1>2. PICK s, m : s = Cnt(q)[1] /\ m = Mount(q)
  OBVIOUS
<1>3. /\ s \in Service /\ m \in MountsOf(s) /\ Parses(m) /\ IsManaged(MountDict(m))
      /\ MountVolume(q) = Vol(q, s, m)
  BY <1>1, <1>2, AskedVolume
<1>4. MountDict(m).type = "volume" /\ \A l \in MountDict(m).source \cap Declared : file.volumes[l].external = {}
  BY <1>3 DEF IsManaged, IsExternal
<1>5. CASE MountDict(m).source # {}
  <2>1. PICK l \in MountDict(m).source : Vol(q, s, m) = MeantBy(l)
    BY <1>1, <1>3, <1>4, <1>5, VolIs
  <2>2. CASE l \notin Declared
    BY <1>3, <2>1, <2>2 DEF MeantBy
  <2>3. CASE l \in Declared
    <3>1. file.volumes[l].external = {}
      BY <1>4, <2>1, <2>3
    <3>2. file.volumes[l].name \cap GivenName(k) = {}
      BY <1>1, <2>3, <3>1 DEF ExternalsApart, GivenName, Declared
    <3>3. CASE file.volumes[l].name = {}
      BY <1>3, <2>1, <2>3, <3>1, <3>3 DEF MeantBy
    <3>4. CASE file.volumes[l].name # {}
      <4>1. PICK n \in file.volumes[l].name : MeantBy(l) = <<"given", n>>
        BY <2>3, <3>4 DEF MeantBy
      <4> QED
        BY <1>3, <2>1, <3>2, <4>1
    <3> QED
      BY <3>3, <3>4
  <2> QED
    BY <2>2, <2>3
<1>6. CASE MountDict(m).source = {}
  <2>1. "given" \notin Service
    BY ArgsAssumption
  <2>2. \E t \in Service : \E p : Vol(q, s, m) = <<t, p>>
    <3>1. CASE NameKnown(q, m) = {}
      BY <1>1, <1>3, <1>4, <1>6, <3>1, VolIs
    <3>2. CASE NameKnown(q, m) # {}
      <4>1. ~IsShort(m)
        BY <1>1, <1>3, <1>4, <1>6, <3>2, KeysAre DEF NameKnown
      <4> QED
        BY <1>1, <1>3, <1>4, <1>6, <3>2, <4>1, VolIs, KnownIsMeant
    <3> QED
      BY <3>1, <3>2
  <2> QED
    BY <1>3, <2>1, <2>2
<1> QED
  BY <1>5, <1>6

LEMMA ExternalsKeptNext ==
  ASSUME ArgsInv, \A f \in Files : ExternalsApart(f), ExternalsKept, ArgsNext
  PROVE  ExternalsKept'
<1>0. file' = file /\ file \in Files /\ StateInv /\ None \notin Run
  BY FileSame, ArgsAssumption DEF ArgsInv, StateInv, ArgsTypeOK
<1>1. Declared' = Declared /\ \A k : GivenName(k)' = GivenName(k)
  BY <1>0 DEF Declared, GivenName
<1>2. ASSUME NEW k \in Declared, file.volumes[k].external # {}, NEW g \in GivenName(k)
      PROVE  disk'[<<"given", g>>] \notin Run
  <2>1. PICK v : v = <<"given", g>>
    OBVIOUS
  <2>2. v \in VolumeName /\ disk[v] \notin Run
    BY <1>0, <1>2, <2>1, DeclaredFact DEF VolumeName, ExternalsKept
  <2>3. ASSUME NEW q \in Run, Command(q)
        PROVE  disk'[v] \notin Run
    <3>1. disk'[v] = disk[v] \/ (v = MountVolume(q) /\ pc[q] = "create")
      BY <1>0, <2>2, <2>3, CommandFrame DEF DiskStep
    <3>2. pc[q] = "create" => MountVolume(q) # v
      BY <1>2, <2>1, CreatedIsOwn DEF Asking
    <3> QED
      BY <2>2, <3>1, <3>2
  <2>4. ASSUME NEW w \in VolumeName, RemoveVolume(w)
        PROVE  disk'[v] \notin Run
    BY <1>0, <2>2, <2>4 DEF RemoveVolume, StateInv, ArgsTypeOK
  <2> QED
    BY <2>1, <2>3, <2>4 DEF ArgsNext
<1> QED
  BY <1>0, <1>1, <1>2 DEF ExternalsKept

\* Containers are started on volumes that were there, and volumes that the file says
\* are somebody else's are never created, unless another key of the file gives
\* the same name and does not say so.
THEOREM VolumesAreThere ==
  ASSUME \A f \in Files : ExternalsApart(f)
  PROVE  ArgsSpec => []VolumesExist
<1>1. ArgsInit => ExternalsKept
  <2>1. \A v \in VolumeName : ArgsInit => disk[v] \notin Run
    BY ArgsAssumption DEF ArgsInit
  <2>2. ASSUME ArgsInit, NEW k \in Declared, NEW g \in GivenName(k)
        PROVE  <<"given", g>> \in VolumeName
    BY <2>2, DeclaredFact DEF ArgsInit, VolumeName
  <2> QED
    BY <2>1, <2>2 DEF ExternalsKept
<1>2. ArgsInv /\ ExternalsKept /\ [ArgsNext]_argsVars => ExternalsKept'
  <2>1. ASSUME ExternalsKept, UNCHANGED argsVars PROVE ExternalsKept'
    BY <2>1 DEF ExternalsKept, argsVars, Declared, GivenName
  <2> QED
    BY <2>1, ExternalsKeptNext
<1>3. ArgsInv /\ ExternalsKept => VolumesExist
  <2>1. ASSUME ArgsInv, NEW r \in Run, NEW x \in Started(r), NEW i \in DOMAIN MountArgs(x),
               IsManaged(MountDict(file.mounts[x.cnt[1]][i])), NEW v \in MountArgs(x)[i].source
        PROVE  disk[v] # None \/ v \in removed
    <3>1. PICK s, m, o : s = x.cnt[1] /\ m = file.mounts[s][i] /\ o = MountArgs(x)[i]
      OBVIOUS
    <3>2. Made(r, s, m, o) /\ IsManaged(MountDict(m)) /\ v \in o.source
      BY <2>1, <3>1, StartedMounts
    <3>3. o = VolumeArgs(MountDict(m), {Vol(r, s, m)}) /\ MountDict(m).type = "volume"
          /\ There(Vol(r, s, m))
      BY <3>2 DEF Made, IsManaged
    <3>4. o.source = {Vol(r, s, m)}
      BY <3>3 DEF VolumeArgs
    <3>5. v = Vol(r, s, m)
      BY <3>2, <3>4
    <3> QED
      BY <3>3, <3>5 DEF There
  <2> QED
    BY <2>1 DEF VolumesExist, ExternalsKept
<1> QED
  BY <1>1, <1>2, <1>3, ArgsInvariant, PTL DEF ArgsSpec

--------------------------------------------------------------------------------
(* Which volumes are one. *)

\* A mount whose volume has a name: the volume is told by what the name means.
LEMMA NamedVolume ==
  ASSUME StateInv, NameInv, NEW r \in Run, NEW s \in Service, NEW m \in MountsOf(s), NEW o,
         Made(r, s, m, o), MountDict(m).type = "volume", NEW k \in MountDict(m).source,
         NamesAgree(file)
  PROVE  \/ \E g : Vol(r, s, m) = <<"given", g>> /\ Means(s, m) = <<"given", g>>
         \/ Vol(r, s, m) = <<"source", k>> /\ Means(s, m) = <<"named", k>>
<1>1. file \in Files /\ Parses(m)
  BY DEF StateInv, ArgsTypeOK, Made
<1>2. Vol(r, s, m) = MeantBy(k) /\ MountDict(m).source = {k}
  BY <1>1, VolIs, KeysAre
<1>3. (CHOOSE x \in MountDict(m).source : TRUE) = k
  BY <1>2
<1>4. Means(s, m) = IF k \in Declared /\ GivenName(k) # {}
                    THEN <<"given", CHOOSE g \in GivenName(k) : TRUE>> ELSE <<"named", k>>
  <2>1. MountDict(m).source # {}
    OBVIOUS
  <2>2. Means(s, m) = LET l == CHOOSE x \in MountDict(m).source : TRUE
                      IN  IF l \in Declared /\ GivenName(l) # {}
                          THEN <<"given", CHOOSE g \in GivenName(l) : TRUE>> ELSE <<"named", l>>
    BY <2>1 DEF Means
  <2> QED
    BY <1>3, <2>2
<1>5. CASE k \in Declared /\ GivenName(k) # {}
  <2>1. Optional(GivenName(k))
    BY <1>5 DEF NamesAgree, GivenName, Declared
  <2>2. PICK g \in GivenName(k) : Means(s, m) = <<"given", g>>
    BY <1>4, <1>5
  <2>3. PICK h \in GivenName(k) : MeantBy(k) = <<"given", h>>
    BY <1>5 DEF MeantBy, GivenName
  <2>4. g = h
    BY <2>1 DEF Optional
  <2> QED
    BY <1>2, <2>2, <2>3, <2>4
<1>6. CASE ~(k \in Declared /\ GivenName(k) # {})
  BY <1>2, <1>4, <1>6 DEF MeantBy, GivenName
<1> QED
  BY <1>5, <1>6

\* A mount of nobody's volume: the volume is named after a service that has the mount,
\* and after the place.
LEMMA NamelessVolume ==
  ASSUME StateInv, NameInv, NEW r \in Run, NEW s \in Service, NEW m \in MountsOf(s), NEW o,
         Made(r, s, m, o), MountDict(m).type = "volume", MountDict(m).source = {}
  PROVE  /\ Anonymous(m)
         /\ \E t \in Service : m \in MountsOf(t) /\ Vol(r, s, m) = <<t, MountDict(m).target>>
         /\ IsShort(m) => /\ Vol(r, s, m) = <<s, MountDict(m).target>>
                          /\ Means(s, m) = <<"anonymous", s, MountDict(m).target>>
         /\ ~IsShort(m) => /\ Vol(r, s, m) \in NameKnown(r, m)
                           /\ Means(s, m) = <<"anonymous", m.id>>
<1>1. file \in Files /\ Parses(m) /\ Fixed(r, m)
  BY DEF StateInv, ArgsTypeOK, Made
<1>2. CASE IsShort(m)
  <2>1. NameKnown(r, m) = {}
    BY <1>1, <1>2, KeysAre DEF NameKnown
  <2>2. Vol(r, s, m) = <<s, MountDict(m).target>>
    BY <1>1, <2>1, VolIs
  <2>3. Means(s, m) = <<"anonymous", s, MountDict(m).target>>
    BY <1>2 DEF Means
  <2> QED
    BY <1>1, <1>2, <2>2, <2>3 DEF Anonymous
<1>3. CASE ~IsShort(m)
  <2>1. m.id \in Keys(m) /\ MountDict(m) = m
    BY <1>1, <1>3, KeysAre
  <2>2. NameKnown(r, m) # {}
    BY <1>1, <2>1 DEF Fixed
  <2>3. Vol(r, s, m) \in NameKnown(r, m)
    BY <1>1, <2>2, VolIs
  <2>4. NameKnown(r, m) \subseteq {<<t, m.target>> : t \in {u \in Service : m \in MountsOf(u)}}
    BY <1>1, <1>3, KnownIsMeant
  <2>5. \E t \in Service : m \in MountsOf(t) /\ Vol(r, s, m) = <<t, MountDict(m).target>>
    BY <2>1, <2>3, <2>4
  <2>6. Means(s, m) = <<"anonymous", m.id>>
    BY <1>3 DEF Means
  <2> QED
    BY <1>1, <1>3, <2>3, <2>5, <2>6 DEF Anonymous
<1> QED
  BY <1>2, <1>3

\* In one service, two of nobody's volumes at one place are one mount.
LEMMA OnePlace ==
  ASSUME file \in Files, PlacesDiffer(file), NEW t \in Service,
         NEW m \in MountsOf(t), NEW n \in MountsOf(t), Anonymous(m), Anonymous(n),
         MountDict(m).target = MountDict(n).target
  PROVE  m.id = n.id
BY DEF PlacesDiffer, MountsOf

\* Two mounts that were converted have one volume exactly when they mean one.
LEMMA ToldApart ==
  ASSUME StateInv, NameInv, NamesAgree(file), PlacesDiffer(file),
         NEW r \in Run, NEW s \in Service, NEW m \in MountsOf(s), NEW o, Made(r, s, m, o),
         MountDict(m).type = "volume",
         NEW q \in Run, NEW t \in Service, NEW n \in MountsOf(t), NEW p, Made(q, t, n, p),
         MountDict(n).type = "volume",
         r = q \/ (Means(s, m)[1] # "anonymous" /\ Means(t, n)[1] # "anonymous")
  PROVE  Vol(r, s, m) = Vol(q, t, n) <=> Means(s, m) = Means(t, n)
<1>1. file \in Files /\ Parses(m) /\ Parses(n) /\ {"source", "given"} \cap Service = {}
  BY ArgsAssumption DEF StateInv, ArgsTypeOK, Made
<1>2. CASE MountDict(m).source # {} /\ MountDict(n).source # {}
  <2>1. PICK k \in MountDict(m).source : TRUE
    BY <1>2
  <2>2. PICK l \in MountDict(n).source : TRUE
    BY <1>2
  <2>3. \/ \E g : Vol(r, s, m) = <<"given", g>> /\ Means(s, m) = <<"given", g>>
        \/ Vol(r, s, m) = <<"source", k>> /\ Means(s, m) = <<"named", k>>
    BY NamedVolume
  <2>4. \/ \E g : Vol(q, t, n) = <<"given", g>> /\ Means(t, n) = <<"given", g>>
        \/ Vol(q, t, n) = <<"source", l>> /\ Means(t, n) = <<"named", l>>
    BY NamedVolume
  <2> QED
    BY <2>3, <2>4
<1>3. ASSUME NEW r1 \in Run, NEW s1 \in Service, NEW m1 \in MountsOf(s1), NEW o1, Made(r1, s1, m1, o1),
             MountDict(m1).type = "volume", MountDict(m1).source # {},
             NEW r2 \in Run, NEW s2 \in Service, NEW m2 \in MountsOf(s2), NEW o2, Made(r2, s2, m2, o2),
             MountDict(m2).type = "volume", MountDict(m2).source = {}
      PROVE  Vol(r1, s1, m1) # Vol(r2, s2, m2) /\ Means(s1, m1) # Means(s2, m2)
  <2>1. PICK k \in MountDict(m1).source : TRUE
    BY <1>3
  <2>2. /\ Vol(r1, s1, m1)[1] \in {"given", "source"}
        /\ Means(s1, m1)[1] \in {"given", "named"}
    <3>1. \/ \E g : Vol(r1, s1, m1) = <<"given", g>> /\ Means(s1, m1) = <<"given", g>>
          \/ Vol(r1, s1, m1) = <<"source", k>> /\ Means(s1, m1) = <<"named", k>>
      BY <1>3, NamedVolume
    <3> QED
      BY <3>1
  <2>3. /\ Vol(r2, s2, m2)[1] \in Service
        /\ Means(s2, m2)[1] = "anonymous"
    <3>1. /\ \E u \in Service : \E place : Vol(r2, s2, m2) = <<u, place>>
          /\ \/ \E place : Means(s2, m2) = <<"anonymous", s2, place>>
             \/ Means(s2, m2) = <<"anonymous", m2.id>>
      BY <1>3, NamelessVolume
    <3> QED
      BY <3>1
  <2> QED
    BY <1>1, <2>2, <2>3
<1>4. CASE MountDict(m).source # {} /\ MountDict(n).source = {}
  BY <1>3, <1>4
<1>5. CASE MountDict(m).source = {} /\ MountDict(n).source # {}
  BY <1>3, <1>5
<1>6. CASE MountDict(m).source = {} /\ MountDict(n).source = {}
  <2>1. /\ Anonymous(m)
        /\ \E u \in Service : m \in MountsOf(u) /\ Vol(r, s, m) = <<u, MountDict(m).target>>
        /\ IsShort(m) => /\ Vol(r, s, m) = <<s, MountDict(m).target>>
                         /\ Means(s, m) = <<"anonymous", s, MountDict(m).target>>
        /\ ~IsShort(m) => /\ Vol(r, s, m) \in NameKnown(r, m)
                          /\ Means(s, m) = <<"anonymous", m.id>>
    BY <1>6, NamelessVolume
  <2>2. /\ Anonymous(n)
        /\ \E u \in Service : n \in MountsOf(u) /\ Vol(q, t, n) = <<u, MountDict(n).target>>
        /\ IsShort(n) => /\ Vol(q, t, n) = <<t, MountDict(n).target>>
                         /\ Means(t, n) = <<"anonymous", t, MountDict(n).target>>
        /\ ~IsShort(n) => /\ Vol(q, t, n) \in NameKnown(q, n)
                          /\ Means(t, n) = <<"anonymous", n.id>>
    BY <1>6, NamelessVolume
  <2>3. r = q
    <3>1. Means(s, m)[1] = "anonymous"
      BY <2>1
    <3> QED
      BY <3>1
  <2>4. Vol(r, s, m) = Vol(q, t, n) => m.id = n.id
    <3>1. PICK u \in Service : m \in MountsOf(u) /\ Vol(r, s, m) = <<u, MountDict(m).target>>
      BY <2>1
    <3>2. PICK w \in Service : n \in MountsOf(w) /\ Vol(q, t, n) = <<w, MountDict(n).target>>
      BY <2>2
    <3>3. Vol(r, s, m) = Vol(q, t, n) => u = w /\ MountDict(m).target = MountDict(n).target
      BY <3>1, <3>2
    <3> QED
      BY <1>1, <2>1, <2>2, <3>1, <3>2, <3>3, OnePlace
  <2>5. CASE IsShort(m) /\ IsShort(n)
    BY <2>1, <2>2, <2>5
  <2>6. CASE IsShort(m) /\ ~IsShort(n)
    <3>1. m.id # n.id
      BY <2>6 DEF IsShort
    <3>2. <<"anonymous", s, MountDict(m).target>> # <<"anonymous", n.id>>
      BY Len(<<"anonymous", s, MountDict(m).target>>) = 3, Len(<<"anonymous", n.id>>) = 2
    <3> QED
      BY <2>1, <2>2, <2>4, <2>6, <3>1, <3>2
  <2>7. CASE ~IsShort(m) /\ IsShort(n)
    <3>1. m.id # n.id
      BY <2>7 DEF IsShort
    <3>2. <<"anonymous", t, MountDict(n).target>> # <<"anonymous", m.id>>
      BY Len(<<"anonymous", t, MountDict(n).target>>) = 3, Len(<<"anonymous", m.id>>) = 2
    <3> QED
      BY <2>1, <2>2, <2>4, <2>7, <3>1, <3>2
  <2>8. CASE ~IsShort(m) /\ ~IsShort(n)
    <3>1. m.id = n.id => m = n
      BY <1>1, <2>8, MountsFact
    <3>2. Optional(NameKnown(r, m))
      BY <1>1, <1>6, KnownOnce
    <3>3. m = n => Vol(r, s, m) = Vol(q, t, n)
      BY <2>1, <2>2, <2>3, <2>8, <3>2 DEF Optional
    <3>4. Means(s, m) = Means(t, n) <=> m.id = n.id
      BY <2>1, <2>2, <2>8
    <3> QED
      BY <2>4, <3>1, <3>3, <3>4
  <2> QED
    BY <2>5, <2>6, <2>7, <2>8
<1> QED
  BY <1>2, <1>4, <1>5, <1>6

\* Containers share a volume exactly when their mounts mean the same one, in whatever
\* order the containers are converted and other commands come in between.
THEOREM VolumesApart ==
  ASSUME \A f \in Files : NamesAgree(f) /\ PlacesDiffer(f)
  PROVE  ArgsSpec => []VolumesToldApart
<1>1. ArgsInv => VolumesToldApart
  <2>1. ASSUME ArgsInv, NEW r \in Run, NEW x \in VolumeMounts(r)
        PROVE  \E s \in Service : \E m \in MountsOf(s) : \E o :
                 /\ Made(r, s, m, o) /\ MountDict(m).type = "volume"
                 /\ x.means = Means(s, m) /\ x.volume = {Vol(r, s, m)}
    <3>1. PICK y \in Started(r) : \E i \in DOMAIN MountArgs(y) :
            /\ IsVolume(y.cnt[1], i)
            /\ x = [means |-> Means(y.cnt[1], file.mounts[y.cnt[1]][i]),
                    volume |-> MountArgs(y)[i].source]
      BY <2>1 DEF VolumeMounts
    <3>2. PICK i \in DOMAIN MountArgs(y) :
            /\ IsVolume(y.cnt[1], i)
            /\ x = [means |-> Means(y.cnt[1], file.mounts[y.cnt[1]][i]),
                    volume |-> MountArgs(y)[i].source]
      BY <3>1
    <3>3. PICK s, m, o : s = y.cnt[1] /\ m = file.mounts[s][i] /\ o = MountArgs(y)[i]
      OBVIOUS
    <3>4. s \in Service /\ m \in MountsOf(s) /\ Made(r, s, m, o) /\ MountDict(m).type = "volume"
      BY <2>1, <3>2, <3>3, StartedMounts DEF IsVolume
    <3>5. o.source = {Vol(r, s, m)}
      BY <3>4 DEF Made, VolumeArgs
    <3>6. x.means = Means(s, m) /\ x.volume = {Vol(r, s, m)}
      BY <3>2, <3>3, <3>5
    <3> QED
      BY <3>4, <3>6
  <2>2. ASSUME ArgsInv, NEW r \in Run, NEW q \in Run, NEW x \in VolumeMounts(r),
               NEW y \in VolumeMounts(q),
               r = q \/ (x.means[1] # "anonymous" /\ y.means[1] # "anonymous")
        PROVE  x.volume = y.volume <=> x.means = y.means
    <3>1. PICK s \in Service : \E m \in MountsOf(s) : \E o :
            /\ Made(r, s, m, o) /\ MountDict(m).type = "volume"
            /\ x.means = Means(s, m) /\ x.volume = {Vol(r, s, m)}
      BY <2>1, <2>2
    <3>2. PICK m, o :
            /\ m \in MountsOf(s)
            /\ Made(r, s, m, o) /\ MountDict(m).type = "volume"
            /\ x.means = Means(s, m) /\ x.volume = {Vol(r, s, m)}
      BY <3>1
    <3>3. PICK t \in Service : \E n \in MountsOf(t) : \E p :
            /\ Made(q, t, n, p) /\ MountDict(n).type = "volume"
            /\ y.means = Means(t, n) /\ y.volume = {Vol(q, t, n)}
      BY <2>1, <2>2
    <3>4. PICK n, p :
            /\ n \in MountsOf(t)
            /\ Made(q, t, n, p) /\ MountDict(n).type = "volume"
            /\ y.means = Means(t, n) /\ y.volume = {Vol(q, t, n)}
      BY <3>3
    <3>5. StateInv /\ NameInv /\ NamesAgree(file) /\ PlacesDiffer(file)
      BY <2>2 DEF ArgsInv, StateInv, ArgsTypeOK
    <3>6. Vol(r, s, m) = Vol(q, t, n) <=> Means(s, m) = Means(t, n)
      BY <2>2, <3>2, <3>4, <3>5, ToldApart
    <3> QED
      BY <3>2, <3>4, <3>6
  <2> QED
    BY <2>2 DEF VolumesToldApart
<1> QED
  BY <1>1, ArgsInvariant, PTL
================================================================================
