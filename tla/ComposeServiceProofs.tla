-------------------------- MODULE ComposeServiceProofs --------------------------
(***************************************************************************)
(* The safety properties of module ComposeService, for every stack, every  *)
(* set of commands and every bound.                                        *)
(*                                                                         *)
(* All of them hold at the end of a command, or speak of a call in the     *)
(* middle of one.  The invariant therefore says what is still ahead: that  *)
(* the calls left are in turn (InTurn) and such as the command may make    *)
(* (May), and that whatever is not as the command is to leave it has a     *)
(* call ahead that will see to it (DownInv, SettledInv, StartsInv).        *)
(*                                                                         *)
(* First come lemmas about lists of calls, then what the lists of each     *)
(* command hold, what a step does to podman and to the processes, the      *)
(* parts of the invariant one by one, and the theorems.                    *)
(***************************************************************************)
EXTENDS ComposeService, RankingProofs

\* The elements of a list.
Ahead(s) == {s[i] : i \in DOMAIN s}

\* The stages of a command: no call comes after one of a later stage.
Stage(op) ==
  CASE op \in {"pull", "push", "build", "buildmissing"} -> 1
    [] op = "stop"      -> 2
    [] op = "rm"        -> 3
    [] op = "podrm"     -> 4
    [] op = "podcreate" -> 5
    [] op \in {"attach", "oneoff"} -> 7
    [] op = "oneoffwait" -> 8
    [] OTHER            -> 6

\* Nothing is made after a call that raises.
Follows(x, y) == x.op = "raise" \/ Stage(x.op) <= Stage(y.op)

InTurn(s) == \A i, j \in DOMAIN s : i < j => Follows(s[i], s[j])

Builds == {"pull", "push", "build", "buildmissing"}

\* The calls a command may make.
May(a, c) ==
  /\ a.cmd \in {"up", "down", "start", "stop", "restart"} =>
       /\ c.op \in CntOps => ServiceOf(c.on) \notin Excluded(a.services)
       /\ c.op = "podrm"  => Excluded(a.services) = {}
  /\ a.cmd = "up" =>
       /\ c.op \in Builds \cup {"stop", "rm", "podrm", "podcreate", "create", "run", "start",
                                "attach", "raise"}
       /\ c.op \in Builds                  => ~a.no_build
       /\ c.op \in {"stop", "rm", "podrm"} => a.force_recreate
       /\ c.op \in {"run", "start"}        => a.detach /\ ~a.no_start
  /\ a.cmd = "down" => c.op \in {"stop", "rm", "podrm"}
  /\ a.cmd = "pre"  => c.op \in {"pull", "podrm"}

--------------------------------------------------------------------------------
(* Lists. *)

\* What a list holds when its first element is taken, two are joined, or it is
\* turned round.
LEMMA AheadOfTail ==
  ASSUME NEW C, NEW s \in Seq(C), s # <<>>
  PROVE  /\ Head(s) \in C /\ Tail(s) \in Seq(C)
         /\ Ahead(s) = {Head(s)} \cup Ahead(Tail(s))
<1>1. Len(s) \in Nat \ {0} /\ DOMAIN s = 1 .. Len(s)
  BY EmptySeq, LenProperties
<1>2. /\ Head(s) = s[1] /\ Tail(s) \in Seq(C) /\ Len(Tail(s)) = Len(s) - 1
      /\ \A i \in 1 .. Len(s) - 1 : Tail(s)[i] = s[i + 1]
  BY HeadTailProperties
<1>3. DOMAIN Tail(s) = 1 .. Len(s) - 1
  BY <1>2, LenProperties
<1>4. ASSUME NEW i \in 1 .. Len(s), i # 1
      PROVE  i - 1 \in 1 .. Len(s) - 1 /\ s[i] = Tail(s)[i - 1]
  <2>1. i - 1 \in 1 .. Len(s) - 1 /\ (i - 1) + 1 = i
    BY <1>1, <1>4
  <2> QED
    BY <1>2, <2>1
<1>5. ASSUME NEW x \in Ahead(s)
      PROVE  x \in {Head(s)} \cup Ahead(Tail(s))
  <2>1. PICK i \in 1 .. Len(s) : x = s[i]
    BY <1>1 DEF Ahead
  <2>2. CASE i = 1
    BY <1>2, <2>1, <2>2
  <2>3. CASE i # 1
    BY <1>3, <1>4, <2>1, <2>3 DEF Ahead
  <2> QED
    BY <2>2, <2>3
<1>6. \A i \in 1 .. Len(s) - 1 : i + 1 \in 1 .. Len(s)
  BY <1>1
<1>7. {Head(s)} \cup Ahead(Tail(s)) \subseteq Ahead(s)
  BY <1>1, <1>2, <1>3, <1>6 DEF Ahead
<1> QED
  BY <1>1, <1>2, <1>5, <1>7

LEMMA AheadOfJoined ==
  ASSUME NEW C, NEW s \in Seq(C), NEW t \in Seq(C)
  PROVE  s \o t \in Seq(C) /\ Ahead(s \o t) = Ahead(s) \cup Ahead(t)
<1>1. /\ s \o t \in Seq(C) /\ Len(s \o t) = Len(s) + Len(t)
      /\ \A i \in 1 .. Len(s) + Len(t) :
           (s \o t)[i] = IF i <= Len(s) THEN s[i] ELSE t[i - Len(s)]
  BY ConcatProperties
<1>2. /\ Len(s) \in Nat /\ Len(t) \in Nat
      /\ DOMAIN s = 1 .. Len(s) /\ DOMAIN t = 1 .. Len(t)
      /\ DOMAIN (s \o t) = 1 .. Len(s) + Len(t)
  BY <1>1, LenProperties
<1>3. \A i \in 1 .. Len(s) : i \in 1 .. Len(s) + Len(t) /\ (s \o t)[i] = s[i]
  BY <1>1, <1>2
<1>4. \A i \in 1 .. Len(t) : i + Len(s) \in 1 .. Len(s) + Len(t) /\ (s \o t)[i + Len(s)] = t[i]
  BY <1>1, <1>2
<1>5. \A i \in 1 .. Len(s) + Len(t) :
        \/ i \in 1 .. Len(s) /\ (s \o t)[i] = s[i]
        \/ i - Len(s) \in 1 .. Len(t) /\ (s \o t)[i] = t[i - Len(s)]
  BY <1>1, <1>2
<1>6. Ahead(s \o t) \subseteq Ahead(s) \cup Ahead(t)
  BY <1>2, <1>5 DEF Ahead
<1>7. Ahead(s) \subseteq Ahead(s \o t) /\ Ahead(t) \subseteq Ahead(s \o t)
  BY <1>2, <1>3, <1>4 DEF Ahead
<1> QED
  BY <1>1, <1>6, <1>7

LEMMA AheadBackwards ==
  ASSUME NEW C, NEW s \in Seq(C)
  PROVE  Backwards(s) \in Seq(C) /\ Ahead(Backwards(s)) = Ahead(s)
<1>1. Len(s) \in Nat /\ DOMAIN s = 1 .. Len(s) /\ \A i \in 1 .. Len(s) : s[i] \in C
  BY LenProperties, ElementOfSeq
<1>2. \A i \in 1 .. Len(s) : Len(s) + 1 - i \in 1 .. Len(s) /\ Len(s) + 1 - (Len(s) + 1 - i) = i
  BY <1>1
<1>3. Backwards(s) \in [1 .. Len(s) -> C]
  BY <1>1, <1>2 DEF Backwards
<1>4. /\ Backwards(s) \in Seq(C) /\ DOMAIN Backwards(s) = 1 .. Len(s)
      /\ \A i \in 1 .. Len(s) : Backwards(s)[i] = s[Len(s) + 1 - i]
  BY <1>1, <1>3, IsASeq DEF Backwards
<1>5. Ahead(Backwards(s)) \subseteq Ahead(s)
  BY <1>1, <1>2, <1>4 DEF Ahead
<1>6. \A i \in 1 .. Len(s) : \E j \in 1 .. Len(s) : Backwards(s)[j] = s[i]
  BY <1>1, <1>2, <1>4
<1>7. Ahead(s) \subseteq Ahead(Backwards(s))
  <2> SUFFICES ASSUME NEW i \in 1 .. Len(s) PROVE s[i] \in Ahead(Backwards(s))
    BY <1>1 DEF Ahead
  <2>1. PICK j \in 1 .. Len(s) : Backwards(s)[j] = s[i]
    BY <1>6
  <2> QED
    BY <1>4, <2>1 DEF Ahead
<1> QED
  BY <1>4, <1>5, <1>7

\* A list whose elements are all of one kind; the empty one and one of a single
\* element.
LEMMA AheadTyped ==
  ASSUME NEW C, NEW s \in Seq(C)
  PROVE  Ahead(s) \subseteq C /\ s \in Seq(Ahead(s)) /\ (Ahead(s) = {} <=> s = <<>>)
<1>1. Len(s) \in Nat /\ DOMAIN s = 1 .. Len(s) /\ \A i \in 1 .. Len(s) : s[i] \in C
  BY LenProperties, ElementOfSeq
<1>2. s = [i \in 1 .. Len(s) |-> s[i]]
  BY LenProperties
<1>3. \A i \in 1 .. Len(s) : s[i] \in Ahead(s)
  BY <1>1 DEF Ahead
<1>4. s \in [1 .. Len(s) -> Ahead(s)]
  BY <1>2, <1>3
<1>5. s \in Seq(Ahead(s))
  BY <1>1, <1>4, IsASeq
<1>6. s = <<>> <=> Len(s) = 0
  BY EmptySeq
<1>7. Len(s) # 0 => 1 \in DOMAIN s
  BY <1>1
<1>8. Len(s) = 0 => DOMAIN s = {}
  BY <1>1
<1>9. Ahead(s) = {} <=> Len(s) = 0
  BY <1>7, <1>8 DEF Ahead
<1> QED
  BY <1>1, <1>5, <1>6, <1>9 DEF Ahead

LEMMA AheadOfFew ==
  /\ Ahead(<<>>) = {} /\ \A C : <<>> \in Seq(C)
  /\ \A x : Ahead(<<x>>) = {x}
  /\ \A C : \A x \in C : <<x>> \in Seq(C)
BY EmptySeq DEF Ahead

\* The order of a list survives taking the first element, and joins whose
\* second part may follow the first.
LEMMA InTurnTail ==
  ASSUME NEW C, NEW s \in Seq(C), s # <<>>, InTurn(s)
  PROVE  InTurn(Tail(s)) /\ \A y \in Ahead(Tail(s)) : Follows(Head(s), y)
<1>1. Len(s) \in Nat \ {0} /\ DOMAIN s = 1 .. Len(s)
  BY EmptySeq, LenProperties
<1>2. /\ Head(s) = s[1] /\ Tail(s) \in Seq(C) /\ Len(Tail(s)) = Len(s) - 1
      /\ \A i \in 1 .. Len(s) - 1 : Tail(s)[i] = s[i + 1]
  BY HeadTailProperties
<1>3. DOMAIN Tail(s) = 1 .. Len(s) - 1
  BY <1>2, LenProperties
<1>4. \A i, j \in 1 .. Len(s) - 1 : i < j =>
        i + 1 \in 1 .. Len(s) /\ j + 1 \in 1 .. Len(s) /\ i + 1 < j + 1
  BY <1>1
<1>5. \A i \in 1 .. Len(s) - 1 : 1 \in 1 .. Len(s) /\ i + 1 \in 1 .. Len(s) /\ 1 < i + 1
  BY <1>1
<1> QED
  BY <1>1, <1>2, <1>3, <1>4, <1>5 DEF InTurn, Ahead

LEMMA InTurnJoined ==
  ASSUME NEW C, NEW s \in Seq(C), NEW t \in Seq(C), InTurn(s), InTurn(t),
         \A x \in Ahead(s), y \in Ahead(t) : Follows(x, y)
  PROVE  InTurn(s \o t)
<1>1. /\ Len(s \o t) = Len(s) + Len(t)
      /\ \A i \in 1 .. Len(s) + Len(t) :
           (s \o t)[i] = IF i <= Len(s) THEN s[i] ELSE t[i - Len(s)]
      /\ s \o t \in Seq(C)
  BY ConcatProperties
<1>2. /\ Len(s) \in Nat /\ Len(t) \in Nat
      /\ DOMAIN s = 1 .. Len(s) /\ DOMAIN t = 1 .. Len(t)
      /\ DOMAIN (s \o t) = 1 .. Len(s) + Len(t)
  BY <1>1, LenProperties
<1> SUFFICES ASSUME NEW i \in 1 .. Len(s) + Len(t), NEW j \in 1 .. Len(s) + Len(t), i < j
             PROVE  Follows((s \o t)[i], (s \o t)[j])
  BY <1>2 DEF InTurn
<1>3. CASE j <= Len(s)
  <2>1. i \in DOMAIN s /\ j \in DOMAIN s /\ (s \o t)[i] = s[i] /\ (s \o t)[j] = s[j]
    BY <1>1, <1>2, <1>3
  <2> QED
    BY <2>1 DEF InTurn
<1>4. CASE i > Len(s)
  <2>1. /\ i - Len(s) \in DOMAIN t /\ j - Len(s) \in DOMAIN t /\ i - Len(s) < j - Len(s)
        /\ (s \o t)[i] = t[i - Len(s)] /\ (s \o t)[j] = t[j - Len(s)]
    BY <1>1, <1>2, <1>4
  <2> QED
    BY <2>1 DEF InTurn
<1>5. CASE i <= Len(s) /\ j > Len(s)
  <2>1. /\ i \in DOMAIN s /\ j - Len(s) \in DOMAIN t
        /\ (s \o t)[i] = s[i] /\ (s \o t)[j] = t[j - Len(s)]
    BY <1>1, <1>2, <1>5
  <2> QED
    BY <2>1 DEF Ahead
<1> QED
  BY <1>2, <1>3, <1>4, <1>5

LEMMA InTurnAlike ==
  ASSUME NEW s, \A x, y \in Ahead(s) : Follows(x, y)
  PROVE  InTurn(s)
BY DEF InTurn, Ahead

--------------------------------------------------------------------------------
(* The stack and the lists of calls made from it. *)

Containers == {Stack[i] : i \in DOMAIN Stack}

CallOn(op, c) == [op |-> op, on |-> c.name]

\* A name stands for one container of the stack.
LEMMA StackFacts ==
  /\ Len(Stack) \in Nat /\ DOMAIN Stack = 1 .. Len(Stack)
  /\ DOMAIN Stack \in SUBSET Nat /\ IsFiniteSet(DOMAIN Stack)
  /\ \A c \in Containers : /\ c \in ContainerDesc /\ c.name \in Names /\ c.service \in Services
                           /\ Desc(c.name) = c /\ ServiceOf(c.name) = c.service
  /\ \A n \in Names : Desc(n) \in Containers /\ Desc(n).name = n /\ ServiceOf(n) \in Services
<1>1. /\ Len(Stack) \in Nat /\ DOMAIN Stack = 1 .. Len(Stack)
      /\ \A i \in DOMAIN Stack : Stack[i] \in ContainerDesc
  BY StackAssumption, LenProperties, ElementOfSeq
<1>2. DOMAIN Stack \in SUBSET Nat /\ IsFiniteSet(DOMAIN Stack)
  BY <1>1, FS_Interval
<1>3. ASSUME NEW n \in Names
      PROVE  \E i \in DOMAIN Stack : Stack[i].name = n /\ Desc(n) = Stack[i]
  BY DEF Names, Desc
<1>4. ASSUME NEW i \in DOMAIN Stack
      PROVE  Desc(Stack[i].name) = Stack[i]
  BY <1>4, StackAssumption DEF Desc
<1>5. \A n \in Names : Desc(n) \in Containers /\ Desc(n).name = n
  BY <1>3 DEF Containers
<1>6. \A c \in Containers : /\ c \in ContainerDesc /\ c.name \in Names /\ c.service \in Services
                            /\ Desc(c.name) = c
  BY <1>1, <1>4 DEF Containers, Names, Services
<1>7. \A n : ServiceOf(n) = Desc(n).service
  BY DEF ServiceOf
<1>8. \A c \in Containers : ServiceOf(c.name) = c.service
  BY <1>6, <1>7
<1>9. \A n \in Names : ServiceOf(n) \in Services
  BY <1>5, <1>6, <1>7
<1> QED
  BY <1>1, <1>2, <1>5, <1>6, <1>8, <1>9

\* Picked lists the containers at the positions it is given and no other.
LEMMA PickedLists ==
  ASSUME NEW at \in SUBSET DOMAIN Stack
  PROVE  /\ Picked(at) \in Seq(Containers)
         /\ Ahead(Picked(at)) = {Stack[i] : i \in at}
         /\ DOMAIN Picked(at) = 1 .. Cardinality(at) /\ Cardinality(at) \in Nat
<1> DEFINE s == Ascending(at)
<1>1. at \in SUBSET Nat /\ IsFiniteSet(at)
  BY StackFacts, FS_Subset
<1>2. /\ Cardinality(at) \in Nat /\ DOMAIN s = 1 .. Cardinality(at)
      /\ \A k \in 1 .. Cardinality(at) : s[k] \in at
      /\ \A i \in at : \E k \in 1 .. Cardinality(at) : s[k] = i
  BY <1>1, AscendingLists, FS_CardinalityType
<1>3. Picked(at) = [k \in 1 .. Cardinality(at) |-> Stack[s[k]]]
  BY <1>2 DEF Picked
<1> HIDE DEF s
<1>4. Picked(at) \in [1 .. Cardinality(at) -> Containers]
  BY <1>2, <1>3 DEF Containers
<1>5. Picked(at) \in Seq(Containers) /\ DOMAIN Picked(at) = 1 .. Cardinality(at)
  BY <1>2, <1>4, IsASeq
<1>6. Ahead(Picked(at)) = {Stack[i] : i \in at}
  BY <1>2, <1>3, <1>5 DEF Ahead
<1> QED
  BY <1>2, <1>5, <1>6

\* The containers of the services a command is for.
LEMMA IncludedLists ==
  ASSUME NEW services
  PROVE  /\ Included(services) \in Seq(Containers)
         /\ Ahead(Included(services)) = {c \in Containers : c.service \notin Excluded(services)}
<1> DEFINE at == {i \in DOMAIN Stack : Stack[i].service \notin Excluded(services)}
<1>1. at \in SUBSET DOMAIN Stack /\ Included(services) = Picked(at)
  BY DEF Included
<1>2. {Stack[i] : i \in at} = {c \in Containers : c.service \notin Excluded(services)}
  BY DEF Containers
<1> HIDE DEF at
<1> QED
  BY <1>1, <1>2, PickedLists

\* The lists of calls: one call for each container; a conversion may raise.
LEMMA CallsLists ==
  ASSUME NEW op \in CntOps, NEW cs \in Seq(Containers)
  PROVE  /\ Calls(op, cs) \in Seq(Call)
         /\ Ahead(Calls(op, cs)) = {CallOn(op, c) : c \in Ahead(cs)}
<1>1. /\ Len(cs) \in Nat /\ DOMAIN cs = 1 .. Len(cs)
      /\ \A i \in 1 .. Len(cs) : cs[i] \in Containers
  BY LenProperties, ElementOfSeq
<1>2. Calls(op, cs) = [i \in 1 .. Len(cs) |-> CallOn(op, cs[i])]
  BY <1>1 DEF Calls, CallOn
<1>3. \A c \in Containers : CallOn(op, c) \in Call
  BY StackFacts DEF CallOn, Call
<1>4. Calls(op, cs) \in [1 .. Len(cs) -> Call]
  BY <1>1, <1>2, <1>3
<1> QED
  BY <1>1, <1>2, <1>4, IsASeq DEF Ahead

LEMMA ConvertedLists ==
  ASSUME NEW op \in CntOps, NEW cs \in Seq(Containers)
  PROVE  /\ Converted(op, cs) \in Seq(Call)
         /\ Ahead(Converted(op, cs)) \subseteq {Raise} \cup {CallOn(op, c) : c \in Ahead(cs)}
         /\ Raise \notin Ahead(Converted(op, cs)) =>
              {CallOn(op, c) : c \in Ahead(cs)} \subseteq Ahead(Converted(op, cs))
<1> DEFINE t == Converted(op, cs)
<1>1. /\ Len(cs) \in Nat /\ DOMAIN cs = 1 .. Len(cs)
      /\ \A i \in 1 .. Len(cs) : cs[i] \in Containers
  BY LenProperties, ElementOfSeq
<1>2. t = [i \in 1 .. Len(cs) |-> IF Raises(cs, i) THEN Raise ELSE CallOn(op, cs[i])]
  BY <1>1 DEF Converted, CallOn
<1>3. Raise \in Call /\ \A c \in Containers : CallOn(op, c) \in Call
  BY StackFacts DEF CallOn, Call, Raise, StackOps
<1> HIDE DEF t
<1>4. t \in [1 .. Len(cs) -> Call]
  BY <1>1, <1>2, <1>3
<1>5. t \in Seq(Call) /\ DOMAIN t = 1 .. Len(cs)
  BY <1>1, <1>4, IsASeq
<1>6. Ahead(t) \subseteq {Raise} \cup {CallOn(op, c) : c \in Ahead(cs)}
  BY <1>1, <1>2, <1>5 DEF Ahead
<1>7. ASSUME Raise \notin Ahead(t), NEW i \in 1 .. Len(cs)
      PROVE  CallOn(op, cs[i]) \in Ahead(t)
  <2>1. t[i] \in Ahead(t) /\ t[i] = IF Raises(cs, i) THEN Raise ELSE CallOn(op, cs[i])
    BY <1>2, <1>5 DEF Ahead
  <2> QED
    BY <1>7, <2>1
<1>8. Raise \notin Ahead(t) => {CallOn(op, c) : c \in Ahead(cs)} \subseteq Ahead(t)
  BY <1>1, <1>7 DEF Ahead
<1> QED
  BY <1>5, <1>6, <1>8 DEF t

--------------------------------------------------------------------------------
(* What the calls of each command are and in which stages they come. *)

\* A list of calls in turn, all of some stages.
Within(s, first, last) ==
  /\ s \in Seq(Call) /\ InTurn(s)
  /\ \A c \in Ahead(s) : first <= Stage(c.op) /\ Stage(c.op) <= last

LEMMA StageIsNumber == \A op : Stage(op) \in 1 .. 8
BY DEF Stage

LEMMA WithinJoined ==
  ASSUME NEW f1 \in Nat, NEW l1 \in Nat, NEW f2 \in Nat, NEW l2 \in Nat, NEW s, NEW t,
         Within(s, f1, l1), Within(t, f2, l2), f1 <= f2, l1 <= f2, l1 <= l2
  PROVE  Within(s \o t, f1, l2) /\ Ahead(s \o t) = Ahead(s) \cup Ahead(t)
<1>1. s \in Seq(Call) /\ t \in Seq(Call) /\ InTurn(s) /\ InTurn(t)
  BY DEF Within
<1>2. s \o t \in Seq(Call) /\ Ahead(s \o t) = Ahead(s) \cup Ahead(t)
  BY <1>1, AheadOfJoined
<1>3. \A x \in Ahead(s) : f1 <= Stage(x.op) /\ Stage(x.op) <= l1
  BY DEF Within
<1>4. \A y \in Ahead(t) : f2 <= Stage(y.op) /\ Stage(y.op) <= l2
  BY DEF Within
<1>5. \A c : Stage(c.op) \in Nat
  BY StageIsNumber
<1>6. \A x \in Ahead(s), y \in Ahead(t) : Follows(x, y)
  BY <1>3, <1>4, <1>5 DEF Follows
<1>7. InTurn(s \o t)
  BY <1>1, <1>6, InTurnJoined
<1>8. \A c \in Ahead(s \o t) : f1 <= Stage(c.op) /\ Stage(c.op) <= l2
  BY <1>2, <1>3, <1>4, <1>5
<1> QED
  BY <1>2, <1>7, <1>8 DEF Within

\* A list of calls of one stage is in turn.
LEMMA WithinAlike ==
  ASSUME NEW s \in Seq(Call), NEW k \in Nat, \A c \in Ahead(s) : Stage(c.op) = k
  PROVE  Within(s, k, k)
<1>1. \A x, y \in Ahead(s) : Follows(x, y)
  BY DEF Follows
<1> QED
  BY <1>1, InTurnAlike DEF Within

LEMMA WithinEmpty ==
  \A first, last : Within(<<>>, first, last)
BY AheadOfFew DEF Within, InTurn

\* The calls about a list of containers, and about the pod.
LEMMA CallsWithin ==
  ASSUME NEW op \in CntOps, NEW cs \in Seq(Containers)
  PROVE  Within(Calls(op, cs), Stage(op), Stage(op))
<1>1. /\ Calls(op, cs) \in Seq(Call)
      /\ \A c \in Ahead(Calls(op, cs)) : c.op = op
  BY CallsLists DEF CallOn
<1>2. Stage(op) \in Nat
  BY StageIsNumber
<1> QED
  BY <1>1, <1>2, WithinAlike

LEMMA ConvertedWithin ==
  ASSUME NEW op \in {"create", "run"}, NEW cs \in Seq(Containers)
  PROVE  Within(Converted(op, cs), 6, 6)
<1>1. op \in CntOps /\ Stage(op) = 6 /\ Stage("raise") = 6
  BY DEF CntOps, Stage
<1>2. /\ Converted(op, cs) \in Seq(Call)
      /\ \A c \in Ahead(Converted(op, cs)) : c.op = op \/ c.op = "raise"
  <2>1. /\ Converted(op, cs) \in Seq(Call)
        /\ Ahead(Converted(op, cs)) \subseteq {Raise} \cup {CallOn(op, c) : c \in Ahead(cs)}
    BY <1>1, ConvertedLists
  <2>2. Raise.op = "raise" /\ \A c : CallOn(op, c).op = op
    BY DEF Raise, CallOn
  <2> QED
    BY <2>1, <2>2
<1> QED
  BY <1>1, <1>2, WithinAlike

PodRm     == [op |-> "podrm", on |-> ""]
PodCreate == [op |-> "podcreate", on |-> ""]
OneOffRun == [op |-> "oneoff", on |-> OneOff]

LEMMA SingleWithin ==
  /\ Within(<<PodRm>>, 4, 4) /\ Within(<<PodCreate>>, 5, 5) /\ Within(<<Raise>>, 6, 6)
  /\ Within(<<OneOffRun>>, 7, 7)
  /\ Within(<< [op |-> "oneoffwait", on |-> OneOff] >>, 8, 8)
<1> DEFINE wait == [op |-> "oneoffwait", on |-> OneOff]
<1>1. {PodRm, PodCreate, Raise, OneOffRun, wait} \subseteq Call
  BY DEF PodRm, PodCreate, Raise, OneOffRun, Call, StackOps
<1>2. /\ Stage(PodRm.op) = 4 /\ Stage(PodCreate.op) = 5 /\ Stage(Raise.op) = 6
      /\ Stage(OneOffRun.op) = 7 /\ Stage(wait.op) = 8
  BY DEF Stage, PodRm, PodCreate, Raise, OneOffRun
<1>3. ASSUME NEW c \in Call, NEW k \in Nat, Stage(c.op) = k
      PROVE  Within(<<c>>, k, k)
  BY <1>3, AheadOfFew, WithinAlike
<1> HIDE DEF wait
<1>4. Within(<<wait>>, 8, 8)
  BY <1>1, <1>2, <1>3
<1> QED
  BY <1>1, <1>2, <1>3, <1>4 DEF wait

\* get_excluded never excludes a service that is named.
LEMMA NamedNotExcluded ==
  \A services : \A x \in services : x \notin Excluded(services)
BY DEF Excluded

LEMMA BuildLists ==
  ASSUME NEW services \in SUBSET Services, NEW op \in {"build", "buildmissing"}
  PROVE  /\ Within(BuildCalls(services, op), 1, 1)
         /\ \A c \in Ahead(BuildCalls(services, op)) :
              c.op = op /\ c.on \in Names /\ ServiceOf(c.on) \notin Excluded(services)
<1> DEFINE all == IF services = {} THEN DOMAIN Stack ELSE FirstOf(services)
           at  == {i \in all : Stack[i].build}
<1>1. at \in SUBSET DOMAIN Stack
  BY DEF FirstOf
<1>2. BuildCalls(services, op) = Calls(op, Picked(at))
  BY DEF BuildCalls
<1>3. ASSUME NEW c \in {Stack[i] : i \in at}
      PROVE  c \in Containers /\ c.service \notin Excluded(services)
  <2>1. PICK i \in at : c = Stack[i]
    BY <1>3
  <2>2. services = {} => Excluded(services) = {}
    BY DEF Excluded
  <2>3. services # {} => c.service \in services
    BY <2>1 DEF FirstOf
  <2> QED
    BY <1>1, <2>1, <2>2, <2>3, NamedNotExcluded DEF Containers
<1> HIDE DEF at
<1>4. op \in CntOps /\ Stage(op) = 1
  BY DEF CntOps, Stage
<1>5. Picked(at) \in Seq(Containers) /\ Ahead(Picked(at)) = {Stack[i] : i \in at}
  BY <1>1, PickedLists
<1>6. Within(Calls(op, Picked(at)), 1, 1)
  BY <1>4, <1>5, CallsWithin
<1>7. Ahead(Calls(op, Picked(at))) = {CallOn(op, c) : c \in {Stack[i] : i \in at}}
  BY <1>4, <1>5, CallsLists
<1>8. \A c \in {Stack[i] : i \in at} :
        /\ CallOn(op, c).op = op /\ CallOn(op, c).on \in Names
        /\ ServiceOf(CallOn(op, c).on) \notin Excluded(services)
  BY <1>3, StackFacts DEF CallOn
<1> QED
  BY <1>2, <1>6, <1>7, <1>8

\* compose_down: the containers of the services it is for are stopped, then
\* removed, then the pod if nobody else needs it.
LEMMA DownLists ==
  ASSUME NEW services
  PROVE  /\ Within(DownCalls(services), 2, 4)
         /\ Ahead(DownCalls(services)) =
              {CallOn(op, c) : op \in {"stop", "rm"},
                               c \in {d \in Containers : d.service \notin Excluded(services)}}
              \cup IF Excluded(services) = {} /\ HasPod THEN {PodRm} ELSE {}
<1> DEFINE cs   == Backwards(Included(services))
           ours == {d \in Containers : d.service \notin Excluded(services)}
           stop == Calls("stop", cs)
           rm   == Calls("rm", cs)
           pod  == IF Excluded(services) = {} /\ HasPod THEN <<PodRm>> ELSE <<>>
<1>1. cs \in Seq(Containers) /\ Ahead(cs) = ours
  BY IncludedLists, AheadBackwards
<1>2. DownCalls(services) = stop \o rm \o pod
  BY DEF DownCalls, PodRm
<1> HIDE DEF cs, ours
<1>3. {"stop", "rm"} \subseteq CntOps /\ Stage("stop") = 2 /\ Stage("rm") = 3
  BY DEF CntOps, Stage
<1>4. /\ Within(stop, 2, 2) /\ Within(rm, 3, 3)
      /\ Ahead(stop) = {CallOn("stop", c) : c \in ours}
      /\ Ahead(rm) = {CallOn("rm", c) : c \in ours}
  BY <1>1, <1>3, CallsLists, CallsWithin
<1>5. /\ Within(pod, 4, 4)
      /\ Ahead(pod) = IF Excluded(services) = {} /\ HasPod THEN {PodRm} ELSE {}
  BY SingleWithin, WithinEmpty, AheadOfFew
<1> HIDE DEF stop, rm, pod
<1>6. Within(stop \o rm, 2, 3) /\ Ahead(stop \o rm) = Ahead(stop) \cup Ahead(rm)
  BY <1>4, WithinJoined
<1>7. /\ Within(stop \o rm \o pod, 2, 4)
      /\ Ahead(stop \o rm \o pod) = Ahead(stop \o rm) \cup Ahead(pod)
  BY <1>5, <1>6, WithinJoined
<1>8. Ahead(stop) \cup Ahead(rm) = {CallOn(op, c) : op \in {"stop", "rm"}, c \in ours}
  BY <1>4
<1> QED
  BY <1>2, <1>5, <1>6, <1>7, <1>8 DEF ours

LEMMA PodLists ==
  Within(PodCalls, 5, 5) /\ Ahead(PodCalls) = IF HasPod THEN {PodCreate} ELSE {}
<1>1. PodCalls = IF HasPod THEN <<PodCreate>> ELSE <<>>
  BY DEF PodCalls, PodCreate
<1> QED
  BY <1>1, SingleWithin, WithinEmpty, AheadOfFew

\* compose_up: builds, a down when everything is to be made anew, the pod, the
\* containers of the services it is for, and the threads that attach to them.
LEMMA UpLists ==
  ASSUME NEW a \in UpArgs
  PROVE  /\ Within(UpCalls(a), 1, 7)
         /\ \A c \in Ahead(UpCalls(a)) :
              \/ c.op \in Builds /\ ~a.no_build /\ ServiceOf(c.on) \notin Excluded(a.services)
              \/ c \in Ahead(DownCalls(a.services)) /\ a.force_recreate
              \/ c = PodCreate
              \/ c \in Ahead(Converted(IF a.detach /\ ~a.no_start THEN "run" ELSE "create",
                                       Included(a.services)))
              \/ c.op = "attach" /\ ~a.detach /\ ServiceOf(c.on) \notin Excluded(a.services)
         /\ Ahead(PodCalls) \subseteq Ahead(UpCalls(a))
         /\ Ahead(Converted(IF a.detach /\ ~a.no_start THEN "run" ELSE "create",
                            Included(a.services))) \subseteq Ahead(UpCalls(a))
<1> DEFINE cs     == Included(a.services)
           op     == IF a.build THEN "build" ELSE "buildmissing"
           build  == IF a.no_build THEN <<>> ELSE BuildCalls(a.services, op)
           down   == IF a.force_recreate THEN DownCalls(a.services) ELSE <<>>
           conv   == Converted(IF a.detach /\ ~a.no_start THEN "run" ELSE "create", cs)
           attach == IF a.no_start \/ a.detach THEN <<>> ELSE Calls("attach", cs)
<1>1. /\ a.services \in SUBSET Services
      /\ op \in {"build", "buildmissing"}
  BY DEF UpArgs
<1>2. UpCalls(a) = build \o down \o PodCalls \o conv \o attach
  BY DEF UpCalls
<1>3. /\ cs \in Seq(Containers)
      /\ Ahead(cs) = {c \in Containers : c.service \notin Excluded(a.services)}
  BY IncludedLists
<1>4. /\ Within(build, 1, 1)
      /\ \A c \in Ahead(build) :
           c.op \in Builds /\ ~a.no_build /\ ServiceOf(c.on) \notin Excluded(a.services)
  <2> HIDE DEF op
  <2> QED
    BY <1>1, BuildLists, WithinEmpty, AheadOfFew DEF Builds
<1>5. /\ Within(down, 2, 4)
      /\ \A c \in Ahead(down) : c \in Ahead(DownCalls(a.services)) /\ a.force_recreate
  BY DownLists, WithinEmpty, AheadOfFew
<1>6. Within(PodCalls, 5, 5) /\ \A c \in Ahead(PodCalls) : c = PodCreate
  BY PodLists
<1>7. Within(conv, 6, 6)
  <2> HIDE DEF cs
  <2> QED
    BY <1>3, ConvertedWithin
<1>8. /\ Within(attach, 7, 7)
      /\ \A c \in Ahead(attach) :
           c.op = "attach" /\ ~a.detach /\ ServiceOf(c.on) \notin Excluded(a.services)
  <2> HIDE DEF cs
  <2>1. "attach" \in CntOps /\ Stage("attach") = 7
    BY DEF CntOps, Stage
  <2>2. /\ Within(Calls("attach", cs), 7, 7)
        /\ Ahead(Calls("attach", cs)) = {CallOn("attach", c) : c \in Ahead(cs)}
    BY <1>3, <2>1, CallsWithin, CallsLists
  <2>3. \A c \in Ahead(cs) : /\ CallOn("attach", c).op = "attach"
                             /\ ServiceOf(CallOn("attach", c).on) \notin Excluded(a.services)
    BY <1>3, StackFacts DEF CallOn
  <2> QED
    BY <2>2, <2>3, WithinEmpty, AheadOfFew
<1> HIDE DEF build, down, conv, attach
<1>9. Within(build \o down, 1, 4) /\ Ahead(build \o down) = Ahead(build) \cup Ahead(down)
  BY <1>4, <1>5, WithinJoined
<1>10. /\ Within(build \o down \o PodCalls, 1, 5)
       /\ Ahead(build \o down \o PodCalls) = Ahead(build \o down) \cup Ahead(PodCalls)
  BY <1>6, <1>9, WithinJoined
<1>11. /\ Within(build \o down \o PodCalls \o conv, 1, 6)
       /\ Ahead(build \o down \o PodCalls \o conv)
            = Ahead(build \o down \o PodCalls) \cup Ahead(conv)
  BY <1>7, <1>10, WithinJoined
<1>12. /\ Within(UpCalls(a), 1, 7)
       /\ Ahead(UpCalls(a)) = Ahead(build \o down \o PodCalls \o conv) \cup Ahead(attach)
  BY <1>2, <1>8, <1>11, WithinJoined
<1>13. Ahead(UpCalls(a))
         = Ahead(build) \cup Ahead(down) \cup Ahead(PodCalls) \cup Ahead(conv) \cup Ahead(attach)
  BY <1>9, <1>10, <1>11, <1>12
<1>14. conv = Converted(IF a.detach /\ ~a.no_start THEN "run" ELSE "create",
                        Included(a.services))
  BY DEF conv
<1> QED
  BY <1>4, <1>5, <1>6, <1>8, <1>12, <1>13, <1>14

\* A service has one first container.
LEMMA FirstsLists ==
  ASSUME NEW x \in Services
  PROVE  /\ DOMAIN Firsts({x}) = {1}
         /\ Firsts({x})[1] \in Containers /\ Firsts({x})[1].service = x
<1> DEFINE ofX == {i \in DOMAIN Stack : Stack[i].service = x}
<1>1. ofX # {} /\ ofX \in SUBSET Nat /\ IsFiniteSet(ofX)
  <2>1. ofX \in SUBSET DOMAIN Stack
    OBVIOUS
  <2>2. ofX # {}
    BY DEF Services
  <2> QED
    BY <2>1, <2>2, StackFacts, FS_Subset
<1>2. PICK i \in ofX : \A j \in ofX : i <= j
  <2> HIDE DEF ofX
  <2> QED
    BY <1>1, LeastAndGreatest
<1>3. \A j \in FirstOf({x}) : j \in ofX /\ \A k \in ofX : j <= k
  BY DEF FirstOf
<1>4. i \in FirstOf({x})
  BY <1>2 DEF FirstOf
<1>5. FirstOf({x}) = {i}
  <2> HIDE DEF ofX
  <2>1. \A j \in FirstOf({x}) : j <= i /\ i <= j /\ i \in Nat /\ j \in Nat
    BY <1>1, <1>2, <1>3
  <2>2. \A j \in FirstOf({x}) : j = i
    BY <2>1
  <2> QED
    BY <1>4, <2>2
<1>6. {i} \in SUBSET DOMAIN Stack /\ Cardinality({i}) = 1
  BY <1>2, FS_Singleton
<1>7. Firsts({x}) = Picked({i})
  BY <1>5 DEF Firsts
<1>8. DOMAIN Firsts({x}) = 1 .. 1 /\ Ahead(Firsts({x})) = {Stack[j] : j \in {i}}
  BY <1>6, <1>7, PickedLists
<1>9. Firsts({x})[1] = Stack[i]
  BY <1>8 DEF Ahead
<1> QED
  BY <1>2, <1>8, <1>9 DEF Containers

\* compose_run: the pod, the containers of what the service needs, then its
\* own; a build raises before anything runs.
LEMMA RunLists ==
  ASSUME NEW a \in RunArgs
  PROVE  /\ RunCalls(a) \in Seq(Call) /\ InTurn(RunCalls(a))
         /\ \A c \in Ahead(RunCalls(a)) : c.op # "start"
         /\ Ahead(PodCalls) \subseteq Ahead(RunCalls(a))
         /\ ~a.no_deps => Ahead(Converted("run", Included(Firsts(a.services)[1].needs)))
                            \subseteq Ahead(RunCalls(a))
<1> DEFINE c     == Firsts(a.services)[1]
           upped == IF a.no_deps THEN <<>> ELSE Included(c.needs)
           again == c.health = "list" /\ \E i \in DOMAIN upped : upped[i].shares = c.shares
           fails == IF ~a.no_deps /\ BuildCalls(c.needs, "build") # <<>> THEN <<Raise>> ELSE <<>>
           pod2  == IF a.no_deps THEN <<>> ELSE PodCalls
           conv  == Converted("run", upped)
           bad   == IF again \/ c.health = "bad" THEN <<Raise>> ELSE <<>>
           wait  == IF a.detach THEN <<>> ELSE << [op |-> "oneoffwait", on |-> OneOff] >>
<1>1. RunCalls(a) = PodCalls \o fails \o pod2 \o conv \o bad \o <<OneOffRun>> \o wait
  BY DEF RunCalls, OneOffRun
<1>2. upped \in Seq(Containers)
  <2> HIDE DEF c
  <2> QED
    BY IncludedLists, EmptySeq
<1>3. Within(PodCalls, 5, 5) /\ \A x \in Ahead(PodCalls) : x = PodCreate
  BY PodLists
<1>4. Within(fails, 6, 6) /\ \A x \in Ahead(fails) : x = Raise
  BY SingleWithin, WithinEmpty, AheadOfFew
<1>5. Within(pod2, 5, 5) /\ \A x \in Ahead(pod2) : x = PodCreate
  BY <1>3, WithinEmpty, AheadOfFew
<1>6. Within(conv, 6, 6)
  <2> HIDE DEF upped
  <2> QED
    BY <1>2, ConvertedWithin
<1>7. Within(bad, 6, 6) /\ Within(wait, 8, 8) /\ Within(<<OneOffRun>>, 7, 7)
  BY SingleWithin, WithinEmpty
<1>8. ~a.no_deps => conv = Converted("run", Included(c.needs))
  OBVIOUS
<1> HIDE DEF fails, pod2, conv, bad, wait
<1>9. Within(PodCalls \o fails, 5, 6)
      /\ Ahead(PodCalls \o fails) = Ahead(PodCalls) \cup Ahead(fails)
  BY <1>3, <1>4, WithinJoined
<1>10. Within(PodCalls \o fails \o pod2, 5, 6)
       /\ Ahead(PodCalls \o fails \o pod2) = Ahead(PodCalls \o fails) \cup Ahead(pod2)
  <2>1. /\ PodCalls \o fails \in Seq(Call) /\ InTurn(PodCalls \o fails)
        /\ pod2 \in Seq(Call) /\ InTurn(pod2)
    BY <1>5, <1>9 DEF Within
  <2>2. Follows(PodCreate, PodCreate) /\ \A x : Follows(Raise, x)
    BY DEF Follows, PodCreate, Raise, Stage
  <2>3. \A x \in Ahead(PodCalls \o fails), y \in Ahead(pod2) : Follows(x, y)
    BY <1>3, <1>4, <1>5, <1>9, <2>2
  <2>4. /\ PodCalls \o fails \o pod2 \in Seq(Call)
        /\ Ahead(PodCalls \o fails \o pod2) = Ahead(PodCalls \o fails) \cup Ahead(pod2)
    BY <2>1, AheadOfJoined
  <2>5. InTurn(PodCalls \o fails \o pod2)
    BY <2>1, <2>3, InTurnJoined
  <2>6. Stage(PodCreate.op) = 5 /\ Stage(Raise.op) = 6
    BY DEF Stage, PodCreate, Raise
  <2>7. \A x \in Ahead(PodCalls \o fails \o pod2) : x = PodCreate \/ x = Raise
    BY <1>3, <1>4, <1>5, <1>9, <2>4
  <2>8. \A x \in Ahead(PodCalls \o fails \o pod2) : 5 <= Stage(x.op) /\ Stage(x.op) <= 6
    BY <2>6, <2>7
  <2> QED
    BY <2>4, <2>5, <2>8 DEF Within
<1>11. /\ Within(PodCalls \o fails \o pod2 \o conv, 5, 6)
       /\ Ahead(PodCalls \o fails \o pod2 \o conv)
            = Ahead(PodCalls \o fails \o pod2) \cup Ahead(conv)
  BY <1>6, <1>10, WithinJoined
<1>12. /\ Within(PodCalls \o fails \o pod2 \o conv \o bad, 5, 6)
       /\ Ahead(PodCalls \o fails \o pod2 \o conv \o bad)
            = Ahead(PodCalls \o fails \o pod2 \o conv) \cup Ahead(bad)
  BY <1>7, <1>11, WithinJoined
<1>13. /\ Within(PodCalls \o fails \o pod2 \o conv \o bad \o <<OneOffRun>>, 5, 7)
       /\ Ahead(PodCalls \o fails \o pod2 \o conv \o bad \o <<OneOffRun>>)
            = Ahead(PodCalls \o fails \o pod2 \o conv \o bad) \cup Ahead(<<OneOffRun>>)
  BY <1>7, <1>12, WithinJoined
<1>14. /\ Within(RunCalls(a), 5, 8)
       /\ Ahead(RunCalls(a))
            = Ahead(PodCalls \o fails \o pod2 \o conv \o bad \o <<OneOffRun>>) \cup Ahead(wait)
  BY <1>1, <1>7, <1>13, WithinJoined
<1>15. Ahead(PodCalls) \subseteq Ahead(RunCalls(a)) /\ Ahead(conv) \subseteq Ahead(RunCalls(a))
  BY <1>9, <1>10, <1>11, <1>12, <1>13, <1>14
<1>16. \A x \in Ahead(conv) : x.op # "start"
  <2>1. Ahead(Converted("run", upped)) \subseteq
          {Raise} \cup {CallOn("run", d) : d \in Ahead(upped)}
    <3> HIDE DEF upped
    <3> QED
      BY <1>2, ConvertedLists DEF CntOps
  <2>2. Raise.op # "start" /\ \A d : CallOn("run", d).op # "start"
    BY DEF Raise, CallOn
  <2> QED
    BY <2>1, <2>2 DEF conv
<1>17. \A x \in Ahead(bad) \cup Ahead(wait) \cup Ahead(<<OneOffRun>>) : x.op # "start"
  <2>1. Raise.op # "start" /\ OneOffRun.op # "start"
    BY DEF Raise, OneOffRun
  <2>2. \A x \in Ahead(bad) : x.op # "start"
    BY <2>1, AheadOfFew DEF bad
  <2>3. \A x \in Ahead(wait) : x.op # "start"
    BY AheadOfFew DEF wait
  <2>4. \A x \in Ahead(<<OneOffRun>>) : x.op # "start"
    BY <2>1, AheadOfFew
  <2> QED
    BY <2>2, <2>3, <2>4
<1>18. PodCreate.op # "start" /\ Raise.op # "start"
  BY DEF PodCreate, Raise
<1>19. \A x \in Ahead(RunCalls(a)) : x.op # "start"
  BY <1>3, <1>4, <1>5, <1>9, <1>10, <1>11, <1>12, <1>13, <1>14, <1>16, <1>17, <1>18
<1> QED
  BY <1>8, <1>14, <1>15, <1>19 DEF Within

\* The calls about some containers, one each.
LEMMA SomeLists ==
  ASSUME NEW op \in CntOps, NEW at \in SUBSET DOMAIN Stack
  PROVE  /\ Calls(op, Picked(at)) \in Seq(Call) /\ InTurn(Calls(op, Picked(at)))
         /\ \A c \in Ahead(Calls(op, Picked(at))) :
              c.op = op /\ c.on \in Names /\ \E i \in at : ServiceOf(c.on) = Stack[i].service
<1>1. Picked(at) \in Seq(Containers) /\ Ahead(Picked(at)) = {Stack[i] : i \in at}
  BY PickedLists
<1>2. /\ Within(Calls(op, Picked(at)), Stage(op), Stage(op))
      /\ Ahead(Calls(op, Picked(at))) = {CallOn(op, c) : c \in {Stack[i] : i \in at}}
  BY <1>1, CallsWithin, CallsLists
<1>3. \A i \in at : Stack[i] \in Containers
  BY DEF Containers
<1>4. \A i \in at : /\ CallOn(op, Stack[i]).op = op
                    /\ CallOn(op, Stack[i]).on \in Names
                    /\ ServiceOf(CallOn(op, Stack[i]).on) = Stack[i].service
  BY <1>3, StackFacts DEF CallOn
<1>5. \A c \in Ahead(Calls(op, Picked(at))) : \E i \in at : c = CallOn(op, Stack[i])
  BY <1>2
<1> QED
  BY <1>2, <1>4, <1>5 DEF Within

\* Every command makes calls it may make, in turn.
LEMMA CallsOfFit ==
  ASSUME NEW a \in Args
  PROVE  /\ CallsOf(a) \in Seq(Call) /\ InTurn(CallsOf(a))
         /\ \A c \in Ahead(CallsOf(a)) : May(a, c)
<1>1. CASE a \in UpArgs
  <2>1. a.cmd = "up" /\ CallsOf(a) = UpCalls(a)
    BY <1>1 DEF UpArgs, CallsOf
  <2>2. UpCalls(a) \in Seq(Call) /\ InTurn(UpCalls(a))
    BY <1>1, UpLists DEF Within
  <2> SUFFICES ASSUME NEW c \in Ahead(UpCalls(a)) PROVE May(a, c)
    BY <2>1, <2>2
  <2> DEFINE op   == IF a.detach /\ ~a.no_start THEN "run" ELSE "create"
             ours == {d \in Containers : d.service \notin Excluded(a.services)}
  <2>3. \A d \in ours : ServiceOf(d.name) \notin Excluded(a.services)
    BY StackFacts
  <2>4. CASE c.op \in Builds /\ ~a.no_build /\ ServiceOf(c.on) \notin Excluded(a.services)
    BY <2>1, <2>4 DEF May, Builds
  <2>5. CASE c \in Ahead(DownCalls(a.services)) /\ a.force_recreate
    <3>1. \/ c = PodRm /\ Excluded(a.services) = {}
          \/ \E o \in {"stop", "rm"}, d \in ours : c = CallOn(o, d)
      BY <2>5, DownLists
    <3>2. CASE c = PodRm /\ Excluded(a.services) = {}
      BY <2>1, <2>5, <3>2 DEF May, Builds, PodRm, CntOps
    <3>3. CASE \E o \in {"stop", "rm"}, d \in ours : c = CallOn(o, d)
      <4>1. PICK o \in {"stop", "rm"}, d \in ours : c = CallOn(o, d)
        BY <3>3
      <4>2. c.op = o /\ ServiceOf(c.on) \notin Excluded(a.services)
        BY <2>3, <4>1 DEF CallOn
      <4> QED
        BY <2>1, <2>5, <4>2 DEF May, Builds
    <3> QED
      BY <3>1, <3>2, <3>3
  <2>6. CASE c = PodCreate
    BY <2>1, <2>6 DEF May, Builds, PodCreate, CntOps
  <2>7. CASE c \in Ahead(Converted(op, Included(a.services)))
    <3>1. c = Raise \/ \E d \in ours : c = CallOn(op, d)
      <4>1. op \in CntOps
        BY DEF CntOps
      <4>2. Included(a.services) \in Seq(Containers) /\ Ahead(Included(a.services)) = ours
        BY IncludedLists
      <4> HIDE DEF op, ours
      <4> QED
        BY <2>7, <4>1, <4>2, ConvertedLists
    <3>2. CASE c = Raise
      BY <2>1, <3>2 DEF May, Builds, Raise, CntOps
    <3>3. CASE \E d \in ours : c = CallOn(op, d)
      <4>1. c.op = op /\ ServiceOf(c.on) \notin Excluded(a.services)
        BY <2>3, <3>3 DEF CallOn
      <4> QED
        BY <2>1, <4>1 DEF May, Builds
    <3> QED
      BY <3>1, <3>2, <3>3
  <2>8. CASE c.op = "attach" /\ ~a.detach /\ ServiceOf(c.on) \notin Excluded(a.services)
    BY <2>1, <2>8 DEF May, Builds
  <2> QED
    BY <1>1, <2>4, <2>5, <2>6, <2>7, <2>8, UpLists
<1>2. CASE a \in DownArgs
  <2>1. a.cmd = "down" /\ CallsOf(a) = DownCalls(a.services)
    BY <1>2 DEF DownArgs, CallsOf
  <2>2. DownCalls(a.services) \in Seq(Call) /\ InTurn(DownCalls(a.services))
    BY DownLists DEF Within
  <2> DEFINE ours == {d \in Containers : d.service \notin Excluded(a.services)}
  <2>3. \A c \in Ahead(DownCalls(a.services)) :
          \/ c = PodRm /\ Excluded(a.services) = {}
          \/ \E o \in {"stop", "rm"}, d \in ours : c = CallOn(o, d)
    BY DownLists
  <2>4. \A d \in ours : ServiceOf(d.name) \notin Excluded(a.services)
    BY StackFacts
  <2>5. Excluded(a.services) = {} => May(a, PodRm)
    BY <2>1 DEF May, PodRm, CntOps
  <2>6. \A o \in {"stop", "rm"}, d \in ours : May(a, CallOn(o, d))
    BY <2>1, <2>4 DEF May, CallOn
  <2> QED
    BY <2>1, <2>2, <2>3, <2>5, <2>6
<1>3. CASE a \in RunArgs
  <2>1. a.cmd = "run" /\ CallsOf(a) = RunCalls(a)
    BY <1>3 DEF RunArgs, CallsOf
  <2>2. \A c : May(a, c)
    BY <2>1 DEF May
  <2> QED
    BY <1>3, <2>1, <2>2, RunLists
<1>4. CASE a \in PullArgs
  <2> DEFINE at == {i \in DOMAIN Stack : a.force_local \/ ~Stack[i].local}
  <2>1. a.cmd = "pull" /\ CallsOf(a) = Calls("pull", Picked(at)) /\ at \in SUBSET DOMAIN Stack
    BY <1>4 DEF PullArgs, CallsOf, PullCalls
  <2>2. \A c : May(a, c)
    BY <2>1 DEF May
  <2> QED
    BY <2>1, <2>2, SomeLists DEF CntOps
<1>5. CASE a \in PushArgs
  <2> DEFINE at == {i \in DOMAIN Stack :
                      Stack[i].build /\ (a.services = {} \/ Stack[i].service \in a.services)}
  <2>1. a.cmd = "push" /\ CallsOf(a) = Calls("push", Picked(at)) /\ at \in SUBSET DOMAIN Stack
    BY <1>5 DEF PushArgs, CallsOf, PushCalls
  <2>2. \A c : May(a, c)
    BY <2>1 DEF May
  <2> QED
    BY <2>1, <2>2, SomeLists DEF CntOps
<1>6. CASE a \in BuildArgs
  <2>1. a.cmd = "build" /\ CallsOf(a) = BuildCalls(a.services, "build")
        /\ a.services \in SUBSET Services
    BY <1>6 DEF BuildArgs, CallsOf
  <2>2. \A c : May(a, c)
    BY <2>1 DEF May
  <2> QED
    BY <2>1, <2>2, BuildLists DEF Within
<1>7. CASE a \in SomeArgs
  <2> DEFINE at == {i \in DOMAIN Stack : Stack[i].service \in a.services}
  <2>1. /\ a.cmd \in {"start", "stop", "restart"} /\ at \in SUBSET DOMAIN Stack
        /\ a.cmd \in CntOps
    BY <1>7 DEF SomeArgs, CntOps
  <2>2. CallsOf(a) = Calls(a.cmd, Picked(at))
    BY <2>1 DEF CallsOf, TransferCalls
  <2> HIDE DEF at
  <2>3. /\ CallsOf(a) \in Seq(Call) /\ InTurn(CallsOf(a))
        /\ \A c \in Ahead(CallsOf(a)) :
             c.op = a.cmd /\ \E i \in at : ServiceOf(c.on) = Stack[i].service
    BY <2>1, <2>2, SomeLists
  <2>4. \A c \in Ahead(CallsOf(a)) : ServiceOf(c.on) \notin Excluded(a.services)
    BY <2>3, NamedNotExcluded DEF at
  <2>5. \A c \in Ahead(CallsOf(a)) : May(a, c)
    BY <2>1, <2>3, <2>4 DEF May
  <2> QED
    BY <2>3, <2>5
<1> QED
  BY <1>1, <1>2, <1>3, <1>4, <1>5, <1>6, <1>7 DEF Args

--------------------------------------------------------------------------------
(* What a call does to what podman keeps. *)

\* A call about a container names one of the stack.
LEMMA CallFacts ==
  ASSUME NEW call \in Call
  PROVE  /\ call.op \in CntOps \cup StackOps
         /\ call.op \in CntOps => /\ call.on \in Names /\ ServiceOf(call.on) \in Services
                                  /\ Desc(call.on).local \in BOOLEAN
<1>1. call.op \in CntOps => call.on \in Names
  BY DEF Call, CntOps, StackOps
<1>2. call.op \in CntOps \cup StackOps
  BY DEF Call
<1>3. \A n \in Names : Desc(n) \in ContainerDesc
  BY StackFacts
<1>4. \A n \in Names : Desc(n).local \in BOOLEAN
  BY <1>3 DEF ContainerDesc
<1> QED
  BY <1>1, <1>2, <1>4, StackFacts

\* The image a container is made from is one that was published.
LEMMA ImageForFacts ==
  ASSUME NEW m \in PodmanState, latest \in [Services -> 1 .. LastVersion], NEW n \in Names
  PROVE  /\ ImageFor(n, m) \in Version /\ ImageFor(n, m) # 0
         /\ m.image[ServiceOf(n)] # 0 => ImageFor(n, m) = m.image[ServiceOf(n)]
<1>1. ServiceOf(n) \in Services /\ LastVersion \in Nat
  BY StackFacts, SettingsAssumption
<1>2. m.image \in [Services -> Version]
  BY DEF PodmanState
<1>3. latest[ServiceOf(n)] \in 1 .. LastVersion /\ m.image[ServiceOf(n)] \in Version
  BY <1>1, <1>2
<1> QED
  BY <1>1, <1>3 DEF ImageFor, Version

\* Field by field: the pod, then the containers, then the images.
LEMMA AfterFields ==
  ASSUME NEW m \in PodmanState, NEW call \in Call, latest \in [Services -> 1 .. LastVersion]
  PROVE
    /\ After(call, m) \in PodmanState
    /\ call.op = "podcreate" => After(call, m).pod
    /\ call.op = "podrm"     => /\ ~After(call, m).pod /\ After(call, m).oneoff = "none"
                                /\ \A n \in Names : After(call, m).cnt[n] = "none"
    /\ call.op \notin {"podcreate", "podrm"} => After(call, m).pod = m.pod
    /\ call.op \notin {"podrm", "oneoff"} => After(call, m).oneoff = m.oneoff
    /\ \A n \in Names :
         call.op # "podrm" /\ (call.on # n \/ call.op \in Builds \cup StackOps) =>
           After(call, m).cnt[n] = m.cnt[n] /\ After(call, m).made[n] = m.made[n]
    /\ call.op \in {"run", "start", "attach", "restart"} => After(call, m).cnt[call.on] = "running"
    /\ call.op = "create" => After(call, m).cnt[call.on] = "created"
    /\ call.op = "stop"   => After(call, m).cnt[call.on] = "exited"
    /\ call.op = "rm"     => After(call, m).cnt[call.on] = "none"
    /\ call.op \in {"start", "attach", "restart", "stop"} =>
         After(call, m).made[call.on] = m.made[call.on]
    /\ call.op \in {"create", "run"} =>
         /\ After(call, m).made[call.on] = ImageFor(call.on, m)
         /\ After(call, m).image[ServiceOf(call.on)] = ImageFor(call.on, m)
    /\ call.op \in {"pull", "build", "buildmissing"} => After(call, m).image[ServiceOf(call.on)] # 0
    /\ \A s \in Services :
         /\ call.op \notin Builds \cup {"create", "run"} => After(call, m).image[s] = m.image[s]
         /\ call.op \in CntOps /\ s # ServiceOf(call.on) => After(call, m).image[s] = m.image[s]
         /\ m.image[s] # 0 => After(call, m).image[s] # 0
<1> DEFINE n == call.on
           r == After(call, m)
<1>1. /\ m = [pod |-> m.pod, cnt |-> m.cnt, made |-> m.made, image |-> m.image,
              oneoff |-> m.oneoff]
      /\ m.pod \in BOOLEAN /\ m.cnt \in [Names -> CntState] /\ m.made \in [Names -> Version]
      /\ m.image \in [Services -> Version] /\ m.oneoff \in {"none", "running", "exited"}
  BY DEF PodmanState
<1>2. 0 \in Version /\ \A s \in Services : latest[s] \in Version /\ latest[s] # 0
  BY SettingsAssumption DEF Version
<1>3. CASE call.op = "podcreate"
  <2>1. r = [m EXCEPT !.pod = TRUE]
    BY <1>3 DEF After
  <2>2. r \in PodmanState
    BY <1>1, <2>1 DEF PodmanState
  <2> QED
    BY <1>1, <1>3, <2>1, <2>2 DEF Builds, CntOps, StackOps
<1>4. CASE call.op \in {"create", "run"}
  <2>1. r = [m EXCEPT !.cnt[n] = IF call.op = "run" THEN "running" ELSE "created",
                      !.made[n] = ImageFor(n, m), !.image[ServiceOf(n)] = ImageFor(n, m)]
    BY <1>4 DEF After
  <2>2. /\ n \in Names /\ ServiceOf(n) \in Services /\ ImageFor(n, m) \in Version
        /\ ImageFor(n, m) # 0
        /\ {"running", "created"} \subseteq CntState
    BY <1>4, CallFacts, ImageForFacts DEF CntOps, CntState
  <2>3. r \in PodmanState
    <3>1. /\ [m.cnt EXCEPT ![n] = IF call.op = "run" THEN "running" ELSE "created"]
               \in [Names -> CntState]
          /\ [m.made EXCEPT ![n] = ImageFor(n, m)] \in [Names -> Version]
          /\ [m.image EXCEPT ![ServiceOf(n)] = ImageFor(n, m)] \in [Services -> Version]
      BY <1>1, <2>2
    <3>2. r = [pod |-> m.pod,
               cnt |-> [m.cnt EXCEPT ![n] = IF call.op = "run" THEN "running" ELSE "created"],
               made |-> [m.made EXCEPT ![n] = ImageFor(n, m)],
               image |-> [m.image EXCEPT ![ServiceOf(n)] = ImageFor(n, m)],
               oneoff |-> m.oneoff]
      BY <1>1, <2>1
    <3> QED
      BY <1>1, <3>1, <3>2 DEF PodmanState
  <2> QED
    BY <1>1, <1>4, <2>1, <2>2, <2>3 DEF Builds, CntOps, StackOps
<1>5. CASE call.op \in {"start", "attach", "restart", "stop"}
  <2>1. r = [m EXCEPT !.cnt[n] = IF call.op = "stop" THEN "exited" ELSE "running"]
    BY <1>5 DEF After
  <2>2. n \in Names /\ {"running", "exited"} \subseteq CntState
    BY <1>5, CallFacts DEF CntOps, CntState
  <2>3. r \in PodmanState
    BY <1>1, <2>1, <2>2 DEF PodmanState
  <2> QED
    BY <1>1, <1>5, <2>1, <2>2, <2>3 DEF Builds, CntOps, StackOps
<1>6. CASE call.op = "rm"
  <2>1. r = [m EXCEPT !.cnt[n] = "none", !.made[n] = 0]
    BY <1>6 DEF After
  <2>2. n \in Names /\ "none" \in CntState
    BY <1>6, CallFacts DEF CntOps, CntState
  <2>3. r \in PodmanState
    <3>1. /\ [m.cnt EXCEPT ![n] = "none"] \in [Names -> CntState]
          /\ [m.made EXCEPT ![n] = 0] \in [Names -> Version]
      BY <1>1, <1>2, <2>2
    <3>2. r = [pod |-> m.pod, cnt |-> [m.cnt EXCEPT ![n] = "none"],
               made |-> [m.made EXCEPT ![n] = 0], image |-> m.image, oneoff |-> m.oneoff]
      BY <1>1, <2>1
    <3> QED
      BY <1>1, <3>1, <3>2 DEF PodmanState
  <2> QED
    BY <1>1, <1>6, <2>1, <2>2, <2>3 DEF Builds, CntOps, StackOps
<1>7. CASE call.op = "podrm"
  <2>1. r = [m EXCEPT !.pod = FALSE, !.cnt = [c \in Names |-> "none"],
                      !.made = [c \in Names |-> 0], !.oneoff = "none"]
    BY <1>7 DEF After
  <2>2. r \in PodmanState
    <3>1. [c \in Names |-> "none"] \in [Names -> CntState]
      BY DEF CntState
    <3>2. [c \in Names |-> 0] \in [Names -> Version]
      BY <1>2
    <3>3. r = [pod |-> FALSE, cnt |-> [c \in Names |-> "none"],
               made |-> [c \in Names |-> 0], image |-> m.image, oneoff |-> "none"]
      BY <1>1, <2>1
    <3> QED
      BY <1>1, <3>1, <3>2, <3>3 DEF PodmanState
  <2> QED
    BY <1>1, <1>7, <2>1, <2>2 DEF Builds, CntOps, StackOps
<1>8. CASE call.op = "oneoff"
  <2>1. r = [m EXCEPT !.oneoff = "running"]
    BY <1>8 DEF After
  <2>2. r \in PodmanState
    BY <1>1, <2>1 DEF PodmanState
  <2> QED
    BY <1>1, <1>8, <2>1, <2>2 DEF Builds, CntOps, StackOps
<1>9. CASE call.op \in {"pull", "build", "buildmissing"}
  <2>1. r = [m EXCEPT !.image[ServiceOf(n)] = latest[ServiceOf(n)]]
    BY <1>9 DEF After
  <2>2. n \in Names /\ ServiceOf(n) \in Services
    BY <1>9, CallFacts DEF CntOps
  <2>3. r \in PodmanState
    BY <1>1, <1>2, <2>1, <2>2 DEF PodmanState
  <2> QED
    BY <1>1, <1>2, <1>9, <2>1, <2>2, <2>3 DEF Builds, CntOps, StackOps
<1>10. CASE call.op \in {"push", "oneoffwait", "raise"}
  <2>1. r = m
    BY <1>10 DEF After
  <2> QED
    BY <1>10, <2>1 DEF Builds, CntOps, StackOps
<1> QED
  BY <1>3, <1>4, <1>5, <1>6, <1>7, <1>8, <1>9, <1>10, CallFacts DEF CntOps, StackOps

\* There is no image to make a container from.
Lacks(n) == podman.image[ServiceOf(n)] = 0 /\ Desc(n).local

\* What a call that succeeds has found and done.
Effect(call) ==
  /\ call.op = "podcreate" => podman'.pod
  /\ call.op = "podrm" => /\ podman.pod /\ Runs(podman) = {} /\ podman.oneoff # "running"
                          /\ ~podman'.pod /\ podman'.oneoff = "none"
                          /\ \A n \in Names : podman'.cnt[n] = "none"
  /\ call.op \notin {"podcreate", "podrm"} => podman'.pod = podman.pod
  /\ call.op \notin {"podrm", "oneoff"} => podman'.oneoff = podman.oneoff
  /\ \A n \in Names :
       call.op # "podrm" /\ (call.on # n \/ call.op \in Builds \cup StackOps) =>
         podman'.cnt[n] = podman.cnt[n] /\ podman'.made[n] = podman.made[n]
  /\ call.op \in {"create", "run"} =>
       /\ podman.cnt[call.on] = "none" /\ (HasPod => podman.pod) /\ ~Lacks(call.on)
       /\ podman'.made[call.on] = ImageFor(call.on, podman)
       /\ podman'.image[ServiceOf(call.on)] = ImageFor(call.on, podman)
  /\ call.op \in {"start", "attach", "restart"} => podman.cnt[call.on] # "none"
  /\ call.op \in {"run", "start", "attach", "restart"} => podman'.cnt[call.on] = "running"
  /\ call.op = "create" => podman'.cnt[call.on] = "created"
  /\ call.op = "stop" => podman.cnt[call.on] = "running" /\ podman'.cnt[call.on] = "exited"
  /\ call.op = "rm" => podman.cnt[call.on] # "running" /\ podman'.cnt[call.on] = "none"
  /\ call.op \in {"start", "attach", "restart", "stop"} =>
       podman'.made[call.on] = podman.made[call.on]
  /\ \A s \in Services :
       /\ call.op \notin Builds \cup {"create", "run"} => podman'.image[s] = podman.image[s]
       /\ call.op \in CntOps /\ s # ServiceOf(call.on) => podman'.image[s] = podman.image[s]
       /\ podman.image[s] # 0 => podman'.image[s] # 0

LEMMA EffectFacts ==
  ASSUME TypeOK, NEW call \in Call, Possible(call, podman), podman' = After(call, podman)
  PROVE  Effect(call)
<1>1. podman \in PodmanState /\ latest \in [Services -> 1 .. LastVersion]
  BY DEF TypeOK
<1> DEFINE m == After(call, podman)
<1>2. /\ call.op = "podcreate" => m.pod
      /\ call.op = "podrm" => ~m.pod /\ m.oneoff = "none" /\ \A n \in Names : m.cnt[n] = "none"
      /\ call.op \notin {"podcreate", "podrm"} => m.pod = podman.pod
      /\ call.op \notin {"podrm", "oneoff"} => m.oneoff = podman.oneoff
      /\ \A n \in Names :
           call.op # "podrm" /\ (call.on # n \/ call.op \in Builds \cup StackOps) =>
             m.cnt[n] = podman.cnt[n] /\ m.made[n] = podman.made[n]
  BY <1>1, AfterFields
<1>3. /\ call.op \in {"run", "start", "attach", "restart"} => m.cnt[call.on] = "running"
      /\ call.op = "create" => m.cnt[call.on] = "created"
      /\ call.op = "stop"   => m.cnt[call.on] = "exited"
      /\ call.op = "rm"     => m.cnt[call.on] = "none"
      /\ call.op \in {"start", "attach", "restart", "stop"} => m.made[call.on] = podman.made[call.on]
      /\ call.op \in {"create", "run"} =>
           /\ m.made[call.on] = ImageFor(call.on, podman)
           /\ m.image[ServiceOf(call.on)] = ImageFor(call.on, podman)
  BY <1>1, AfterFields
<1>4. \A s \in Services :
        /\ call.op \notin Builds \cup {"create", "run"} => m.image[s] = podman.image[s]
        /\ call.op \in CntOps /\ s # ServiceOf(call.on) => m.image[s] = podman.image[s]
        /\ podman.image[s] # 0 => m.image[s] # 0
  BY <1>1, AfterFields
<1>5. /\ call.op = "podrm" => podman.pod /\ Runs(podman) = {} /\ podman.oneoff # "running"
      /\ call.op \in {"create", "run"} =>
           podman.cnt[call.on] = "none" /\ (HasPod => podman.pod) /\ ~Lacks(call.on)
      /\ call.op \in {"start", "attach", "restart"} => podman.cnt[call.on] # "none"
      /\ call.op = "stop" => podman.cnt[call.on] = "running"
      /\ call.op = "rm" => podman.cnt[call.on] \in {"created", "exited"}
  <2>1. CASE call.op = "podrm"
    BY <2>1 DEF Possible
  <2>2. CASE call.op \in {"create", "run"}
    BY <2>2 DEF Possible, Lacks
  <2>3. CASE call.op \in {"start", "attach", "restart"}
    BY <2>3 DEF Possible
  <2>4. CASE call.op = "stop"
    BY <2>4 DEF Possible
  <2>5. CASE call.op = "rm"
    BY <2>5 DEF Possible
  <2> QED
    BY <2>1, <2>2, <2>3, <2>4, <2>5
<1> HIDE DEF m
<1>6. podman' = m
  BY DEF m
<1>7. \A n : call.op = "rm" /\ podman.cnt[call.on] \in {"created", "exited"}
               => podman.cnt[call.on] # "running"
  OBVIOUS
<1> QED
  BY <1>2, <1>3, <1>4, <1>5, <1>6, <1>7 DEF Effect

\* What a call that is not possible has found.
Refused(call) ==
  /\ call.op = "podcreate" => podman.pod
  /\ call.op = "podrm" => ~podman.pod \/ Runs(podman) # {} \/ podman.oneoff = "running"
  /\ call.op = "run"   => podman.cnt[call.on] # "none" \/ (HasPod /\ ~podman.pod) \/ Lacks(call.on)
  /\ call.op = "start" => podman.cnt[call.on] = "none"
  /\ call.op = "stop"  => podman.cnt[call.on] # "running"
  /\ call.op = "rm"    => podman.cnt[call.on] \in {"none", "running"}

LEMMA RefusedFacts ==
  ASSUME TypeOK, NEW call \in Call, ~Possible(call, podman)
  PROVE  Refused(call)
<1>1. CASE call.op = "podcreate"
  BY <1>1 DEF Possible, Refused
<1>2. CASE call.op = "podrm"
  BY <1>2 DEF Possible, Refused
<1>3. CASE call.op = "run"
  BY <1>3 DEF Possible, Refused, Lacks
<1>4. CASE call.op = "start"
  BY <1>4 DEF Possible, Refused
<1>5. CASE call.op = "stop"
  BY <1>5 DEF Possible, Refused
<1>6. CASE call.op = "rm"
  <2>1. call.on \in Names /\ podman.cnt \in [Names -> CntState]
    BY <1>6, CallFacts DEF CntOps, TypeOK, PodmanState
  <2>2. podman.cnt[call.on] \in {"none", "created", "running", "exited"}
    BY <2>1 DEF CntState
  <2>3. podman.cnt[call.on] \notin {"created", "exited"}
    BY <1>6 DEF Possible
  <2> QED
    BY <1>6, <2>2, <2>3 DEF Refused
<1>7. CASE call.op \notin {"podcreate", "podrm", "run", "start", "stop", "rm"}
  BY <1>7 DEF Refused
<1> QED
  BY <1>1, <1>2, <1>3, <1>4, <1>5, <1>6, <1>7

--------------------------------------------------------------------------------
(* Processes. *)

LEMMA IdleFacts ==
  /\ Idle \in Process /\ Idle.cmd = NoCommand /\ Idle.calls = <<>>
  /\ Idle.threads = {} /\ Idle.alive = {} /\ ~Idle.raised
BY EmptySeq DEF Idle, Process

LEMMA BegunFacts ==
  ASSUME NEW a \in Args \cup {NoCommand, UnitPre}, NEW calls \in Seq(Call)
  PROVE  /\ Begun(a, calls) \in Process
         /\ Begun(a, calls).cmd = a /\ Begun(a, calls).calls = calls
         /\ Begun(a, calls).threads = {} /\ Begun(a, calls).alive = {}
         /\ ~Begun(a, calls).raised
<1>1. Begun(a, calls) = [Idle EXCEPT !.cmd = a, !.calls = calls]
  BY DEF Begun
<1> QED
  BY <1>1, IdleFacts DEF Process

\* A process whose calls, threads and containers change.
Changed(q, c, t, l) == [q EXCEPT !.calls = c, !.threads = t, !.alive = l]

LEMMA ChangedFacts ==
  ASSUME NEW q \in Process, NEW c \in Seq(Call), NEW t \in SUBSET Names, NEW l \in SUBSET Names
  PROVE  /\ Changed(q, c, t, l) \in Process
         /\ Changed(q, c, t, l).cmd = q.cmd /\ Changed(q, c, t, l).raised = q.raised
         /\ Changed(q, c, t, l).calls = c /\ Changed(q, c, t, l).threads = t
         /\ Changed(q, c, t, l).alive = l
BY DEF Process, Changed

\* A process that has ended.
Ended(q) == [q EXCEPT !.calls = <<>>, !.threads = {}, !.alive = {}]

LEMMA EndedFacts ==
  ASSUME NEW q \in Process
  PROVE  /\ Ended(q) \in Process /\ Ended(q).cmd = q.cmd
         /\ Ended(q).calls = <<>> /\ Ended(q).alive = {}
<1> DEFINE c == <<>>
           t == {}
<1>1. c \in Seq(Call) /\ t \in SUBSET Names
  BY EmptySeq
<1>2. Ended(q) = Changed(q, c, t, t)
  BY DEF Ended, Changed
<1> HIDE DEF c, t
<1>3. /\ Ended(q) \in Process /\ Ended(q).cmd = q.cmd
      /\ Ended(q).calls = c /\ Ended(q).alive = t
  BY <1>1, <1>2, ChangedFacts
<1> QED
  BY <1>3 DEF c, t

LEMMA StillAliveFacts ==
  ASSUME NEW q \in Process, NEW m, NEW gone
  PROVE  /\ StillAlive(q, m, gone) \in Process
         /\ StillAlive(q, m, gone).cmd = q.cmd /\ StillAlive(q, m, gone).calls = q.calls
         /\ StillAlive(q, m, gone).threads = q.threads
         /\ StillAlive(q, m, gone).raised = q.raised
         /\ StillAlive(q, m, gone).alive = {n \in q.alive : m.cnt[n] = "running"} \ gone
<1>1. StillAlive(q, m, gone) = [q EXCEPT !.alive = {n \in q.alive : m.cnt[n] = "running"} \ gone]
  BY DEF StillAlive
<1>2. q.alive \in SUBSET Names /\ {n \in q.alive : m.cnt[n] = "running"} \ gone \in SUBSET Names
  BY DEF Process
<1> QED
  BY <1>1, <1>2 DEF Process

LEMMA UnitCommands ==
  /\ UnitUp \in UpArgs /\ UnitDown \in DownArgs /\ UnitUp \in Args /\ UnitDown \in Args
  /\ CallsOf(UnitUp) = UnitUpCalls /\ CallsOf(UnitDown) = UnitDownCalls
  /\ UnitUpCalls \in Seq(Call) /\ UnitDownCalls \in Seq(Call)
<1>1. UnitUp \in UpArgs /\ UnitDown \in DownArgs
  BY DEF UnitUp, UnitDown, UpArgs, DownArgs
<1>2. UnitUp \in Args /\ UnitDown \in Args
  BY <1>1 DEF Args
<1>3. CallsOf(UnitUp) = UnitUpCalls /\ CallsOf(UnitDown) = UnitDownCalls
  BY DEF CallsOf, UnitUp, UnitDown, UnitUpCalls, UnitDownCalls
<1> QED
  BY <1>1, <1>2, <1>3, CallsOfFit

PreCalls == (IF Refresh THEN PullCalls(FALSE) ELSE <<>>)
              \o (IF Ephemeral THEN << [op |-> "podrm", on |-> ""] >> ELSE <<>>)

LEMMA PreLists ==
  /\ PreCalls \in Seq(Call) /\ InTurn(PreCalls)
  /\ \A c \in Ahead(PreCalls) : May(UnitPre, c)
  /\ Ephemeral => PodRm \in Ahead(PreCalls)
<1> DEFINE at   == {i \in DOMAIN Stack : FALSE \/ ~Stack[i].local}
           pull == IF Refresh THEN PullCalls(FALSE) ELSE <<>>
           rm   == IF Ephemeral THEN <<PodRm>> ELSE <<>>
<1>1. PullCalls(FALSE) = Calls("pull", Picked(at)) /\ at \in SUBSET DOMAIN Stack
  BY DEF PullCalls
<1> HIDE DEF at
<1>2. "pull" \in CntOps /\ Stage("pull") = 1
  BY DEF CntOps, Stage
<1>3. Picked(at) \in Seq(Containers)
  BY <1>1, PickedLists
<1>4. /\ Within(PullCalls(FALSE), 1, 1)
      /\ \A c \in Ahead(PullCalls(FALSE)) : c.op = "pull"
  <2>1. Within(Calls("pull", Picked(at)), 1, 1)
    BY <1>2, <1>3, CallsWithin
  <2>2. \A c \in Ahead(Calls("pull", Picked(at))) : c.op = "pull"
    BY <1>1, <1>2, SomeLists
  <2> QED
    BY <1>1, <2>1, <2>2
<1>5. Within(pull, 1, 1) /\ \A c \in Ahead(pull) : c.op = "pull"
  BY <1>4, WithinEmpty, AheadOfFew
<1>6. Within(rm, 4, 4) /\ Ahead(rm) = IF Ephemeral THEN {PodRm} ELSE {}
  BY SingleWithin, WithinEmpty, AheadOfFew
<1>7. PreCalls = pull \o rm
  BY DEF PreCalls, PodRm
<1> HIDE DEF pull, rm
<1>8. Within(PreCalls, 1, 4) /\ Ahead(PreCalls) = Ahead(pull) \cup Ahead(rm)
  BY <1>5, <1>6, <1>7, WithinJoined
<1>9. \A c : c.op \in {"pull", "podrm"} => May(UnitPre, c)
  BY DEF May, UnitPre
<1>10. PodRm.op = "podrm"
  BY DEF PodRm
<1> QED
  BY <1>5, <1>6, <1>8, <1>9, <1>10 DEF Within

\* A command that begins.
LEMMA BeginsFacts ==
  /\ \A a \in Args : LET b == Begun(a, CallsOf(a)) IN
       /\ b \in Process /\ b.cmd = a /\ b.calls = CallsOf(a) /\ b.alive = {} /\ ~b.raised
  /\ LET b == Begun(UnitPre, PreCalls) IN
       b \in Process /\ b.cmd = UnitPre /\ b.calls = PreCalls /\ b.alive = {}
<1>1. ASSUME NEW a \in Args
      PROVE  LET b == Begun(a, CallsOf(a)) IN
             /\ b \in Process /\ b.cmd = a /\ b.calls = CallsOf(a) /\ b.alive = {}
             /\ ~b.raised
  <2> DEFINE all == Args \cup {NoCommand, UnitPre}
             c   == CallsOf(a)
  <2>1. a \in all /\ c \in Seq(Call)
    BY CallsOfFit
  <2>2. \A x \in all, y \in Seq(Call) :
          /\ Begun(x, y) \in Process /\ Begun(x, y).cmd = x /\ Begun(x, y).calls = y
          /\ Begun(x, y).alive = {} /\ ~Begun(x, y).raised
    BY BegunFacts
  <2> HIDE DEF all, c
  <2> QED
    BY <2>1, <2>2 DEF c
<1>2. UnitPre \in Args \cup {NoCommand, UnitPre} /\ PreCalls \in Seq(Call)
  BY PreLists
<1> QED
  BY <1>1, <1>2, BegunFacts

\* The calls that are left after one.
LEMMA RestFacts ==
  ASSUME NEW calls \in Seq(Call), calls # <<>>, NEW ok \in BOOLEAN
  PROVE  LET call == Head(calls)
             rest == Rest(call, ok, Tail(calls))
             start == [op |-> "start", on |-> call.on]
         IN  /\ call \in Call /\ rest \in Seq(Call)
             /\ Ahead(calls) = {call} \cup Ahead(Tail(calls))
             /\ Ahead(rest) = Ahead(Tail(calls))
                                \cup IF call.op = "run" /\ ~ok THEN {start} ELSE {}
             /\ InTurn(calls) => InTurn(rest) /\ \A c \in Ahead(rest) : Follows(call, c)
<1> DEFINE call  == Head(calls)
           start == [op |-> "start", on |-> call.on]
           others == Tail(calls)
           rest  == Rest(call, ok, others)
<1>1. call \in Call /\ others \in Seq(Call) /\ Ahead(calls) = {call} \cup Ahead(others)
  BY AheadOfTail
<1> HIDE DEF others
<1>2. CASE call.op = "run" /\ ~ok
  <2> DEFINE one == <<start>>
  <2>1. rest = one \o others
    BY <1>2 DEF Rest
  <2>2. start \in Call /\ Stage(start.op) = 6 /\ Stage(call.op) = 6
        /\ start.op # "raise" /\ call.op # "raise"
    BY <1>1, <1>2, CallFacts DEF Call, CntOps, Stage
  <2>3. one \in Seq(Call) /\ Ahead(one) = {start}
    BY <2>2, AheadOfFew
  <2> HIDE DEF start, call, rest, one
  <2>4. rest \in Seq(Call) /\ Ahead(rest) = {start} \cup Ahead(others)
    BY <1>1, <2>1, <2>3, AheadOfJoined
  <2>5. ASSUME InTurn(calls)
        PROVE  InTurn(rest) /\ \A c \in Ahead(rest) : Follows(call, c)
    <3>1. InTurn(others) /\ \A y \in Ahead(others) : Follows(call, y)
      BY <2>5, InTurnTail DEF call, others
    <3>2. \A y \in Ahead(others) : Follows(start, y)
      BY <2>2, <3>1 DEF Follows
    <3>3. Follows(call, start) /\ Follows(start, start)
      BY <2>2 DEF Follows
    <3>4. InTurn(one)
      BY <2>3, <3>3, InTurnAlike
    <3>5. InTurn(rest)
      BY <1>1, <2>1, <2>3, <3>1, <3>2, <3>4, InTurnJoined
    <3> QED
      BY <2>4, <3>1, <3>3, <3>5
  <2> QED
    BY <1>1, <1>2, <2>4, <2>5 DEF start, call, rest, others
<1>3. CASE ~(call.op = "run" /\ ~ok)
  <2>1. rest = others
    BY <1>3 DEF Rest
  <2> HIDE DEF rest
  <2> QED
    BY <1>1, <1>3, <2>1, InTurnTail DEF rest, others
<1> QED
  BY <1>2, <1>3 DEF others

Left == [faults : 0 .. MaxFaults, hands : 0 .. MaxHands]

\* What may still come is counted down.
LEMMA LeftFacts ==
  ASSUME left \in Left
  PROVE  /\ Fault => left' \in Left
         /\ left.hands > 0 => [left EXCEPT !.hands = @ - 1] \in Left
<1>1. MaxFaults \in Nat /\ MaxHands \in Nat
  BY SettingsAssumption
<1>2. left.faults \in 0 .. MaxFaults /\ left.hands \in 0 .. MaxHands
  BY DEF Left
<1>3. left.faults > 0 => left.faults - 1 \in 0 .. MaxFaults
  BY <1>1, <1>2
<1>4. left.hands > 0 => left.hands - 1 \in 0 .. MaxHands
  BY <1>1, <1>2
<1> QED
  BY <1>3, <1>4 DEF Left, Fault

\* One step of a process, field by field.
LEMMA StepEffect ==
  ASSUME TypeOK, NEW p \in Proc, Step(p)
  PROVE  \E ok \in BOOLEAN :
    LET call == Head(proc[p].calls)
        rest == Rest(call, ok, Tail(proc[p].calls))
    IN  /\ proc[p].calls # <<>> /\ proc[p].calls \in Seq(Call)
        /\ call \in Call /\ call.op # "raise"
        /\ ok => Possible(call, podman)
        /\ podman' = IF ok THEN After(call, podman) ELSE podman
        /\ podman' \in PodmanState
        /\ proc' \in [Proc -> Process]
        /\ \A q \in Proc :
             /\ proc'[q].cmd = proc[q].cmd /\ proc'[q].raised = proc[q].raised
             /\ proc'[q].calls = IF q = p THEN rest ELSE proc[q].calls
             /\ proc'[q].alive \subseteq Runs(podman')
             /\ proc'[q].alive \subseteq
                  proc[q].alive \cup IF q = p /\ call.op = "attach" THEN {call.on} ELSE {}
             /\ quiet'[q] => quiet[q] /\ q = p /\ (ok \/ ~Possible(call, podman))
        /\ proc'[p].threads \subseteq
             proc[p].threads \cup IF call.op = "attach" THEN {call.on} ELSE {}
        /\ call.op # "attach" => proc'[p].threads = proc[p].threads
        /\ \A q \in Proc \ {p} : proc'[q].threads = proc[q].threads
        /\ quiet' \in [Proc -> BOOLEAN]
        /\ settled' \in BOOLEAN
        /\ settled' => /\ settled
                       /\ \/ ok \/ ~Possible(call, podman)
                          \/ call.op \in {"pull", "push", "create", "podcreate"}
        /\ left' \in [faults : 0 .. MaxFaults, hands : 0 .. MaxHands]
        /\ UNCHANGED <<latest, unit>>
<1> DEFINE call == Head(proc[p].calls)
<1>1. /\ podman \in PodmanState /\ latest \in [Services -> 1 .. LastVersion]
      /\ \A q \in Proc : proc[q] \in Process /\ quiet[q] \in BOOLEAN
      /\ left \in [faults : 0 .. MaxFaults, hands : 0 .. MaxHands] /\ settled \in BOOLEAN
  BY DEF TypeOK
<1>2. proc[p].calls # <<>> /\ call.op # "raise" /\ UNCHANGED <<latest, unit>>
  BY DEF Step
<1>3. proc[p].calls \in Seq(Call)
  BY <1>1 DEF Process
<1>4. call \in Call
  BY <1>2, <1>3, AheadOfTail
<1>5. PICK ok \in BOOLEAN :
        /\ \/ ok = Possible(call, podman) /\ UNCHANGED <<left, settled>>
           \/ ~ok /\ Possible(call, podman) /\ Fault
              /\ settled' = (settled /\ call.op \in {"pull", "push", "create", "podcreate"})
        /\ podman' = IF ok THEN After(call, podman) ELSE podman
        /\ proc' = [q \in Proc |->
             LET now == StillAlive(proc[q], podman',
                                   IF ok /\ call.op = "restart" THEN {call.on} ELSE {})
             IN  IF q # p THEN now
                 ELSE [now EXCEPT
                        !.calls = Rest(call, ok, Tail(proc[p].calls)),
                        !.threads = IF call.op = "attach" THEN @ \cup {call.on} ELSE @,
                        !.alive = IF call.op = "attach" /\ ok THEN @ \cup {call.on} ELSE @]]
        /\ quiet' = [q \in Proc |-> quiet[q] /\ q = p /\ (ok \/ ~Possible(call, podman))]
  BY DEF Step
<1> DEFINE rest   == Rest(call, ok, Tail(proc[p].calls))
           gone   == IF ok /\ call.op = "restart" THEN {call.on} ELSE {}
           now(q) == StillAlive(proc[q], podman', gone)
<1> HIDE DEF call
<1>6. rest \in Seq(Call)
  BY <1>2, <1>3, RestFacts DEF call
<1>7. podman' \in PodmanState
  BY <1>1, <1>4, <1>5, AfterFields
<1>8. \A q \in Proc : /\ now(q) \in Process
                      /\ now(q).cmd = proc[q].cmd /\ now(q).calls = proc[q].calls
                      /\ now(q).threads = proc[q].threads /\ now(q).raised = proc[q].raised
                      /\ now(q).alive \subseteq proc[q].alive
                      /\ now(q).alive \subseteq Runs(podman')
  <2> HIDE DEF gone
  <2> SUFFICES ASSUME NEW q \in Proc
               PROVE  /\ now(q) \in Process
                      /\ now(q).cmd = proc[q].cmd /\ now(q).calls = proc[q].calls
                      /\ now(q).threads = proc[q].threads /\ now(q).raised = proc[q].raised
                      /\ now(q).alive \subseteq proc[q].alive
                      /\ now(q).alive \subseteq Runs(podman')
    OBVIOUS
  <2>1. /\ now(q) \in Process
        /\ now(q).cmd = proc[q].cmd /\ now(q).calls = proc[q].calls
        /\ now(q).threads = proc[q].threads /\ now(q).raised = proc[q].raised
        /\ now(q).alive = {n \in proc[q].alive : podman'.cnt[n] = "running"} \ gone
    BY <1>1, StillAliveFacts
  <2>2. proc[q].alive \subseteq Names
    BY <1>1 DEF Process
  <2> QED
    BY <2>1, <2>2 DEF Runs
<1>9. call.op = "attach" =>
        call.on \in Names /\ (ok => podman'.cnt[call.on] = "running")
  BY <1>1, <1>4, <1>5, CallFacts, AfterFields DEF CntOps
<1>10. /\ \A q \in Proc \ {p} : proc'[q] = now(q)
       /\ proc'[p] = [now(p) EXCEPT
            !.calls = rest,
            !.threads = IF call.op = "attach" THEN @ \cup {call.on} ELSE @,
            !.alive = IF call.op = "attach" /\ ok THEN @ \cup {call.on} ELSE @]
       /\ DOMAIN proc' = Proc /\ proc' = [q \in Proc |-> proc'[q]]
  BY <1>5
<1> HIDE DEF now, rest, gone
<1>11. /\ proc'[p] \in Process
       /\ proc'[p].cmd = proc[p].cmd /\ proc'[p].raised = proc[p].raised
       /\ proc'[p].calls = rest
       /\ proc'[p].threads = IF call.op = "attach" THEN proc[p].threads \cup {call.on}
                             ELSE proc[p].threads
       /\ proc'[p].alive = IF call.op = "attach" /\ ok THEN now(p).alive \cup {call.on}
                           ELSE now(p).alive
  <2> DEFINE t == IF call.op = "attach" THEN proc[p].threads \cup {call.on} ELSE proc[p].threads
             l == IF call.op = "attach" /\ ok THEN now(p).alive \cup {call.on} ELSE now(p).alive
  <2>1. /\ now(p) \in Process /\ now(p).cmd = proc[p].cmd /\ now(p).threads = proc[p].threads
        /\ now(p).raised = proc[p].raised
    BY <1>8
  <2>2. t \in SUBSET Names /\ l \in SUBSET Names
    BY <1>9, <2>1 DEF Process
  <2>3. proc'[p] = [now(p) EXCEPT !.calls = rest, !.threads = t, !.alive = l]
    BY <1>10, <2>1
  <2> HIDE DEF t, l
  <2>4. /\ proc'[p] \in Process
        /\ proc'[p].cmd = now(p).cmd /\ proc'[p].raised = now(p).raised
        /\ proc'[p].calls = rest /\ proc'[p].threads = t /\ proc'[p].alive = l
    BY <1>6, <2>1, <2>2, <2>3 DEF Process
  <2> QED
    BY <2>1, <2>4 DEF t, l
<1>12. proc' \in [Proc -> Process]
  BY <1>8, <1>10, <1>11
<1>13. proc'[p].alive \subseteq Runs(podman')
  BY <1>8, <1>9, <1>11 DEF Runs
<1>14. /\ quiet' \in [Proc -> BOOLEAN]
       /\ \A q \in Proc : quiet'[q] => quiet[q] /\ q = p /\ (ok \/ ~Possible(call, podman))
  <2>1. quiet' = [q \in Proc |-> quiet[q] /\ q = p /\ (ok \/ ~Possible(call, podman))]
    BY <1>5
  <2> QED
    BY <2>1
<1>15. left' \in [faults : 0 .. MaxFaults, hands : 0 .. MaxHands]
  BY <1>1, <1>5, LeftFacts DEF Left
<1>16. /\ settled' \in BOOLEAN
       /\ settled' => /\ settled
                      /\ \/ ok \/ ~Possible(call, podman)
                         \/ call.op \in {"pull", "push", "create", "podcreate"}
  <2>1. CASE ok = Possible(call, podman) /\ settled' = settled
    BY <1>1, <2>1
  <2>2. CASE ~ok /\ settled' = (settled /\ call.op \in {"pull", "push", "create", "podcreate"})
    BY <1>1, <2>2
  <2> QED
    BY <1>5, <2>1, <2>2
<1>17. ok => Possible(call, podman)
  BY <1>5
<1>18. \A q \in Proc \ {p} :
         /\ proc'[q].cmd = proc[q].cmd /\ proc'[q].raised = proc[q].raised
         /\ proc'[q].calls = proc[q].calls /\ proc'[q].threads = proc[q].threads
         /\ proc'[q].alive \subseteq Runs(podman')
         /\ proc'[q].alive \subseteq proc[q].alive
  BY <1>8, <1>10
<1>19. \A q \in Proc :
         /\ proc'[q].cmd = proc[q].cmd /\ proc'[q].raised = proc[q].raised
         /\ proc'[q].calls = IF q = p THEN rest ELSE proc[q].calls
         /\ proc'[q].alive \subseteq Runs(podman')
         /\ proc'[q].alive \subseteq
              proc[q].alive \cup IF q = p /\ call.op = "attach" THEN {call.on} ELSE {}
  BY <1>8, <1>11, <1>13, <1>18
<1>20. podman' = IF ok THEN After(call, podman) ELSE podman
  BY <1>5
<1>21. /\ proc'[p].threads \subseteq
            proc[p].threads \cup IF call.op = "attach" THEN {call.on} ELSE {}
       /\ call.op # "attach" => proc'[p].threads = proc[p].threads
  BY <1>11
<1> QED
  BY <1>2, <1>3, <1>4, <1>7, <1>12, <1>14, <1>15, <1>16, <1>17, <1>18, <1>19, <1>20, <1>21
     DEF call, rest

--------------------------------------------------------------------------------
(* Every other step: no call is made, and a container at most exits. *)

Other ==
  \/ \E p \in Proc : RaiseStep(p) \/ Join(p)
  \/ \E a \in Commands : HandBegins(a)
  \/ HandInterrupted
  \/ Unit
  \/ \E n \in Names : Exits(n)
  \/ OneOffEnds
  \/ \E s \in Services : Publish(s)
  \/ Reboot

\* What may become of a process: it goes on or ends, or begins a command.
Goes(q) ==
  \/ /\ proc'[q].cmd = proc[q].cmd
     /\ proc'[q].calls \in {proc[q].calls, <<>>}
     /\ quiet'[q] => quiet[q]
     /\ quiet'[q] /\ q # "main" =>
          \/ proc'[q].calls = proc[q].calls /\ proc'[q].raised = proc[q].raised
          \/ proc'[q].calls = <<>> /\ proc'[q].raised
             /\ proc[q].calls # <<>> /\ Head(proc[q].calls).op = "raise"
  \/ proc'[q] = Idle /\ ~quiet'[q]
  \/ \E a \in Args : /\ proc'[q] = Begun(a, CallsOf(a))
                     /\ q = "main" => a = UnitUp
                     /\ q = "stop" => a = UnitDown
  \/ q = "main" /\ proc'[q] = Begun(UnitPre, PreCalls)

OtherEffect ==
  /\ podman'.pod = podman.pod /\ podman'.made = podman.made /\ podman'.image = podman.image
  /\ \A n \in Names : \/ podman'.cnt[n] = podman.cnt[n]
                      \/ podman.cnt[n] = "running" /\ podman'.cnt[n] = "exited"
  /\ podman'.oneoff = "running" => podman.oneoff = "running"
  /\ (\E q \in Proc : quiet'[q]) => podman'.cnt = podman.cnt /\ podman'.oneoff = podman.oneoff
  /\ \A q \in Proc : /\ Goes(q)
                     /\ proc'[q].alive \subseteq proc[q].alive
                     /\ proc[q].alive \subseteq Runs(podman) =>
                          proc'[q].alive \subseteq Runs(podman')

\* Containers that exit.
LEMMA GoneFacts ==
  ASSUME podman \in PodmanState, NEW gone \in SUBSET Runs(podman),
         podman' = [podman EXCEPT !.cnt = [n \in Names |-> IF n \in gone THEN "exited" ELSE @[n]]]
  PROVE  /\ podman' \in PodmanState
         /\ podman'.pod = podman.pod /\ podman'.made = podman.made
         /\ podman'.image = podman.image /\ podman'.oneoff = podman.oneoff
         /\ \A n \in Names : podman'.cnt[n] = IF n \in gone THEN "exited" ELSE podman.cnt[n]
         /\ \A n \in Names : \/ podman'.cnt[n] = podman.cnt[n]
                             \/ podman.cnt[n] = "running" /\ podman'.cnt[n] = "exited"
         /\ gone = {} => podman'.cnt = podman.cnt
<1> DEFINE cnt == [n \in Names |-> IF n \in gone THEN "exited" ELSE podman.cnt[n]]
<1>1. /\ podman \in [pod : BOOLEAN, cnt : [Names -> CntState], made : [Names -> Version],
                     image : [Services -> Version], oneoff : {"none", "running", "exited"}]
      /\ podman.cnt \in [Names -> CntState] /\ "exited" \in CntState
  BY DEF PodmanState, CntState
<1>2. podman' = [podman EXCEPT !.cnt = cnt]
  OBVIOUS
<1>3. cnt \in [Names -> CntState]
  BY <1>1
<1>4. \A n \in Names : cnt[n] = IF n \in gone THEN "exited" ELSE podman.cnt[n]
  OBVIOUS
<1>5. gone = {} => cnt = podman.cnt
  BY <1>1
<1> HIDE DEF cnt
<1>6. /\ podman' \in PodmanState /\ podman'.cnt = cnt
      /\ podman'.pod = podman.pod /\ podman'.made = podman.made
      /\ podman'.image = podman.image /\ podman'.oneoff = podman.oneoff
  BY <1>1, <1>2, <1>3 DEF PodmanState
<1>7. \A n \in gone : podman.cnt[n] = "running"
  BY DEF Runs
<1> QED
  BY <1>4, <1>5, <1>6, <1>7

LEMMA OtherSteps ==
  ASSUME TypeOK, Other
  PROVE  TypeOK' /\ OtherEffect
<1>1. /\ podman \in PodmanState /\ latest \in [Services -> 1 .. LastVersion]
      /\ proc \in [Proc -> Process] /\ quiet \in [Proc -> BOOLEAN]
      /\ left \in Left /\ settled \in BOOLEAN
      /\ unit \in {"inactive", "start", "pre", "up", "stopping", "failing"}
      /\ \A q \in Proc : /\ proc[q] \in Process /\ quiet[q] \in BOOLEAN
                         /\ proc[q].calls \in Seq(Call) /\ proc[q].cmd \in Args \cup {NoCommand, UnitPre}
                         /\ proc[q].threads \in SUBSET Names /\ proc[q].alive \in SUBSET Names
      /\ <<>> \in Seq(Call) /\ {} \in SUBSET Names
  BY EmptySeq DEF TypeOK, Process, Left
<1>2. Proc = {"main", "stop", "hand"}
  BY DEF Proc
<1>3. ASSUME NEW p \in Proc, RaiseStep(p) PROVE TypeOK' /\ OtherEffect
  <2>1. /\ proc' = [proc EXCEPT ![p].calls = <<>>, ![p].raised = TRUE]
        /\ UNCHANGED <<podman, latest, unit, left, quiet, settled>>
        /\ proc[p].calls # <<>> /\ Head(proc[p].calls).op = "raise"
    BY <1>3 DEF RaiseStep
  <2>2. /\ \A q \in Proc \ {p} : proc'[q] = proc[q]
        /\ proc'[p] = [proc[p] EXCEPT !.calls = <<>>, !.raised = TRUE]
        /\ DOMAIN proc' = Proc /\ proc' = [q \in Proc |-> proc'[q]]
    BY <1>1, <2>1
  <2>3. /\ proc'[p] \in Process /\ proc'[p].cmd = proc[p].cmd /\ proc'[p].calls = <<>>
        /\ proc'[p].alive = proc[p].alive /\ proc'[p].raised = TRUE
    <3> DEFINE empty == <<>>
    <3>1. proc'[p] = [proc[p] EXCEPT !.calls = empty, !.raised = TRUE]
      BY <2>2
    <3>2. empty \in Seq(Call)
      BY <1>1
    <3> HIDE DEF empty
    <3>3. /\ proc'[p] \in Process /\ proc'[p].cmd = proc[p].cmd /\ proc'[p].calls = empty
          /\ proc'[p].alive = proc[p].alive /\ proc'[p].raised = TRUE
      BY <1>1, <3>1, <3>2 DEF Process
    <3> QED
      BY <3>3 DEF empty
  <2>4. proc' \in [Proc -> Process]
    BY <1>1, <2>2, <2>3
  <2>5. TypeOK'
    BY <1>1, <2>1, <2>4 DEF TypeOK, Left
  <2>6. OtherEffect
    BY <1>1, <2>1, <2>2, <2>3 DEF OtherEffect, Goes
  <2> QED
    BY <2>5, <2>6
<1>4. ASSUME NEW p \in Proc, Join(p) PROVE TypeOK' /\ OtherEffect
  <2>1. PICK n \in proc[p].threads \ proc[p].alive :
          proc' = [proc EXCEPT ![p].threads = IF Aborts(proc[p].cmd) THEN {} ELSE @ \ {n}]
    BY <1>4 DEF Join
  <2>2. UNCHANGED <<podman, latest, unit, left, quiet, settled>>
    BY <1>4 DEF Join
  <2> DEFINE t == IF Aborts(proc[p].cmd) THEN {} ELSE proc[p].threads \ {n}
  <2>3. /\ \A q \in Proc \ {p} : proc'[q] = proc[q]
        /\ proc'[p] = [proc[p] EXCEPT !.threads = t]
        /\ DOMAIN proc' = Proc /\ proc' = [q \in Proc |-> proc'[q]]
    BY <1>1, <2>1
  <2>4. t \in SUBSET Names
    BY <1>1
  <2> HIDE DEF t
  <2>5. /\ proc'[p] \in Process /\ proc'[p].cmd = proc[p].cmd /\ proc'[p].calls = proc[p].calls
        /\ proc'[p].alive = proc[p].alive /\ proc'[p].raised = proc[p].raised
    BY <1>1, <2>3, <2>4 DEF Process
  <2>6. proc' \in [Proc -> Process]
    BY <1>1, <2>3, <2>5
  <2>7. TypeOK'
    BY <1>1, <2>2, <2>6 DEF TypeOK, Left
  <2>8. OtherEffect
    BY <1>1, <2>2, <2>3, <2>5 DEF OtherEffect, Goes
  <2> QED
    BY <2>7, <2>8
<1>5. ASSUME NEW a \in Commands, HandBegins(a) PROVE TypeOK' /\ OtherEffect
  <2>1. /\ left.hands > 0 /\ left' = [left EXCEPT !.hands = @ - 1]
        /\ proc' = [proc EXCEPT !["hand"] = Begun(a, CallsOf(a))]
        /\ quiet' = [quiet EXCEPT !["hand"] = TRUE]
        /\ settled' = FALSE /\ UNCHANGED <<podman, latest, unit>>
    BY <1>5 DEF HandBegins
  <2>2. a \in Args
    BY CommandsAssumption
  <2>3. /\ Begun(a, CallsOf(a)) \in Process /\ Begun(a, CallsOf(a)).alive = {}
    BY <2>2, CallsOfFit, BegunFacts
  <2>4. /\ \A q \in Proc \ {"hand"} : proc'[q] = proc[q] /\ quiet'[q] = quiet[q]
        /\ proc'["hand"] = Begun(a, CallsOf(a))
        /\ proc' \in [Proc -> Process] /\ quiet' \in [Proc -> BOOLEAN]
    BY <1>1, <1>2, <2>1, <2>3
  <2>5. TypeOK'
    BY <1>1, <2>1, <2>4, LeftFacts DEF TypeOK, Left
  <2>6. OtherEffect
    BY <1>1, <2>1, <2>2, <2>3, <2>4 DEF OtherEffect, Goes
  <2> QED
    BY <2>5, <2>6
<1>6. CASE HandInterrupted
  <2>1. Fault /\ UNCHANGED <<latest, unit, settled>>
    BY <1>6 DEF HandInterrupted
  <2>2. PICK gone \in SUBSET (proc["hand"].alive \cap Runs(podman)) : Killed("hand", gone)
    BY <1>6 DEF HandInterrupted
  <2>3. /\ podman' \in PodmanState
        /\ podman'.pod = podman.pod /\ podman'.made = podman.made
        /\ podman'.image = podman.image /\ podman'.oneoff = podman.oneoff
        /\ \A n \in Names : \/ podman'.cnt[n] = podman.cnt[n]
                            \/ podman.cnt[n] = "running" /\ podman'.cnt[n] = "exited"
    BY <1>1, <2>2, GoneFacts DEF Killed
  <2> DEFINE now(q) == StillAlive(proc[q], podman', {})
  <2>4. \A q \in Proc : /\ now(q) \in Process /\ now(q).cmd = proc[q].cmd
                        /\ now(q).calls = proc[q].calls
                        /\ now(q).alive = {n \in proc[q].alive : podman'.cnt[n] = "running"} \ {}
    BY <1>1, StillAliveFacts
  <2>5. /\ \A q \in {"main", "stop"} : proc'[q] = [now(q) EXCEPT !.calls = @, !.threads = @, !.alive = @]
        /\ proc'["hand"] = [now("hand") EXCEPT !.calls = <<>>, !.threads = {}, !.alive = {}]
        /\ DOMAIN proc' = Proc /\ proc' = [q \in Proc |-> proc'[q]]
        /\ quiet' = [q \in Proc |-> FALSE]
    BY <1>2, <2>2 DEF Killed
  <2> HIDE DEF now
  <2>6. \A q \in {"main", "stop"} : proc'[q] = now(q)
    BY <1>2, <2>4, <2>5 DEF Process
  <2>7. /\ proc'["hand"] \in Process /\ proc'["hand"].cmd = proc["hand"].cmd
        /\ proc'["hand"].calls = <<>> /\ proc'["hand"].alive = {}
    <3>1. proc'["hand"] = Ended(now("hand"))
      BY <2>5 DEF Ended
    <3> QED
      BY <1>2, <2>4, <3>1, EndedFacts
  <2>8. proc' \in [Proc -> Process]
    BY <1>2, <2>4, <2>5, <2>6, <2>7
  <2>9. TypeOK'
    BY <1>1, <2>1, <2>3, <2>5, <2>8, LeftFacts DEF TypeOK, Left
  <2>10. \A q \in Proc : proc'[q].alive \subseteq proc[q].alive /\ proc'[q].alive \subseteq Runs(podman')
    BY <1>1, <1>2, <2>4, <2>6, <2>7 DEF Runs
  <2>11. \A q \in Proc : ~quiet'[q] /\ Goes(q)
    <3>1. \A q \in Proc : ~quiet'[q]
      BY <2>5
    <3>2. \A q \in Proc : proc'[q].cmd = proc[q].cmd /\ proc'[q].calls \in {proc[q].calls, <<>>}
      BY <1>2, <2>4, <2>6, <2>7
    <3> QED
      BY <3>1, <3>2 DEF Goes
  <2> QED
    BY <2>3, <2>9, <2>10, <2>11 DEF OtherEffect
<1>7. CASE Unit
  <2>1. CASE StartUnit
    <3>1. unit' = "start" /\ UNCHANGED <<podman, latest, proc, left, quiet, settled>>
      BY <2>1 DEF StartUnit
    <3>2. TypeOK'
      BY <1>1, <3>1 DEF TypeOK, Left
    <3>3. OtherEffect
      BY <1>1, <3>1 DEF OtherEffect, Goes
    <3> QED
      BY <3>2, <3>3
  <2>2. CASE BeginPre
    <3>1. /\ unit' = "pre" /\ UNCHANGED <<podman, latest, left, quiet, settled>>
          /\ proc' = [proc EXCEPT !["main"] = Begun(UnitPre, PreCalls)]
      BY <2>2 DEF BeginPre, PreCalls
    <3>2. Begun(UnitPre, PreCalls) \in Process /\ Begun(UnitPre, PreCalls).alive = {}
      BY PreLists, BegunFacts
    <3>3. /\ proc'["main"] = Begun(UnitPre, PreCalls) /\ proc' \in [Proc -> Process]
          /\ \A q \in Proc \ {"main"} : proc'[q] = proc[q]
      BY <1>1, <1>2, <3>1, <3>2
    <3>4. TypeOK'
      BY <1>1, <3>1, <3>3 DEF TypeOK, Left
    <3>5. OtherEffect
      BY <1>1, <3>1, <3>2, <3>3 DEF OtherEffect, Goes
    <3> QED
      BY <3>4, <3>5
  <2>3. CASE BeginUp
    <3>1. /\ unit' = "up" /\ UNCHANGED <<podman, latest, left, quiet, settled>>
          /\ proc' = [proc EXCEPT !["main"] = Begun(UnitUp, UnitUpCalls)]
      BY <2>3 DEF BeginUp
    <3>2. Begun(UnitUp, UnitUpCalls) \in Process /\ Begun(UnitUp, UnitUpCalls).alive = {}
      BY UnitCommands, BegunFacts
    <3>3. /\ proc'["main"] = Begun(UnitUp, CallsOf(UnitUp)) /\ proc' \in [Proc -> Process]
          /\ \A q \in Proc \ {"main"} : proc'[q] = proc[q]
          /\ proc'["main"].alive = {}
      BY <1>1, <1>2, <3>1, <3>2, UnitCommands
    <3>4. TypeOK'
      BY <1>1, <3>1, <3>3 DEF TypeOK, Left
    <3>5. OtherEffect
      <4>1. Goes("main")
        BY <3>3, UnitCommands DEF Goes
      <4>2. \A q \in Proc \ {"main"} : Goes(q)
        BY <1>1, <3>1, <3>3 DEF Goes
      <4> QED
        BY <1>1, <3>1, <3>3, <4>1, <4>2 DEF OtherEffect
    <3> QED
      BY <3>4, <3>5
  <2>4. CASE UpEnds \/ StopUnit
    <3>1. /\ unit' \in {"failing", "stopping"} /\ UNCHANGED <<podman, latest>>
          /\ proc' = [proc EXCEPT !["stop"] = Begun(UnitDown, UnitDownCalls)]
          /\ quiet' = [quiet EXCEPT !["stop"] = TRUE]
          /\ left' \in Left /\ settled' \in BOOLEAN
      BY <1>1, <2>4, LeftFacts DEF UpEnds, StopUnit, BeginStop
    <3>2. Begun(UnitDown, UnitDownCalls) \in Process /\ Begun(UnitDown, UnitDownCalls).alive = {}
      BY UnitCommands, BegunFacts
    <3>3. /\ proc'["stop"] = Begun(UnitDown, CallsOf(UnitDown)) /\ proc' \in [Proc -> Process]
          /\ \A q \in Proc \ {"stop"} : proc'[q] = proc[q] /\ quiet'[q] = quiet[q]
          /\ proc'["stop"].alive = {} /\ quiet' \in [Proc -> BOOLEAN]
      BY <1>1, <1>2, <3>1, <3>2, UnitCommands
    <3>4. TypeOK'
      BY <1>1, <3>1, <3>3 DEF TypeOK, Left
    <3>5. OtherEffect
      <4>1. Goes("stop")
        BY <3>3, UnitCommands DEF Goes
      <4>2. \A q \in Proc \ {"stop"} : Goes(q)
        BY <1>1, <3>1, <3>3 DEF Goes
      <4> QED
        BY <1>1, <3>1, <3>3, <4>1, <4>2 DEF OtherEffect
    <3> QED
      BY <3>4, <3>5
  <2>5. CASE UpKilled
    <3>1. /\ unit' = "failing" /\ UNCHANGED <<podman, latest, settled>>
          /\ proc' = [proc EXCEPT !["stop"] = Begun(UnitDown, UnitDownCalls),
                                  !["main"].calls = <<>>, !["main"].threads = {}]
          /\ quiet' = [quiet EXCEPT !["stop"] = TRUE]
          /\ left' \in Left
      BY <1>1, <2>5, LeftFacts DEF UpKilled
    <3>2. Begun(UnitDown, UnitDownCalls) \in Process /\ Begun(UnitDown, UnitDownCalls).alive = {}
      BY UnitCommands, BegunFacts
    <3>3. /\ proc'["stop"] = Begun(UnitDown, CallsOf(UnitDown)) /\ proc'["stop"].alive = {}
          /\ proc'["hand"] = proc["hand"]
          /\ proc'["main"] = [proc["main"] EXCEPT !.calls = <<>>, !.threads = {}]
          /\ \A q \in Proc \ {"stop"} : quiet'[q] = quiet[q]
          /\ DOMAIN proc' = Proc /\ proc' = [q \in Proc |-> proc'[q]]
          /\ quiet' \in [Proc -> BOOLEAN]
      BY <1>1, <1>2, <3>1, <3>2, UnitCommands
    <3>4. /\ proc'["main"] \in Process /\ proc'["main"].cmd = proc["main"].cmd
          /\ proc'["main"].calls = <<>> /\ proc'["main"].alive = proc["main"].alive
      <4> DEFINE c == <<>>
                 t == {}
                 l == proc["main"].alive
      <4>1. /\ c \in Seq(Call) /\ t \in SUBSET Names /\ l \in SUBSET Names
            /\ proc["main"] \in Process
        BY <1>1, <1>2
      <4>2. proc'["main"] = Changed(proc["main"], c, t, l)
        BY <3>3, <4>1 DEF Process, Changed
      <4> HIDE DEF c, t, l
      <4>3. /\ proc'["main"] \in Process /\ proc'["main"].cmd = proc["main"].cmd
            /\ proc'["main"].calls = c /\ proc'["main"].alive = l
        BY <4>1, <4>2, ChangedFacts
      <4> QED
        BY <4>3 DEF c, l
    <3>5. proc' \in [Proc -> Process]
      BY <1>1, <1>2, <3>2, <3>3, <3>4, UnitCommands
    <3>6. TypeOK'
      BY <1>1, <3>1, <3>3, <3>5 DEF TypeOK, Left
    <3>7. OtherEffect
      <4>1. Goes("stop")
        BY <3>3, UnitCommands DEF Goes
      <4>2. Goes("hand") /\ Goes("main")
        BY <1>1, <1>2, <3>3, <3>4 DEF Goes
      <4> QED
        BY <1>1, <1>2, <3>1, <3>3, <3>4, <4>1, <4>2 DEF OtherEffect
    <3> QED
      BY <3>6, <3>7
  <2>6. CASE StopEnds
    <3>1. /\ unit \in {"stopping", "failing"} /\ UNCHANGED latest
          /\ unit' = IF unit = "stopping" THEN "inactive" ELSE "start"
          /\ left' \in Left /\ settled' \in BOOLEAN
      <4>1. \/ Done("stop") /\ UNCHANGED <<left, settled>>
            \/ ~Done("stop") /\ Fault /\ settled' = FALSE
        BY <2>6 DEF StopEnds
      <4>2. left' \in Left
        BY <1>1, <4>1, LeftFacts
      <4>3. settled' \in BOOLEAN
        BY <1>1, <4>1
      <4> QED
        BY <2>6, <4>2, <4>3 DEF StopEnds
    <3> DEFINE now(q) == StillAlive(proc[q], podman', {})
    <3>2. PICK gone \in SUBSET (proc["main"].alive \cap Runs(podman)) :
            /\ podman' = [podman EXCEPT
                 !.cnt = [n \in Names |-> IF n \in gone THEN "exited" ELSE @[n]]]
            /\ proc' = [p \in Proc |->
                 CASE p = "main" -> [now(p) EXCEPT !.calls = <<>>, !.threads = {}, !.alive = {}]
                   [] p = "stop" -> [now(p) EXCEPT !.calls = <<>>]
                   [] OTHER      -> now(p)]
            /\ quiet' = [p \in Proc |-> quiet[p] /\ gone = {} /\ Done(p)]
      BY <2>6 DEF StopEnds
    <3>3. /\ podman' \in PodmanState
          /\ podman'.pod = podman.pod /\ podman'.made = podman.made
          /\ podman'.image = podman.image /\ podman'.oneoff = podman.oneoff
          /\ \A n \in Names : \/ podman'.cnt[n] = podman.cnt[n]
                              \/ podman.cnt[n] = "running" /\ podman'.cnt[n] = "exited"
          /\ gone = {} => podman'.cnt = podman.cnt
      <4>1. gone \in SUBSET Runs(podman)
        OBVIOUS
      <4> QED
        BY <1>1, <3>2, <4>1, GoneFacts
    <3>4. \A q \in Proc : /\ now(q) \in Process /\ now(q).cmd = proc[q].cmd
                          /\ now(q).calls = proc[q].calls /\ now(q).raised = proc[q].raised
                          /\ now(q).alive = {n \in proc[q].alive : podman'.cnt[n] = "running"} \ {}
      BY <1>1, StillAliveFacts
    <3>5. \A q \in Proc : now(q).alive \subseteq proc[q].alive /\ now(q).alive \subseteq Runs(podman')
      BY <1>1, <3>4 DEF Runs
    <3> HIDE DEF now
    <3>6. /\ proc'["hand"] = now("hand")
          /\ proc'["stop"] = [now("stop") EXCEPT !.calls = <<>>]
          /\ proc'["main"] = [now("main") EXCEPT !.calls = <<>>, !.threads = {}, !.alive = {}]
          /\ DOMAIN proc' = Proc /\ proc' = [q \in Proc |-> proc'[q]]
      BY <1>2, <3>2
    <3>7. /\ quiet' \in [Proc -> BOOLEAN]
          /\ \A q \in Proc : quiet'[q] => quiet[q] /\ gone = {} /\ proc[q].calls = <<>>
      <4>1. quiet' = [p \in Proc |-> quiet[p] /\ gone = {} /\ Done(p)]
        BY <3>2
      <4>2. \A q \in Proc : quiet'[q] => quiet[q] /\ gone = {} /\ Done(q)
        BY <4>1
      <4>3. quiet' \in [Proc -> BOOLEAN]
        BY <4>1
      <4> QED
        BY <4>2, <4>3 DEF Done
    <3>8. /\ proc'["main"] \in Process /\ proc'["main"].cmd = proc["main"].cmd
          /\ proc'["main"].calls = <<>> /\ proc'["main"].alive = {}
      <4>1. proc'["main"] = Ended(now("main"))
        BY <3>6 DEF Ended
      <4> QED
        BY <1>2, <3>4, <4>1, EndedFacts
    <3>9. /\ proc'["stop"] \in Process /\ proc'["stop"].cmd = proc["stop"].cmd
          /\ proc'["stop"].calls = <<>> /\ proc'["stop"].alive = now("stop").alive
          /\ proc'["stop"].raised = proc["stop"].raised
      <4> DEFINE c == <<>>
      <4>1. c \in Seq(Call)
        BY <1>1
      <4>2. proc'["stop"] = [now("stop") EXCEPT !.calls = c]
        BY <3>6
      <4> HIDE DEF c
      <4>3. /\ proc'["stop"] \in Process /\ proc'["stop"].cmd = now("stop").cmd
            /\ proc'["stop"].calls = c /\ proc'["stop"].alive = now("stop").alive
            /\ proc'["stop"].raised = now("stop").raised
        BY <1>2, <3>4, <4>1, <4>2 DEF Process
      <4> QED
        BY <1>2, <3>4, <4>3 DEF c
    <3>10. proc' \in [Proc -> Process]
      BY <1>2, <3>4, <3>6, <3>8, <3>9
    <3>11. TypeOK'
      BY <1>1, <3>1, <3>3, <3>7, <3>10 DEF TypeOK, Left
    <3>12. \A q \in Proc : /\ proc'[q].alive \subseteq proc[q].alive
                           /\ proc'[q].alive \subseteq Runs(podman')
      BY <1>2, <3>5, <3>6, <3>8, <3>9
    <3>13. \A q \in Proc : Goes(q)
      <4>1. \A q \in Proc : /\ proc'[q].cmd = proc[q].cmd
                            /\ proc'[q].calls = proc[q].calls \/ proc'[q].calls = <<>>
        <5>1. proc'["hand"].cmd = proc["hand"].cmd /\ proc'["hand"].calls = proc["hand"].calls
          BY <1>2, <3>4, <3>6
        <5> QED
          BY <1>2, <3>8, <3>9, <5>1
      <4>2. \A q \in Proc : quiet'[q] => quiet[q] /\ proc'[q].calls = proc[q].calls
        BY <3>7, <4>1
      <4>3. \A q \in Proc : q # "main" => proc'[q].raised = proc[q].raised
        <5>1. proc'["hand"].raised = proc["hand"].raised
          BY <1>2, <3>4, <3>6
        <5> QED
          BY <1>2, <3>9, <5>1
      <4> QED
        BY <4>1, <4>2, <4>3 DEF Goes
    <3> QED
      BY <3>3, <3>7, <3>11, <3>12, <3>13 DEF OtherEffect
  <2> QED
    BY <1>7, <2>1, <2>2, <2>3, <2>4, <2>5, <2>6 DEF Unit
<1>8. ASSUME NEW n \in Names, Exits(n) PROVE TypeOK' /\ OtherEffect
  <2>1. /\ podman.cnt[n] = "running" /\ Fault
        /\ podman' = [podman EXCEPT !.cnt[n] = "exited"]
        /\ proc' = [p \in Proc |-> StillAlive(proc[p], podman', {})]
        /\ quiet' = [p \in Proc |-> FALSE]
        /\ UNCHANGED <<latest, unit, settled>>
    BY <1>8 DEF Exits
  <2>2. /\ podman' \in PodmanState
        /\ podman'.pod = podman.pod /\ podman'.made = podman.made
        /\ podman'.image = podman.image /\ podman'.oneoff = podman.oneoff
        /\ \A c \in Names : podman'.cnt[c] = IF c = n THEN "exited" ELSE podman.cnt[c]
    BY <1>1, <2>1 DEF PodmanState, CntState
  <2> DEFINE now(q) == StillAlive(proc[q], podman', {})
  <2>3. \A q \in Proc : /\ now(q) \in Process /\ now(q).cmd = proc[q].cmd
                        /\ now(q).calls = proc[q].calls
                        /\ now(q).alive = {c \in proc[q].alive : podman'.cnt[c] = "running"} \ {}
    BY <1>1, StillAliveFacts
  <2>4. \A q \in Proc : now(q).alive \subseteq proc[q].alive /\ now(q).alive \subseteq Runs(podman')
    BY <1>1, <2>3 DEF Runs
  <2>5. proc' = [q \in Proc |-> now(q)]
    BY <2>1
  <2> HIDE DEF now
  <2>6. proc' \in [Proc -> Process] /\ \A q \in Proc : proc'[q] = now(q)
    BY <2>3, <2>5
  <2>7. \A q \in Proc : ~quiet'[q]
    BY <2>1
  <2>8. TypeOK'
    BY <1>1, <2>1, <2>2, <2>6, LeftFacts DEF TypeOK, Left
  <2>9. \A q \in Proc : Goes(q)
    BY <2>3, <2>6, <2>7 DEF Goes
  <2> QED
    BY <2>1, <2>2, <2>4, <2>6, <2>7, <2>8, <2>9 DEF OtherEffect
<1>9. CASE OneOffEnds
  <2>1. PICK how \in {"none", "exited"} : podman' = [podman EXCEPT !.oneoff = how]
    BY <1>9 DEF OneOffEnds
  <2>2. quiet' = [p \in Proc |-> FALSE] /\ UNCHANGED <<latest, proc, unit, left, settled>>
    BY <1>9 DEF OneOffEnds
  <2>3. /\ podman' \in PodmanState /\ podman'.oneoff # "running"
        /\ podman'.pod = podman.pod /\ podman'.made = podman.made
        /\ podman'.image = podman.image /\ podman'.cnt = podman.cnt
    BY <1>1, <2>1 DEF PodmanState
  <2>4. \A q \in Proc : ~quiet'[q]
    BY <2>2
  <2>5. TypeOK'
    BY <1>1, <2>2, <2>3 DEF TypeOK, Left
  <2>6. \A q \in Proc : Goes(q)
    BY <2>2, <2>4 DEF Goes
  <2>7. \A q \in Proc : proc[q].alive \subseteq Runs(podman) => proc[q].alive \subseteq Runs(podman')
    BY <2>3 DEF Runs
  <2> QED
    BY <2>2, <2>3, <2>4, <2>5, <2>6, <2>7 DEF OtherEffect
<1>10. ASSUME NEW s \in Services, Publish(s) PROVE TypeOK' /\ OtherEffect
  <2>1. /\ latest[s] < LastVersion /\ latest' = [latest EXCEPT ![s] = @ + 1]
        /\ UNCHANGED <<podman, proc, unit, left, quiet, settled>>
    BY <1>10 DEF Publish
  <2>2. latest[s] \in 1 .. LastVersion /\ LastVersion \in Nat
    BY <1>1, SettingsAssumption
  <2>3. latest[s] + 1 \in 1 .. LastVersion
    BY <2>1, <2>2
  <2>4. latest' \in [Services -> 1 .. LastVersion]
    BY <1>1, <2>1, <2>3
  <2>5. TypeOK'
    BY <1>1, <2>1, <2>4 DEF TypeOK, Left
  <2>6. OtherEffect
    BY <1>1, <2>1 DEF OtherEffect, Goes
  <2> QED
    BY <2>5, <2>6
<1>11. CASE Reboot
  <2> DEFINE cnt    == [n \in Names |-> IF podman.cnt[n] = "running" THEN "exited"
                                        ELSE podman.cnt[n]]
             oneoff == IF podman.oneoff = "running" THEN "exited" ELSE podman.oneoff
  <2>1. /\ podman' = [podman EXCEPT !.cnt = cnt, !.oneoff = oneoff]
        /\ proc' = [p \in Proc |-> Idle] /\ quiet' = [p \in Proc |-> FALSE]
        /\ Fault /\ unit' = "start" /\ settled' = TRUE /\ UNCHANGED latest
    BY <1>11 DEF Reboot
  <2>2. /\ cnt \in [Names -> CntState] /\ oneoff \in {"none", "running", "exited"}
        /\ oneoff # "running"
        /\ \A n \in Names : \/ cnt[n] = podman.cnt[n]
                            \/ podman.cnt[n] = "running" /\ cnt[n] = "exited"
    BY <1>1 DEF PodmanState, CntState
  <2> HIDE DEF cnt, oneoff
  <2>3. /\ podman' \in PodmanState /\ podman'.oneoff = oneoff /\ podman'.cnt = cnt
        /\ podman'.pod = podman.pod /\ podman'.made = podman.made
        /\ podman'.image = podman.image
    BY <1>1, <2>1, <2>2 DEF PodmanState
  <2>4. \A q \in Proc : ~quiet'[q] /\ proc'[q] = Idle
    BY <2>1
  <2>5. proc' \in [Proc -> Process] /\ quiet' \in [Proc -> BOOLEAN]
    BY <2>1, IdleFacts
  <2>6. TypeOK'
    BY <1>1, <2>1, <2>3, <2>5, LeftFacts DEF TypeOK, Left
  <2>7. \A q \in Proc : Goes(q) /\ proc'[q].alive = {}
    BY <2>4, IdleFacts DEF Goes
  <2> QED
    BY <2>2, <2>3, <2>4, <2>6, <2>7 DEF OtherEffect
<1> QED
  BY <1>3, <1>4, <1>5, <1>6, <1>7, <1>8, <1>9, <1>10, <1>11 DEF Other


--------------------------------------------------------------------------------
(* The invariant. *)

\* The calls that are left are in turn and such as the command may make.
CallsInv ==
  \A p \in Proc : /\ InTurn(proc[p].calls)
                  /\ \A c \in Ahead(proc[p].calls) : May(proc[p].cmd, c)

\* A thread of up waits only for a container that runs, and only for one the
\* command is for.
AliveInv ==
  /\ \A p \in Proc : proc[p].alive \subseteq Runs(podman)
  /\ proc["hand"].cmd.cmd \in {"up", "down", "start", "stop", "restart"} =>
       \A n \in proc["hand"].alive : ServiceOf(n) \notin Excluded(proc["hand"].cmd.services)

\* With a pod there is no container outside it.
PodInv == HasPod /\ ~podman.pod => \A n \in Names : podman.cnt[n] = "none"

\* Which commands of the service are under way.
UnitInv ==
  /\ unit \in {"inactive", "start", "failing"} => proc["main"].calls = <<>>
  /\ unit = "pre" => proc["main"].cmd = UnitPre
  /\ unit = "up"  => proc["main"].cmd = UnitUp
  /\ unit \notin {"stopping", "failing"} => proc["stop"].calls = <<>>
  /\ unit \in {"stopping", "failing"} => proc["stop"].cmd = UnitDown
  /\ proc["stop"].cmd \in {NoCommand, UnitDown}

\* What a full down has not done yet it will still do.
DownOf(p) ==
  /\ proc[p].cmd.cmd = "down" /\ Excluded(proc[p].cmd.services) = {} /\ quiet[p]
  => /\ \A n \in Names :
          /\ podman.cnt[n] = "running" => CallOn("stop", Desc(n)) \in Ahead(proc[p].calls)
          /\ podman.cnt[n] # "none"    => CallOn("rm", Desc(n)) \in Ahead(proc[p].calls)
     /\ podman.pod /\ HasPod => podman.oneoff = "running" \/ PodRm \in Ahead(proc[p].calls)

DownInv == DownOf("stop") /\ DownOf("hand")

\* With ephemeral and a pod the service starts from nothing: what runs when it
\* ends is still to be stopped, what is left is still to be removed, and a
\* container made since is made from the image that is stored.
SettledInv ==
  settled /\ Ephemeral /\ HasPod =>
    /\ proc["hand"].calls = <<>> /\ podman.oneoff # "running"
    /\ unit \in {"inactive", "start", "pre"} => Runs(podman) = {}
    /\ unit = "stopping" => proc["main"].calls = <<>>
    /\ unit \in {"stopping", "failing"} =>
         \A n \in Runs(podman) : CallOn("stop", Desc(n)) \in Ahead(proc["stop"].calls)
    /\ unit = "pre" => \/ PodRm \in Ahead(proc["main"].calls)
                       \/ \A n \in Names : podman.cnt[n] = "none"
    /\ unit = "up" => \A n \in Names : podman.cnt[n] # "none" =>
         podman.made[n] # 0 /\ podman.made[n] = podman.image[ServiceOf(n)]

\* The containers that a command is to leave running.
Wanted(a) ==
  IF a.cmd = "up"
  THEN {n \in Names : a.detach /\ ~a.no_start /\ ServiceOf(n) \notin Excluded(a.services)}
  ELSE IF a.cmd = "run"
       THEN {n \in Names : ~a.no_deps /\ ServiceOf(n) \in Firsts(a.services)[1].needs}
       ELSE {}

\* What it is to leave running runs, or is still to be started; a container that
\* could not be run is there to be started, or cannot be made.
PodReady(s) ==
  HasPod => PodCreate \in s \/ (podman.pod /\ \A c \in s : 5 <= Stage(c.op))

WillRun(n, s) ==
  \/ Raise \in s \/ CallOn("run", Desc(n)) \in s \/ CallOn("start", Desc(n)) \in s
  \/ (podman.cnt[n] = "running" \/ Lacks(n)) /\ \A c \in s : 6 <= Stage(c.op)

CanStart(n, s) ==
  CallOn("start", Desc(n)) \in s =>
    (podman.cnt[n] # "none" \/ Lacks(n)) /\ \A c \in s : 6 <= Stage(c.op)

StartsInv ==
  LET h == proc["hand"] IN
  quiet["hand"] =>
    /\ h.raised => h.calls = <<>>
    /\ ~h.raised => \A n \in Wanted(h.cmd) : /\ PodReady(Ahead(h.calls))
                                             /\ WillRun(n, Ahead(h.calls))
                                             /\ CanStart(n, Ahead(h.calls))

ServiceInv ==
  /\ TypeOK /\ CallsInv /\ AliveInv /\ PodInv /\ UnitInv
  /\ DownInv /\ SettledInv /\ StartsInv

--------------------------------------------------------------------------------
(* The parts of the invariant, one at a time. *)

LEMMA NextIsStepOrOther == Next <=> (\E p \in Proc : Step(p)) \/ Other
BY DEF Next, Other

LEMMA TypeStep ==
  ASSUME TypeOK, [Next]_vars
  PROVE  TypeOK'
<1>1. ASSUME NEW p \in Proc, Step(p) PROVE TypeOK'
  <2>1. /\ podman' \in PodmanState /\ proc' \in [Proc -> Process]
        /\ quiet' \in [Proc -> BOOLEAN] /\ settled' \in BOOLEAN
        /\ left' \in [faults : 0 .. MaxFaults, hands : 0 .. MaxHands]
        /\ UNCHANGED <<latest, unit>>
    BY <1>1, StepEffect
  <2> QED
    BY <2>1 DEF TypeOK
<1>2. CASE UNCHANGED vars
  BY <1>2 DEF TypeOK, vars
<1> QED
  BY <1>1, <1>2, NextIsStepOrOther, OtherSteps

LEMMA CallsStep ==
  ASSUME TypeOK, CallsInv, [Next]_vars
  PROVE  CallsInv'
<1>1. ASSUME NEW p \in Proc, Step(p) PROVE CallsInv'
  <2> DEFINE call  == Head(proc[p].calls)
             start == [op |-> "start", on |-> call.on]
  <2>1. PICK ok \in BOOLEAN :
          /\ proc[p].calls # <<>> /\ proc[p].calls \in Seq(Call)
          /\ \A q \in Proc :
               /\ proc'[q].cmd = proc[q].cmd
               /\ proc'[q].calls = IF q = p THEN Rest(call, ok, Tail(proc[p].calls))
                                   ELSE proc[q].calls
    BY <1>1, StepEffect
  <2> DEFINE rest == Rest(call, ok, Tail(proc[p].calls))
  <2>2. /\ Ahead(proc[p].calls) = {call} \cup Ahead(Tail(proc[p].calls))
        /\ Ahead(rest) = Ahead(Tail(proc[p].calls))
                           \cup IF call.op = "run" /\ ~ok THEN {start} ELSE {}
        /\ InTurn(proc[p].calls) => InTurn(rest)
    BY <2>1, RestFacts
  <2>3. InTurn(proc[p].calls) /\ \A c \in Ahead(proc[p].calls) : May(proc[p].cmd, c)
    BY DEF CallsInv
  <2>4. call.op = "run" /\ May(proc[p].cmd, call) => May(proc[p].cmd, start)
    BY DEF May, CntOps, Builds
  <2> HIDE DEF call, rest, start
  <2>5. InTurn(rest) /\ \A c \in Ahead(rest) : May(proc[p].cmd, c)
    BY <2>2, <2>3, <2>4
  <2> QED
    BY <2>1, <2>5 DEF CallsInv, rest, call
<1>2. CASE Other
  <2> SUFFICES ASSUME NEW q \in Proc
               PROVE  /\ InTurn(proc'[q].calls)
                      /\ \A c \in Ahead(proc'[q].calls) : May(proc'[q].cmd, c)
    BY DEF CallsInv
  <2>1. Goes(q)
    BY <1>2, OtherSteps DEF OtherEffect
  <2>2. InTurn(<<>>) /\ Ahead(<<>>) = {}
    BY AheadOfFew DEF InTurn
  <2>3. CASE proc'[q].cmd = proc[q].cmd /\ proc'[q].calls \in {proc[q].calls, <<>>}
    BY <2>2, <2>3 DEF CallsInv
  <2>4. CASE proc'[q] = Idle
    BY <2>2, <2>4, IdleFacts
  <2>5. ASSUME NEW a \in Args, proc'[q] = Begun(a, CallsOf(a))
        PROVE  /\ InTurn(proc'[q].calls)
               /\ \A c \in Ahead(proc'[q].calls) : May(proc'[q].cmd, c)
    BY <2>5, CallsOfFit, BeginsFacts
  <2>6. CASE proc'[q] = Begun(UnitPre, PreCalls)
    BY <2>6, PreLists, BeginsFacts
  <2> QED
    BY <2>1, <2>3, <2>4, <2>5, <2>6 DEF Goes
<1>3. CASE UNCHANGED vars
  BY <1>3 DEF CallsInv, vars
<1> QED
  BY <1>1, <1>2, <1>3, NextIsStepOrOther

LEMMA AliveStep ==
  ASSUME TypeOK, CallsInv, AliveInv, [Next]_vars
  PROVE  AliveInv'
<1> DEFINE picks == {"up", "down", "start", "stop", "restart"}
<1>1. "hand" \in Proc
  BY DEF Proc
<1>2. ASSUME NEW p \in Proc, Step(p) PROVE AliveInv'
  <2> DEFINE call == Head(proc[p].calls)
  <2>1. /\ proc[p].calls # <<>> /\ proc[p].calls \in Seq(Call)
        /\ \A q \in Proc :
             /\ proc'[q].cmd = proc[q].cmd
             /\ proc'[q].alive \subseteq Runs(podman')
             /\ proc'[q].alive \subseteq
                  proc[q].alive \cup IF q = p /\ call.op = "attach" THEN {call.on} ELSE {}
    BY <1>2, StepEffect
  <2>2. call \in Ahead(proc[p].calls)
    BY <2>1, AheadOfTail
  <2>3. May(proc[p].cmd, call)
    BY <2>2 DEF CallsInv
  <2> HIDE DEF call
  <2>4. proc[p].cmd.cmd \in picks /\ call.op = "attach" =>
          ServiceOf(call.on) \notin Excluded(proc[p].cmd.services)
    BY <2>3 DEF May, CntOps
  <2> QED
    BY <1>1, <2>1, <2>4 DEF AliveInv
<1>3. CASE Other
  <2>1. \A q \in Proc : /\ Goes(q)
                        /\ proc'[q].alive \subseteq proc[q].alive
                        /\ proc'[q].alive \subseteq Runs(podman')
    BY <1>3, OtherSteps DEF OtherEffect, AliveInv
  <2>2. \/ proc'["hand"].cmd = proc["hand"].cmd
        \/ proc'["hand"].alive = {}
    BY <1>1, <2>1, IdleFacts, BeginsFacts DEF Goes
  <2> QED
    BY <1>1, <2>1, <2>2 DEF AliveInv
<1>4. CASE UNCHANGED vars
  BY <1>4 DEF AliveInv, Runs, vars
<1> QED
  BY <1>2, <1>3, <1>4, NextIsStepOrOther

LEMMA PodStep ==
  ASSUME TypeOK, PodInv, [Next]_vars
  PROVE  PodInv'
<1>1. ASSUME NEW p \in Proc, Step(p) PROVE PodInv'
  <2> DEFINE call == Head(proc[p].calls)
  <2>1. PICK ok \in BOOLEAN :
          /\ call \in Call
          /\ ok => Possible(call, podman)
          /\ podman' = IF ok THEN After(call, podman) ELSE podman
    BY <1>1, StepEffect
  <2> HIDE DEF call
  <2>2. CASE ~ok
    BY <2>1, <2>2 DEF PodInv
  <2>3. CASE ok
    <3>1. Effect(call)
      BY <2>1, <2>3, EffectFacts
    <3>2. ASSUME HasPod, ~podman'.pod, NEW n \in Names
          PROVE  podman'.cnt[n] = "none"
      <4>1. call.op # "podcreate" /\ (call.op # "podrm" => ~podman.pod)
        BY <3>1, <3>2 DEF Effect
      <4>2. CASE call.op = "podrm"
        BY <3>1, <4>2 DEF Effect
      <4>3. CASE call.op # "podrm"
        <5>1. \A c \in Names : podman.cnt[c] = "none"
          BY <3>2, <4>1, <4>3 DEF PodInv
        <5>2. call.on # n \/ call.op \in Builds \cup StackOps \/ call.op = "rm"
          BY <2>1, <3>1, <3>2, <4>1, <4>3, <5>1, CallFacts DEF Effect, CntOps, Builds
        <5> QED
          BY <3>1, <4>3, <5>1, <5>2 DEF Effect
      <4> QED
        BY <4>2, <4>3
    <3> QED
      BY <3>2 DEF PodInv
  <2> QED
    BY <2>2, <2>3
<1>2. CASE Other
  <2>1. /\ podman'.pod = podman.pod
        /\ \A n \in Names : \/ podman'.cnt[n] = podman.cnt[n]
                            \/ podman.cnt[n] = "running" /\ podman'.cnt[n] = "exited"
    BY <1>2, OtherSteps DEF OtherEffect
  <2> QED
    BY <2>1 DEF PodInv
<1>3. CASE UNCHANGED vars
  BY <1>3 DEF PodInv, vars
<1> QED
  BY <1>1, <1>2, <1>3, NextIsStepOrOther

\* What the other steps do to the service: it stays where it is, becomes due,
\* does what comes before up, begins up, begins down, has stopped, or the
\* machine starts again.
UnitStays ==
  /\ unit' = unit
  /\ \A q \in {"main", "stop"} :
       /\ proc'[q].cmd = proc[q].cmd
       /\ \/ proc'[q].calls = proc[q].calls
          \/ /\ proc[q].calls # <<>> /\ Head(proc[q].calls).op = "raise"
             /\ proc'[q].calls = <<>>
  /\ settled' => settled /\ proc'["hand"].calls \in {proc["hand"].calls, <<>>}

UnitDue == unit = "inactive" /\ unit' = "start" /\ UNCHANGED <<podman, proc, settled>>

UnitPrepares ==
  /\ unit = "start" /\ unit' = "pre"
  /\ proc' = [proc EXCEPT !["main"] = Begun(UnitPre, PreCalls)]
  /\ UNCHANGED <<podman, settled>>

UnitGoesUp ==
  /\ unit = "pre" /\ unit' = "up" /\ proc["main"].calls = <<>>
  /\ proc' = [proc EXCEPT !["main"] = Begun(UnitUp, UnitUpCalls)]
  /\ UNCHANGED <<podman, settled>>

UnitGoesDown ==
  /\ unit = "up" /\ unit' \in {"failing", "stopping"}
  /\ proc'["stop"] = Begun(UnitDown, UnitDownCalls)
  /\ proc'["hand"] = proc["hand"]
  /\ proc'["main"].calls \in {proc["main"].calls, <<>>}
  /\ unit' = "failing" => proc'["main"].calls = <<>>
  /\ UNCHANGED podman
  /\ settled' => settled /\ proc'["main"].calls = <<>>

UnitStopped ==
  /\ unit \in {"stopping", "failing"} /\ unit' \in {"inactive", "start"}
  /\ proc'["main"].calls = <<>> /\ proc'["stop"].calls = <<>>
  /\ proc'["stop"].cmd = proc["stop"].cmd
  /\ proc'["hand"].calls = proc["hand"].calls
  /\ settled' => settled /\ proc["stop"].calls = <<>>

Boots ==
  /\ unit' = "start" /\ \A q \in Proc : proc'[q] = Idle
  /\ Runs(podman') = {} /\ podman'.oneoff # "running"

LEMMA UnitSteps ==
  ASSUME TypeOK, Other
  PROVE  UnitStays \/ UnitDue \/ UnitPrepares \/ UnitGoesUp \/ UnitGoesDown \/ UnitStopped \/ Boots
<1>1. /\ proc \in [Proc -> Process] /\ Proc = {"main", "stop", "hand"}
      /\ \A q \in Proc : proc[q] \in Process
  BY DEF TypeOK, Proc
<1>2. ASSUME NEW p \in Proc, RaiseStep(p) \/ Join(p)
      PROVE  /\ UNCHANGED <<unit, settled>>
             /\ \A q \in Proc :
                  /\ proc'[q].cmd = proc[q].cmd
                  /\ \/ proc'[q].calls = proc[q].calls
                     \/ /\ proc[q].calls # <<>> /\ Head(proc[q].calls).op = "raise"
                        /\ proc'[q].calls = <<>>
  <2>1. CASE RaiseStep(p)
    BY <1>1, <2>1 DEF RaiseStep, Process
  <2>2. CASE Join(p)
    BY <1>1, <2>2 DEF Join, Process
  <2> QED
    BY <1>2, <2>1, <2>2
<1>3. ASSUME NEW a \in Commands, HandBegins(a)
      PROVE  /\ unit' = unit /\ ~settled'
             /\ proc'["main"] = proc["main"] /\ proc'["stop"] = proc["stop"]
  BY <1>1, <1>3 DEF HandBegins
<1>4. ASSUME HandInterrupted \/ (\E n \in Names : Exits(n)) \/ OneOffEnds
                \/ (\E s \in Services : Publish(s))
      PROVE  UNCHANGED <<unit, settled>>
  BY <1>4 DEF HandInterrupted, Exits, OneOffEnds, Publish
<1>5. ASSUME HandInterrupted \/ (\E n \in Names : Exits(n)) \/ OneOffEnds
                \/ (\E s \in Services : Publish(s)),
             NEW q \in Proc
      PROVE  /\ proc'[q].cmd = proc[q].cmd
             /\ \/ proc'[q].calls = proc[q].calls
                \/ q = "hand" /\ proc'[q].calls = <<>>
  <2>1. CASE HandInterrupted
    <3>1. PICK gone \in SUBSET (proc["hand"].alive \cap Runs(podman)) : Killed("hand", gone)
      BY <2>1 DEF HandInterrupted
    <3> DEFINE now == StillAlive(proc[q], podman', {})
    <3>2. now \in Process /\ now.cmd = proc[q].cmd /\ now.calls = proc[q].calls
      BY <1>1, StillAliveFacts
    <3>3. proc'[q] = IF q = "hand" THEN Ended(now)
                     ELSE [now EXCEPT !.calls = @, !.threads = @, !.alive = @]
      BY <1>1, <1>5, <3>1 DEF Killed, Ended
    <3> HIDE DEF now
    <3>4. CASE q = "hand"
      BY <3>2, <3>3, <3>4, EndedFacts
    <3>5. CASE q # "hand"
      BY <3>2, <3>3, <3>5 DEF Process
    <3> QED
      BY <3>4, <3>5
  <2>2. ASSUME NEW n \in Names, Exits(n) PROVE proc'[q].cmd = proc[q].cmd /\ proc'[q].calls = proc[q].calls
    <3>1. proc'[q] = StillAlive(proc[q], podman', {})
      BY <1>1, <1>5, <2>2 DEF Exits
    <3> QED
      BY <1>1, <3>1, StillAliveFacts
  <2>3. CASE OneOffEnds \/ \E s \in Services : Publish(s)
    BY <2>3 DEF OneOffEnds, Publish
  <2> QED
    BY <1>5, <2>1, <2>2, <2>3
<1>6. CASE Unit
  <2>1. CASE StartUnit
    BY <2>1 DEF StartUnit, UnitDue
  <2>2. CASE BeginPre
    BY <2>2 DEF BeginPre, PreCalls, UnitPrepares
  <2>3. CASE BeginUp
    BY <2>3 DEF BeginUp, Done, UnitGoesUp
  <2>4. CASE UpEnds
    <3>1. /\ unit = "up" /\ unit' = "failing" /\ UNCHANGED <<podman, settled>>
          /\ proc' = [proc EXCEPT !["stop"] = Begun(UnitDown, UnitDownCalls)]
          /\ proc["main"].calls = <<>>
      BY <2>4 DEF UpEnds, BeginStop, Done
    <3> QED
      BY <1>1, <3>1 DEF UnitGoesDown
  <2>5. CASE StopUnit
    <3>1. /\ unit = "up" /\ unit' = "stopping" /\ UNCHANGED podman
          /\ proc' = [proc EXCEPT !["stop"] = Begun(UnitDown, UnitDownCalls)]
          /\ settled' => settled /\ proc["main"].calls = <<>>
      BY <2>5 DEF StopUnit, BeginStop
    <3> QED
      BY <1>1, <3>1 DEF UnitGoesDown
  <2>6. CASE UpKilled
    <3>1. /\ unit = "up" /\ unit' = "failing" /\ UNCHANGED <<podman, settled>>
          /\ proc' = [proc EXCEPT !["stop"] = Begun(UnitDown, UnitDownCalls),
                                  !["main"].calls = <<>>, !["main"].threads = {}]
      BY <2>6 DEF UpKilled
    <3>2. /\ proc'["stop"] = Begun(UnitDown, UnitDownCalls) /\ proc'["hand"] = proc["hand"]
          /\ proc'["main"] = [proc["main"] EXCEPT !.calls = <<>>, !.threads = {}]
      BY <1>1, <3>1
    <3>3. proc'["main"].calls = <<>>
      BY <1>1, <3>2 DEF Process
    <3> QED
      BY <3>1, <3>2, <3>3 DEF UnitGoesDown
  <2>7. CASE StopEnds
    <3>1. /\ unit \in {"stopping", "failing"} /\ unit' \in {"inactive", "start"}
          /\ settled' => settled /\ proc["stop"].calls = <<>>
      <4>1. /\ unit \in {"stopping", "failing"}
            /\ \/ Done("stop") /\ settled' = settled
               \/ settled' = FALSE
            /\ unit' = IF unit = "stopping" THEN "inactive" ELSE "start"
        BY <2>7 DEF StopEnds
      <4> QED
        BY <4>1 DEF Done
    <3> DEFINE now(q) == StillAlive(proc[q], podman', {})
    <3>2. \A q \in Proc : /\ now(q) \in Process /\ now(q).cmd = proc[q].cmd
                          /\ now(q).calls = proc[q].calls
      BY <1>1, StillAliveFacts
    <3>3. proc' = [p \in Proc |->
            CASE p = "main" -> [now(p) EXCEPT !.calls = <<>>, !.threads = {}, !.alive = {}]
              [] p = "stop" -> [now(p) EXCEPT !.calls = <<>>]
              [] OTHER      -> now(p)]
      BY <2>7 DEF StopEnds
    <3> HIDE DEF now
    <3>4. /\ proc'["main"] = Ended(now("main"))
          /\ proc'["stop"] = [now("stop") EXCEPT !.calls = <<>>]
          /\ proc'["hand"] = now("hand")
      BY <1>1, <3>3 DEF Ended
    <3>5. proc'["main"].calls = <<>> /\ proc'["hand"].calls = proc["hand"].calls
      BY <1>1, <3>2, <3>4, EndedFacts
    <3>6. proc'["stop"].calls = <<>> /\ proc'["stop"].cmd = proc["stop"].cmd
      BY <1>1, <3>2, <3>4 DEF Process
    <3> QED
      BY <3>1, <3>5, <3>6 DEF UnitStopped
  <2> QED
    BY <1>6, <2>1, <2>2, <2>3, <2>4, <2>5, <2>6, <2>7 DEF Unit
<1>7. CASE Reboot
  <2>1. /\ podman' = [podman EXCEPT
             !.cnt = [n \in Names |-> IF @[n] = "running" THEN "exited" ELSE @[n]],
             !.oneoff = IF @ = "running" THEN "exited" ELSE @]
        /\ proc' = [q \in Proc |-> Idle] /\ unit' = "start"
    BY <1>7 DEF Reboot
  <2>2. podman \in PodmanState
    BY DEF TypeOK
  <2>3. /\ \A n \in Names : podman'.cnt[n] = IF podman.cnt[n] = "running" THEN "exited"
                                             ELSE podman.cnt[n]
        /\ podman'.oneoff # "running"
    BY <2>1, <2>2 DEF PodmanState
  <2>4. Runs(podman') = {}
    BY <2>3 DEF Runs
  <2> QED
    BY <2>1, <2>3, <2>4 DEF Boots
<1>8. ASSUME NEW p \in Proc, RaiseStep(p) \/ Join(p) PROVE UnitStays
  BY <1>1, <1>2, <1>8 DEF UnitStays
<1>9. ASSUME NEW a \in Commands, HandBegins(a) PROVE UnitStays
  BY <1>1, <1>3, <1>9 DEF UnitStays
<1>10. ASSUME HandInterrupted \/ (\E n \in Names : Exits(n)) \/ OneOffEnds
                \/ (\E s \in Services : Publish(s))
       PROVE  UnitStays
  BY <1>1, <1>4, <1>5, <1>10 DEF UnitStays
<1> QED
  BY <1>6, <1>7, <1>8, <1>9, <1>10 DEF Other

LEMMA UnitStep ==
  ASSUME TypeOK, UnitInv, [Next]_vars
  PROVE  UnitInv'
<1>1. ASSUME NEW p \in Proc, Step(p) PROVE UnitInv'
  <2>1. /\ proc[p].calls # <<>> /\ unit' = unit
        /\ \A q \in Proc : /\ proc'[q].cmd = proc[q].cmd
                           /\ q # p => proc'[q].calls = proc[q].calls
    BY <1>1, StepEffect
  <2>2. {"main", "stop"} \subseteq Proc
    BY DEF Proc
  <2> QED
    BY <2>1, <2>2 DEF UnitInv
<1>2. CASE Other
  <2>1. /\ proc \in [Proc -> Process] /\ {"main", "stop"} \subseteq Proc
    BY DEF TypeOK, Proc
  <2>2. /\ Begun(UnitPre, PreCalls).cmd = UnitPre
        /\ Begun(UnitUp, UnitUpCalls).cmd = UnitUp
        /\ Begun(UnitDown, UnitDownCalls).cmd = UnitDown
    BY BeginsFacts, UnitCommands
  <2>3. CASE UnitStays
    BY <2>3 DEF UnitInv, UnitStays
  <2>4. CASE UnitDue
    BY <2>4 DEF UnitInv, UnitDue
  <2>5. CASE UnitPrepares
    BY <2>1, <2>2, <2>5 DEF UnitInv, UnitPrepares
  <2>6. CASE UnitGoesUp
    BY <2>1, <2>2, <2>6 DEF UnitInv, UnitGoesUp
  <2>7. CASE UnitGoesDown
    BY <2>1, <2>2, <2>7 DEF UnitInv, UnitGoesDown
  <2>8. CASE UnitStopped
    BY <2>1, <2>8 DEF UnitInv, UnitStopped
  <2>9. CASE Boots
    BY <2>1, <2>9, IdleFacts DEF UnitInv, Boots
  <2> QED
    BY <1>2, <2>3, <2>4, <2>5, <2>6, <2>7, <2>8, <2>9, UnitSteps
<1>3. CASE UNCHANGED vars
  BY <1>3 DEF UnitInv, vars
<1> QED
  BY <1>1, <1>2, <1>3, NextIsStepOrOther

LEMMA CallOnFacts ==
  ASSUME NEW n \in Names, NEW op
  PROVE  CallOn(op, Desc(n)).op = op /\ CallOn(op, Desc(n)).on = n
BY StackFacts DEF CallOn

\* A command that takes something away leaves what it did not find or could not
\* take to a later call.
LEMMA DownStep ==
  ASSUME TypeOK, CallsInv, DownInv, [Next]_vars
  PROVE  DownInv'
<1>1. ASSUME NEW q \in Proc, Step(q), NEW p \in {"stop", "hand"}
      PROVE  DownOf(p)'
  <2> SUFFICES ASSUME proc'[p].cmd.cmd = "down", Excluded(proc'[p].cmd.services) = {}, quiet'[p]
               PROVE  /\ \A n \in Names :
                           /\ podman'.cnt[n] = "running" =>
                                CallOn("stop", Desc(n)) \in Ahead(proc'[p].calls)
                           /\ podman'.cnt[n] # "none" =>
                                CallOn("rm", Desc(n)) \in Ahead(proc'[p].calls)
                      /\ podman'.pod /\ HasPod =>
                           podman'.oneoff = "running" \/ PodRm \in Ahead(proc'[p].calls)
    BY DEF DownOf
  <2> DEFINE call == Head(proc[p].calls)
             s    == Ahead(proc[p].calls)
             t    == Ahead(proc'[p].calls)
  <2>1. p \in Proc /\ p = q /\ quiet[p]
    BY <1>1, StepEffect DEF Proc
  <2>2. PICK ok \in BOOLEAN :
          /\ proc[p].calls # <<>> /\ proc[p].calls \in Seq(Call)
          /\ call \in Call
          /\ ok => Possible(call, podman)
          /\ podman' = IF ok THEN After(call, podman) ELSE podman
          /\ proc'[p].cmd = proc[p].cmd
          /\ proc'[p].calls = Rest(call, ok, Tail(proc[p].calls))
          /\ ok \/ ~Possible(call, podman)
    BY <1>1, <2>1, StepEffect
  <2>3. /\ s = {call} \cup Ahead(Tail(proc[p].calls))
        /\ t = Ahead(Tail(proc[p].calls))
                 \cup IF call.op = "run" /\ ~ok THEN {[op |-> "start", on |-> call.on]} ELSE {}
        /\ \A c \in t : Follows(call, c)
    <3>1. InTurn(proc[p].calls)
      BY <2>1 DEF CallsInv
    <3>2. proc[p].calls \in Seq(Call) /\ proc[p].calls # <<>> /\ ok \in BOOLEAN
      BY <2>2
    <3> QED
      BY <2>2, <3>1, <3>2, RestFacts
  <2> HIDE DEF call, s, t
  <2>4. call.op \in {"stop", "rm", "podrm"}
    BY <2>1, <2>2, <2>3 DEF CallsInv, May, s
  <2>5. s = {call} \cup t /\ \A c \in t : Stage(call.op) <= Stage(c.op)
    BY <2>3, <2>4 DEF Follows
  <2>6. /\ \A n \in Names : /\ podman.cnt[n] = "running" => CallOn("stop", Desc(n)) \in s
                            /\ podman.cnt[n] # "none"    => CallOn("rm", Desc(n)) \in s
        /\ podman.pod /\ HasPod => podman.oneoff = "running" \/ PodRm \in s
    BY <2>1, <2>2 DEF DownInv, DownOf, s
  <2>7. PodRm.op = "podrm" /\ Stage("stop") = 2 /\ Stage("rm") = 3 /\ Stage("podrm") = 4
    BY DEF PodRm, Stage
  <2>8. CASE ok
    <3>1. Effect(call)
      BY <2>2, <2>8, EffectFacts
    <3>2. ASSUME NEW n \in Names, podman'.cnt[n] = "running"
          PROVE  CallOn("stop", Desc(n)) \in t
      <4>1. call.op # "podrm" /\ call.on # n /\ podman.cnt[n] = "running"
        BY <2>4, <3>1, <3>2 DEF Effect
      <4> QED
        BY <2>5, <2>6, <4>1, CallOnFacts
    <3>3. ASSUME NEW n \in Names, podman'.cnt[n] # "none"
          PROVE  CallOn("rm", Desc(n)) \in t
      <4>1. podman.cnt[n] # "none" /\ (call.op # "rm" \/ call.on # n)
        BY <2>4, <3>1, <3>3 DEF Effect
      <4> QED
        BY <2>5, <2>6, <4>1, CallOnFacts
    <3>4. ASSUME podman'.pod, HasPod
          PROVE  podman'.oneoff = "running" \/ PodRm \in t
      <4>1. call.op # "podrm" /\ podman.pod /\ podman'.oneoff = podman.oneoff
        BY <2>4, <3>1, <3>4 DEF Effect
      <4> QED
        BY <2>5, <2>6, <2>7, <3>4, <4>1
    <3> QED
      BY <3>2, <3>3, <3>4 DEF t
  <2>9. CASE ~ok
    <3>1. Refused(call) /\ podman' = podman
      BY <2>2, <2>9, RefusedFacts
    <3>2. ASSUME NEW n \in Names, podman.cnt[n] = "running"
          PROVE  CallOn("stop", Desc(n)) \in t
      BY <2>5, <2>6, <3>1, <3>2, CallOnFacts DEF Refused
    <3>3. ASSUME NEW n \in Names, podman.cnt[n] # "none"
          PROVE  CallOn("rm", Desc(n)) \in t
      <4>1. CASE call.op = "rm" /\ call.on = n
        <5>1. podman.cnt[n] = "running"
          BY <3>1, <3>3, <4>1 DEF Refused
        <5>2. Stage("rm") <= Stage("stop")
          BY <2>5, <3>2, <4>1, <5>1, CallOnFacts
        <5> QED
          BY <2>7, <5>2
      <4>2. CASE call.op # "rm" \/ call.on # n
        BY <2>5, <2>6, <3>3, <4>2, CallOnFacts
      <4> QED
        BY <4>1, <4>2
    <3>4. ASSUME podman.pod, HasPod
          PROVE  podman.oneoff = "running" \/ PodRm \in t
      <4>1. CASE call.op = "podrm"
        <5>1. CASE Runs(podman) # {}
          <6>1. PICK n \in Names : podman.cnt[n] = "running"
            BY <5>1 DEF Runs
          <6>2. Stage("podrm") <= Stage("stop")
            BY <2>5, <3>2, <4>1, <6>1, CallOnFacts
          <6> QED
            BY <2>7, <6>2
        <5> QED
          BY <3>1, <3>4, <4>1, <5>1 DEF Refused
      <4>2. CASE call.op # "podrm"
        BY <2>5, <2>6, <2>7, <3>4, <4>2
      <4> QED
        BY <4>1, <4>2
    <3> QED
      BY <3>1, <3>2, <3>3, <3>4 DEF t
  <2> QED
    BY <2>8, <2>9
<1>2. ASSUME Other, NEW p \in {"stop", "hand"}
      PROVE  DownOf(p)'
  <2> SUFFICES ASSUME proc'[p].cmd.cmd = "down", Excluded(proc'[p].cmd.services) = {}, quiet'[p]
               PROVE  /\ \A n \in Names :
                           /\ podman'.cnt[n] = "running" =>
                                CallOn("stop", Desc(n)) \in Ahead(proc'[p].calls)
                           /\ podman'.cnt[n] # "none" =>
                                CallOn("rm", Desc(n)) \in Ahead(proc'[p].calls)
                      /\ podman'.pod /\ HasPod =>
                           podman'.oneoff = "running" \/ PodRm \in Ahead(proc'[p].calls)
    BY DEF DownOf
  <2>1. p \in Proc /\ p # "main"
    BY DEF Proc
  <2>2. /\ Goes(p) /\ podman'.cnt = podman.cnt /\ podman'.oneoff = podman.oneoff
        /\ podman'.pod = podman.pod
    BY <1>2, <2>1, OtherSteps DEF OtherEffect
  <2>3. ASSUME proc'[p].cmd = proc[p].cmd, quiet[p],
               \/ proc'[p].calls = proc[p].calls
               \/ proc[p].calls # <<>> /\ Head(proc[p].calls).op = "raise"
        PROVE  proc'[p].calls = proc[p].calls /\ DownOf(p)
    <3>1. proc[p].calls \in Seq(Call)
      BY <2>1 DEF TypeOK, Process
    <3>2. proc[p].calls # <<>> => Head(proc[p].calls) \in Ahead(proc[p].calls)
      BY <3>1, AheadOfTail
    <3>3. \A c \in Ahead(proc[p].calls) : May(proc[p].cmd, c)
      BY <2>1 DEF CallsInv
    <3>4. \A c \in Ahead(proc[p].calls) : c.op # "raise"
      BY <2>3, <3>3 DEF May
    <3> QED
      BY <2>3, <3>2, <3>4 DEF DownInv
  <2>4. ASSUME NEW a \in Args, proc'[p] = Begun(a, CallsOf(a))
        PROVE  /\ \A n \in Names, op \in {"stop", "rm"} :
                    CallOn(op, Desc(n)) \in Ahead(proc'[p].calls)
               /\ HasPod => PodRm \in Ahead(proc'[p].calls)
    <3>1. proc'[p].cmd = a /\ proc'[p].calls = CallsOf(a)
      BY <2>4, BeginsFacts
    <3>2. CallsOf(a) = DownCalls(a.services)
      BY <3>1 DEF CallsOf
    <3> QED
      BY <3>1, <3>2, DownLists, StackFacts
  <2> QED
    BY <2>1, <2>2, <2>3, <2>4 DEF Goes, DownOf
<1>3. CASE UNCHANGED vars
  BY <1>3 DEF DownInv, DownOf, vars
<1> QED
  BY <1>1, <1>2, <1>3, NextIsStepOrOther DEF DownInv

\* While nobody else has touched the stack, the service makes only these calls.
LEMMA SettledCalls ==
  ASSUME TypeOK, CallsInv, UnitInv, SettledInv, settled, Ephemeral, HasPod,
         NEW p \in Proc, proc[p].calls # <<>>, Head(proc[p].calls).op # "raise"
  PROVE  LET call == Head(proc[p].calls) IN
         \/ p = "main" /\ unit = "pre" /\ call.op \in {"pull", "podrm"}
         \/ p = "main" /\ unit = "up" /\ call.op \in {"podcreate", "create", "attach"}
         \/ /\ p = "stop" /\ unit \in {"stopping", "failing"}
            /\ call.op \in {"stop", "rm", "podrm"}
<1> DEFINE call == Head(proc[p].calls)
<1>1. proc[p].calls \in Seq(Call)
  BY DEF TypeOK, Process
<1>2. call \in Ahead(proc[p].calls) /\ call \in Call
  BY <1>1, AheadOfTail
<1>3. May(proc[p].cmd, call)
  BY <1>2 DEF CallsInv
<1> HIDE DEF call
<1>4. p # "hand" /\ p \in {"main", "stop"}
  BY DEF SettledInv, Proc
<1>5. unit \in {"inactive", "start", "pre", "up", "stopping", "failing"}
  BY DEF TypeOK
<1>6. CASE p = "main"
  <2>1. unit \in {"pre", "up"}
    BY <1>5, <1>6 DEF UnitInv, SettledInv
  <2>2. CASE unit = "pre"
    BY <1>3, <1>6, <2>2 DEF UnitInv, May, UnitPre, call
  <2>3. CASE unit = "up"
    <3>1. proc[p].cmd = UnitUp
      BY <1>6, <2>3 DEF UnitInv
    <3>2. /\ UnitUp.cmd = "up" /\ UnitUp.no_build /\ ~UnitUp.force_recreate /\ ~UnitUp.detach
      BY DEF UnitUp
    <3>3. call.op \in {"podcreate", "create", "attach", "raise"}
      BY <1>3, <3>1, <3>2 DEF May
    <3> QED
      BY <1>6, <2>3, <3>3 DEF call
  <2> QED
    BY <2>1, <2>2, <2>3
<1>7. CASE p = "stop"
  <2>1. unit \in {"stopping", "failing"} /\ proc[p].cmd = UnitDown
    BY <1>5, <1>7 DEF UnitInv
  <2>2. UnitDown.cmd = "down"
    BY DEF UnitDown
  <2> QED
    BY <1>3, <1>7, <2>1, <2>2 DEF May, call
<1> QED
  BY <1>4, <1>6, <1>7

\* The parts of SettledInv.
StartsFromNothing ==
  /\ proc["hand"].calls = <<>> /\ podman.oneoff # "running"
  /\ unit \in {"inactive", "start", "pre"} => Runs(podman) = {}
  /\ unit = "stopping" => proc["main"].calls = <<>>

StillToStop ==
  unit \in {"stopping", "failing"} =>
    \A n \in Runs(podman) : CallOn("stop", Desc(n)) \in Ahead(proc["stop"].calls)

StillToRemove ==
  unit = "pre" => \/ PodRm \in Ahead(proc["main"].calls)
                  \/ \A n \in Names : podman.cnt[n] = "none"

MadeFromStored ==
  unit = "up" => \A n \in Names : podman.cnt[n] # "none" =>
    podman.made[n] # 0 /\ podman.made[n] = podman.image[ServiceOf(n)]

LEMMA SettledParts ==
  SettledInv <=> (settled /\ Ephemeral /\ HasPod =>
                    StartsFromNothing /\ StillToStop /\ StillToRemove /\ MadeFromStored)
BY DEF SettledInv, StartsFromNothing, StillToStop, StillToRemove, MadeFromStored

LEMMA SettledStepOfProcess ==
  ASSUME TypeOK, CallsInv, PodInv, UnitInv, SettledInv, NEW p \in Proc, Step(p)
  PROVE  SettledInv'
<1> SUFFICES ASSUME settled', Ephemeral, HasPod
             PROVE  (StartsFromNothing /\ StillToStop /\ StillToRemove /\ MadeFromStored)'
  BY DEF SettledInv, StartsFromNothing, StillToStop, StillToRemove, MadeFromStored
<1> DEFINE call == Head(proc[p].calls)
           s    == Ahead(proc[p].calls)
           t    == Ahead(proc'[p].calls)
<1>1. PICK ok \in BOOLEAN :
        /\ proc[p].calls # <<>> /\ proc[p].calls \in Seq(Call)
        /\ call \in Call
        /\ call.op # "raise"
        /\ ok => Possible(call, podman)
        /\ podman' = IF ok THEN After(call, podman) ELSE podman
        /\ proc'[p].calls = Rest(call, ok, Tail(proc[p].calls))
        /\ \A q \in Proc : q # p => proc'[q].calls = proc[q].calls
        /\ settled
        /\ \/ ok
           \/ ~Possible(call, podman)
           \/ call.op \in {"pull", "push", "create", "podcreate"}
        /\ UNCHANGED <<latest, unit>>
  BY StepEffect
<1>2. /\ s = {call} \cup Ahead(Tail(proc[p].calls))
      /\ t = Ahead(Tail(proc[p].calls))
               \cup IF call.op = "run" /\ ~ok THEN {[op |-> "start", on |-> call.on]} ELSE {}
  BY <1>1, RestFacts
<1>3. \/ p = "main" /\ unit = "pre" /\ call.op \in {"pull", "podrm"}
      \/ p = "main" /\ unit = "up" /\ call.op \in {"podcreate", "create", "attach"}
      \/ /\ p = "stop" /\ unit \in {"stopping", "failing"}
         /\ call.op \in {"stop", "rm", "podrm"}
  BY <1>1, SettledCalls
<1> HIDE DEF call, s, t
<1>4. s = {call} \cup t
  BY <1>2, <1>3
<1>5. StartsFromNothing /\ StillToStop /\ StillToRemove /\ MadeFromStored
  BY <1>1, SettledParts
<1>6. ok => Effect(call)
  BY <1>1, EffectFacts
<1>7. ~ok => podman' = podman
  BY <1>1
<1>8. {"main", "stop", "hand"} = Proc
  BY DEF Proc
<1>9. ~ok /\ call.op \notin {"pull", "push", "create", "podcreate"} => Refused(call)
  BY <1>1, RefusedFacts
<1>10. \A c \in Names : CallOn("stop", Desc(c)).op = "stop" /\ CallOn("stop", Desc(c)).on = c
  BY CallOnFacts
<1>11. CASE p = "main" /\ unit = "pre" /\ call.op \in {"pull", "podrm"}
  <2>1. call.op = "podrm" => \A n \in Names : podman'.cnt[n] = "none"
    <3>1. CASE ok
      BY <1>6, <3>1 DEF Effect
    <3>2. CASE ~ok /\ call.op = "podrm"
      <4>1. ~podman.pod
        BY <1>5, <1>9, <1>11, <3>2 DEF Refused, StartsFromNothing
      <4> QED
        BY <1>7, <3>2, <4>1 DEF PodInv
    <3> QED
      BY <3>1, <3>2
  <2>2. call.op = "pull" => \A n \in Names : podman'.cnt[n] = podman.cnt[n]
    BY <1>6, <1>7 DEF Effect, Builds
  <2>3. podman'.oneoff # "running"
    BY <1>5, <1>6, <1>7, <1>11 DEF Effect, StartsFromNothing
  <2>4. Runs(podman') = {}
    BY <1>5, <1>11, <2>1, <2>2 DEF StartsFromNothing, Runs
  <2>5. StartsFromNothing'
    BY <1>1, <1>5, <1>8, <1>11, <2>3, <2>4 DEF StartsFromNothing
  <2>6. PodRm.op = "podrm"
    BY DEF PodRm
  <2>7. StillToRemove'
    <3>1. CASE call.op = "podrm"
      BY <2>1, <3>1 DEF StillToRemove
    <3>2. CASE call.op = "pull"
      <4>1. PodRm \in s => PodRm \in t
        BY <1>4, <2>6, <3>2
      <4> QED
        BY <1>1, <1>5, <1>11, <2>2, <3>2, <4>1 DEF StillToRemove, s, t
    <3> QED
      BY <1>11, <3>1, <3>2
  <2> QED
    BY <1>1, <1>11, <2>5, <2>7 DEF StillToStop, MadeFromStored
<1>12. CASE p = "main" /\ unit = "up" /\ call.op \in {"podcreate", "create", "attach"}
  <2>1. podman'.oneoff # "running"
    BY <1>5, <1>6, <1>7, <1>12 DEF Effect, StartsFromNothing
  <2>2. StartsFromNothing'
    BY <1>1, <1>5, <1>8, <1>12, <2>1 DEF StartsFromNothing
  <2>3. ASSUME NEW n \in Names, podman'.cnt[n] # "none"
        PROVE  podman'.made[n] # 0 /\ podman'.made[n] = podman'.image[ServiceOf(n)]
    <3>1. podman.cnt[n] # "none" =>
            podman.made[n] # 0 /\ podman.made[n] = podman.image[ServiceOf(n)]
      BY <1>5, <1>12, <2>3 DEF MadeFromStored
    <3>2. CASE ~ok
      BY <1>7, <2>3, <3>1, <3>2
    <3>3. CASE ok /\ call.op \in {"podcreate", "attach"}
      <4>1. ServiceOf(n) \in Services
        BY StackFacts
      <4>2. podman'.image[ServiceOf(n)] = podman.image[ServiceOf(n)]
        BY <1>6, <3>3, <4>1 DEF Effect, Builds
      <4>3. podman.cnt[n] # "none" /\ podman'.made[n] = podman.made[n]
        <5>1. CASE call.op = "podcreate"
          BY <1>6, <2>3, <3>3, <5>1 DEF Effect, StackOps
        <5>2. CASE call.op = "attach" /\ call.on # n
          BY <1>6, <2>3, <3>3, <5>2 DEF Effect
        <5>3. CASE call.op = "attach" /\ call.on = n
          BY <1>6, <2>3, <3>3, <5>3 DEF Effect
        <5> QED
          BY <3>3, <5>1, <5>2, <5>3
      <4> QED
        BY <3>1, <4>2, <4>3
    <3>4. CASE ok /\ call.op = "create"
      <4>1. call.on \in Names /\ call.op \in CntOps /\ ServiceOf(n) \in Services
        BY <1>1, <3>4, CallFacts, StackFacts DEF CntOps
      <4>2. /\ ImageFor(call.on, podman) # 0
            /\ podman.image[ServiceOf(call.on)] # 0 =>
                 ImageFor(call.on, podman) = podman.image[ServiceOf(call.on)]
        BY <4>1, ImageForFacts DEF TypeOK
      <4>3. /\ podman'.made[call.on] = ImageFor(call.on, podman)
            /\ podman'.image[ServiceOf(call.on)] = ImageFor(call.on, podman)
        BY <1>6, <3>4 DEF Effect
      <4>4. CASE call.on = n
        BY <4>2, <4>3, <4>4
      <4>5. CASE call.on # n
        <5>1. podman'.cnt[n] = podman.cnt[n] /\ podman'.made[n] = podman.made[n]
          BY <1>6, <3>4, <4>5 DEF Effect
        <5>2. podman'.image[ServiceOf(n)] = podman.image[ServiceOf(n)]
          <6>1. CASE ServiceOf(n) = ServiceOf(call.on)
            BY <2>3, <3>1, <4>2, <4>3, <5>1, <6>1
          <6>2. CASE ServiceOf(n) # ServiceOf(call.on)
            BY <1>6, <3>4, <4>1, <6>2 DEF Effect
          <6> QED
            BY <6>1, <6>2
        <5> QED
          BY <2>3, <3>1, <5>1, <5>2
      <4> QED
        BY <4>4, <4>5
    <3> QED
      BY <1>12, <3>2, <3>3, <3>4
  <2>4. MadeFromStored'
    BY <2>3 DEF MadeFromStored
  <2> QED
    BY <1>1, <1>12, <2>2, <2>4 DEF StillToStop, StillToRemove
<1>13. CASE /\ p = "stop" /\ unit \in {"stopping", "failing"}
            /\ call.op \in {"stop", "rm", "podrm"}
  <2>1. podman'.oneoff # "running"
    BY <1>5, <1>6, <1>7, <1>13 DEF Effect, StartsFromNothing
  <2>2. StartsFromNothing'
    BY <1>1, <1>5, <1>8, <1>13, <2>1 DEF StartsFromNothing
  <2>3. ASSUME NEW n \in Names, podman'.cnt[n] = "running"
        PROVE  CallOn("stop", Desc(n)) \in t
    <3>1. CASE ok
      <4>1. call.op # "podrm" /\ call.on # n /\ podman.cnt[n] = "running"
        BY <1>6, <1>13, <2>3, <3>1 DEF Effect
      <4>2. CallOn("stop", Desc(n)) \in s
        BY <1>5, <1>13, <4>1 DEF StillToStop, Runs, s
      <4> QED
        BY <1>4, <1>10, <4>1, <4>2
    <3>2. CASE ~ok
      <4>1. CallOn("stop", Desc(n)) \in s /\ podman.cnt[n] = "running"
        BY <1>5, <1>7, <1>13, <2>3, <3>2 DEF StillToStop, Runs, s
      <4>2. Refused(call)
        BY <1>9, <1>13, <3>2
      <4> QED
        BY <1>4, <1>10, <4>1, <4>2 DEF Refused
    <3> QED
      BY <3>1, <3>2
  <2>4. StillToStop'
    BY <1>13, <2>3 DEF StillToStop, Runs, t
  <2> QED
    BY <1>1, <1>13, <2>2, <2>4 DEF StillToRemove, MadeFromStored
<1> QED
  BY <1>3, <1>11, <1>12, <1>13

LEMMA SettledStepOfOthers ==
  ASSUME TypeOK, CallsInv, UnitInv, SettledInv, Other
  PROVE  SettledInv'
<1> SUFFICES ASSUME settled', Ephemeral, HasPod
             PROVE  (StartsFromNothing /\ StillToStop /\ StillToRemove /\ MadeFromStored)'
  BY DEF SettledInv, StartsFromNothing, StillToStop, StillToRemove, MadeFromStored
<1>1. /\ podman'.made = podman.made /\ podman'.image = podman.image
      /\ \A n \in Names : \/ podman'.cnt[n] = podman.cnt[n]
                          \/ podman.cnt[n] = "running" /\ podman'.cnt[n] = "exited"
      /\ podman'.oneoff = "running" => podman.oneoff = "running"
  BY OtherSteps DEF OtherEffect
<1>2. Runs(podman') \subseteq Runs(podman)
  BY <1>1 DEF Runs
<1>3. /\ proc \in [Proc -> Process] /\ Proc = {"main", "stop", "hand"}
      /\ unit \in {"inactive", "start", "pre", "up", "stopping", "failing"}
  BY DEF TypeOK, Proc
<1>4. settled => StartsFromNothing /\ StillToStop /\ StillToRemove /\ MadeFromStored
  BY SettledParts
<1>5. /\ Begun(UnitPre, PreCalls).calls = PreCalls
      /\ Begun(UnitDown, UnitDownCalls).calls = UnitDownCalls
  BY BeginsFacts, UnitCommands
<1>6. Ahead(<<>>) = {}
  BY AheadOfFew
<1>7. CASE UnitStays
  <2>1. StartsFromNothing'
    BY <1>1, <1>2, <1>4, <1>7 DEF StartsFromNothing, UnitStays
  <2>2. MadeFromStored'
    BY <1>1, <1>4, <1>7 DEF MadeFromStored, UnitStays
  <2>3. ASSUME NEW q \in {"main", "stop"},
               unit \in {"pre", "stopping", "failing"}, q = "main" => unit = "pre"
        PROVE  proc'[q].calls = proc[q].calls
    <3>1. CASE proc[q].calls # <<>> /\ Head(proc[q].calls).op = "raise"
      <4>1. q \in Proc /\ proc[q].calls \in Seq(Call)
        BY <1>3 DEF Process
      <4>2. Head(proc[q].calls) \in Ahead(proc[q].calls)
        BY <3>1, <4>1, AheadOfTail
      <4>3. May(proc[q].cmd, Head(proc[q].calls))
        BY <4>1, <4>2 DEF CallsInv
      <4>4. /\ q = "main" => proc[q].cmd = UnitPre
            /\ q = "stop" => proc[q].cmd = UnitDown
        BY <1>3, <2>3, <3>1 DEF UnitInv
      <4>5. UnitPre.cmd = "pre" /\ UnitDown.cmd = "down"
        BY DEF UnitPre, UnitDown
      <4> QED
        BY <3>1, <4>3, <4>4, <4>5 DEF May
    <3> QED
      BY <1>7, <3>1 DEF UnitStays
  <2>4. StillToStop'
    BY <1>2, <1>4, <1>7, <2>3 DEF StillToStop, UnitStays
  <2>5. StillToRemove'
    BY <1>1, <1>4, <1>7, <2>3 DEF StillToRemove, UnitStays
  <2> QED
    BY <2>1, <2>2, <2>4, <2>5
<1>8. CASE UnitDue
  BY <1>4, <1>8 DEF StartsFromNothing, StillToStop, StillToRemove, MadeFromStored, UnitDue
<1>9. CASE UnitPrepares
  <2>1. proc'["main"].calls = PreCalls /\ proc'["hand"] = proc["hand"]
    BY <1>3, <1>5, <1>9 DEF UnitPrepares
  <2>2. PodRm \in Ahead(PreCalls)
    BY PreLists
  <2> QED
    BY <1>4, <1>9, <2>1, <2>2 DEF StartsFromNothing, StillToStop, StillToRemove, MadeFromStored, UnitPrepares
<1>10. CASE UnitGoesUp
  <2>1. proc'["hand"] = proc["hand"]
    BY <1>3, <1>10 DEF UnitGoesUp
  <2>2. \A n \in Names : podman.cnt[n] = "none"
    BY <1>4, <1>6, <1>10 DEF StillToRemove, UnitGoesUp
  <2> QED
    BY <1>4, <1>10, <2>1, <2>2 DEF StartsFromNothing, StillToStop, StillToRemove, MadeFromStored, UnitGoesUp
<1>11. CASE UnitGoesDown
  <2>1. Excluded({}) = {}
    BY DEF Excluded
  <2>2. \A n \in Names : CallOn("stop", Desc(n)) \in Ahead(UnitDownCalls)
    BY <2>1, DownLists, StackFacts DEF UnitDownCalls
  <2>3. proc'["stop"].calls = UnitDownCalls
    BY <1>5, <1>11 DEF UnitGoesDown
  <2>4. StillToStop'
    BY <2>2, <2>3 DEF StillToStop, Runs
  <2>5. StartsFromNothing'
    BY <1>4, <1>11 DEF StartsFromNothing, UnitGoesDown
  <2> QED
    BY <1>11, <2>4, <2>5 DEF StillToRemove, MadeFromStored, UnitGoesDown
<1>12. CASE UnitStopped
  <2>1. Runs(podman) = {}
    BY <1>4, <1>6, <1>12 DEF StillToStop, UnitStopped
  <2> QED
    BY <1>1, <1>2, <1>4, <1>12, <2>1 DEF StartsFromNothing, StillToStop, StillToRemove, MadeFromStored, UnitStopped
<1>13. CASE Boots
  <2>1. proc'["hand"].calls = <<>>
    BY <1>3, <1>13, IdleFacts DEF Boots
  <2> QED
    BY <1>13, <2>1 DEF StartsFromNothing, StillToStop, StillToRemove, MadeFromStored, Boots
<1> QED
  BY <1>7, <1>8, <1>9, <1>10, <1>11, <1>12, <1>13, UnitSteps

LEMMA SettledStep ==
  ASSUME TypeOK, CallsInv, PodInv, UnitInv, SettledInv, [Next]_vars
  PROVE  SettledInv'
<1>1. CASE UNCHANGED vars
  BY <1>1 DEF SettledInv, vars
<1> QED
  BY <1>1, NextIsStepOrOther, SettledStepOfProcess, SettledStepOfOthers

\* What is wanted are containers, and replicas of a service lack the same image.
LEMMA WantedFacts ==
  /\ \A a : Wanted(a) \subseteq Names
  /\ \A m, n \in Names : ServiceOf(m) = ServiceOf(n) /\ ~Lacks(m) => ~Lacks(n)
<1>1. \A a : Wanted(a) \subseteq Names
  BY DEF Wanted
<1>2. ASSUME NEW m \in Names, NEW n \in Names, ServiceOf(m) = ServiceOf(n)
      PROVE  Desc(m).local = Desc(n).local
  <2>1. PICK i \in DOMAIN Stack : Desc(m) = Stack[i]
    BY StackFacts DEF Containers
  <2>2. PICK j \in DOMAIN Stack : Desc(n) = Stack[j]
    BY StackFacts DEF Containers
  <2>3. Stack[i].service = Stack[j].service
    BY <1>2, <2>1, <2>2 DEF ServiceOf
  <2>4. Stack[j] = [Stack[i] EXCEPT !.name = Stack[j].name]
    BY <2>3, StackAssumption
  <2>5. Stack[i] \in ContainerDesc
    BY StackAssumption, ElementOfSeq
  <2> QED
    BY <2>1, <2>2, <2>4, <2>5 DEF ContainerDesc
<1> QED
  BY <1>1, <1>2 DEF Lacks

\* After a call that was made and did what it could, for one container.
LEMMA StartsStepOfProcess ==
  ASSUME TypeOK, CallsInv, StartsInv, NEW p \in Proc, Step(p)
  PROVE  StartsInv'
<1> SUFFICES ASSUME quiet'["hand"]
             PROVE  /\ proc'["hand"].raised => proc'["hand"].calls = <<>>
                    /\ ~proc'["hand"].raised => \A n \in Wanted(proc'["hand"].cmd) :
                         (/\ PodReady(Ahead(proc["hand"].calls))
                          /\ WillRun(n, Ahead(proc["hand"].calls))
                          /\ CanStart(n, Ahead(proc["hand"].calls)))'
  BY DEF StartsInv
<1> DEFINE h     == proc["hand"]
           call  == Head(h.calls)
           s     == Ahead(h.calls)
           t     == Ahead(proc'["hand"].calls)
           start == [op |-> "start", on |-> call.on]
<1>1. "hand" \in Proc /\ p = "hand" /\ quiet["hand"]
  BY StepEffect DEF Proc
<1>2. PICK ok \in BOOLEAN :
        /\ h.calls # <<>> /\ h.calls \in Seq(Call)
        /\ call \in Call
        /\ call.op # "raise"
        /\ ok => Possible(call, podman)
        /\ podman' = IF ok THEN After(call, podman) ELSE podman
        /\ proc'["hand"].cmd = h.cmd /\ proc'["hand"].raised = h.raised
        /\ proc'["hand"].calls = Rest(call, ok, Tail(h.calls))
        /\ ok \/ ~Possible(call, podman)
  BY <1>1, StepEffect
<1>3. /\ s = {call} \cup Ahead(Tail(h.calls))
      /\ t = Ahead(Tail(h.calls)) \cup IF call.op = "run" /\ ~ok THEN {start} ELSE {}
      /\ \A c \in t : Follows(call, c)
  <2>1. InTurn(h.calls)
    BY <1>1 DEF CallsInv
  <2>2. h.calls \in Seq(Call) /\ h.calls # <<>> /\ ok \in BOOLEAN
    BY <1>2
  <2> QED
    BY <1>2, <2>1, <2>2, RestFacts
<1>4. ~h.raised /\ ~proc'["hand"].raised
  BY <1>1, <1>2 DEF StartsInv
<1> HIDE DEF call, s, t
<1>5. /\ s \subseteq {call} \cup t
      /\ t \subseteq s \cup {start}
      /\ call \in s
      /\ \A c \in t : Stage(call.op) <= Stage(c.op)
      /\ start \in t \/ start \in s \/ t \subseteq s
      /\ call.op = "run" /\ ~ok => start \in t
      /\ call.op # "run" \/ ok => t \subseteq s
  BY <1>2, <1>3 DEF Follows
<1>6. start.op = "start" /\ start.on = call.on /\ Stage("start") = 6 /\ Stage("run") = 6
      /\ Stage("podrm") = 4 /\ Stage("podcreate") = 5 /\ Stage("stop") = 2 /\ Stage("rm") = 3
  BY DEF Stage
<1> HIDE DEF start
<1>7. ok => Effect(call)
  BY <1>2, EffectFacts
<1>8. ~ok => Refused(call) /\ podman' = podman
  BY <1>2, RefusedFacts
<1>9. \A c : Stage(c.op) \in 1 .. 8
  BY StageIsNumber
<1> SUFFICES ASSUME NEW n \in Wanted(h.cmd)
             PROVE  PodReady(Ahead(h.calls))' /\ WillRun(n, Ahead(h.calls))' /\ CanStart(n, Ahead(h.calls))'
  BY <1>2, <1>4
<1>10. PodReady(s) /\ WillRun(n, s) /\ CanStart(n, s) /\ n \in Names
  BY <1>1, <1>4, WantedFacts DEF StartsInv, s
<1> DEFINE run    == CallOn("run", Desc(n))
           begin  == CallOn("start", Desc(n))
<1>11. /\ run.op = "run" /\ run.on = n /\ begin.op = "start" /\ begin.on = n
       /\ Raise.op = "raise" /\ PodCreate.op = "podcreate"
  BY <1>10, CallOnFacts DEF Raise, PodCreate
<1>12. call.op = "run" /\ call.on = n => start = begin
  BY <1>10, StackFacts DEF start, CallOn
<1>13. call.op = "start" /\ call.on = n => call = begin
  <2>1. call.op = "start" => call = [op |-> "start", on |-> call.on]
    BY <1>2 DEF Call, CntOps, StackOps
  <2> QED
    BY <1>10, <2>1, StackFacts DEF CallOn
<1> HIDE DEF run, begin
\* Once only the last stages are left, what runs, or is there, stays so.
<1>14. ASSUME \A c \in s : 6 <= Stage(c.op)
       PROVE  /\ \A c \in t : 6 <= Stage(c.op)
              /\ podman.cnt[n] = "running" => podman'.cnt[n] = "running"
              /\ podman.cnt[n] # "none" => podman'.cnt[n] # "none"
              /\ Lacks(n) => Lacks(n)'
  <2>1. \A c \in t : 6 <= Stage(c.op)
    BY <1>5, <1>6, <1>14
  <2>2. CASE ~ok
    BY <1>8, <2>1, <2>2 DEF Lacks
  <2>3. CASE ok
    <3>1. call.op \notin Builds \cup {"stop", "rm", "podrm", "podcreate"}
      <4>1. 6 <= Stage(call.op)
        BY <1>5, <1>14
      <4>2. call.op \in Builds => Stage(call.op) = 1
        BY DEF Builds, Stage
      <4> QED
        BY <1>6, <4>1, <4>2
    <3>2. call.op \in {"create", "run", "start", "attach", "restart"} \cup StackOps
      BY <1>2, <3>1, CallFacts DEF CntOps, Builds
    <3>3. /\ podman.cnt[n] = "running" => podman'.cnt[n] = "running"
          /\ podman.cnt[n] # "none" => podman'.cnt[n] # "none"
      <4>1. CASE call.on # n \/ call.op \in StackOps
        BY <1>7, <1>10, <2>3, <3>1, <4>1 DEF Effect
      <4>2. CASE call.on = n /\ call.op \in {"create", "run"}
        BY <1>7, <2>3, <4>2 DEF Effect
      <4>3. CASE call.on = n /\ call.op \in {"start", "attach", "restart"}
        BY <1>7, <2>3, <4>3 DEF Effect
      <4> QED
        BY <3>2, <4>1, <4>2, <4>3
    <3>4. Lacks(n) => Lacks(n)'
      <4>1. ServiceOf(n) \in Services
        BY <1>10, StackFacts
      <4>2. CASE call.op \notin {"create", "run"}
        <5>1. podman'.image[ServiceOf(n)] = podman.image[ServiceOf(n)]
          BY <1>7, <2>3, <3>1, <4>1, <4>2 DEF Effect
        <5> QED
          BY <5>1 DEF Lacks
      <4>3. CASE call.op \in {"create", "run"}
        <5>1. call.on \in Names /\ call.op \in CntOps
          BY <1>2, <4>3, CallFacts DEF CntOps
        <5>2. ~Lacks(call.on)
          BY <1>7, <2>3, <4>3 DEF Effect
        <5>3. CASE ServiceOf(call.on) = ServiceOf(n)
          BY <1>10, <5>1, <5>2, <5>3, WantedFacts
        <5>4. CASE ServiceOf(call.on) # ServiceOf(n)
          <6>1. podman'.image[ServiceOf(n)] = podman.image[ServiceOf(n)]
            BY <1>7, <2>3, <4>1, <5>1, <5>4 DEF Effect
          <6> QED
            BY <6>1 DEF Lacks
        <5> QED
          BY <5>3, <5>4
      <4> QED
        BY <4>2, <4>3
    <3> QED
      BY <2>1, <3>3, <3>4
  <2> QED
    BY <2>2, <2>3
<1>15. HasPod => PodCreate \in t \/ (podman'.pod /\ \A c \in t : 5 <= Stage(c.op))
  <2> SUFFICES ASSUME HasPod, PodCreate \notin t
               PROVE  podman'.pod /\ \A c \in t : 5 <= Stage(c.op)
    OBVIOUS
  <2>1. CASE PodCreate = call
    <3>1. podman'.pod
      <4>1. CASE ok
        BY <1>7, <1>11, <2>1, <4>1 DEF Effect
      <4>2. CASE ~ok
        BY <1>8, <1>11, <2>1, <4>2 DEF Refused
      <4> QED
        BY <4>1, <4>2
    <3> QED
      BY <1>5, <1>6, <1>11, <2>1, <3>1
  <2>2. CASE PodCreate # call
    <3>1. podman.pod /\ \A c \in s : 5 <= Stage(c.op)
      BY <1>5, <1>10, <2>2 DEF PodReady
    <3>2. call.op # "podrm"
      BY <1>5, <1>6, <3>1
    <3>3. podman'.pod
      <4>1. CASE ok
        BY <1>7, <3>1, <3>2, <4>1 DEF Effect
      <4>2. CASE ~ok
        BY <1>8, <3>1, <4>2
      <4> QED
        BY <4>1, <4>2
    <3>4. \A c \in t : 5 <= Stage(c.op)
      BY <1>5, <1>6, <3>1
    <3> QED
      BY <3>3, <3>4
  <2> QED
    BY <2>1, <2>2
<1>16. \/ Raise \in t \/ run \in t \/ begin \in t
       \/ (podman'.cnt[n] = "running" \/ Lacks(n)') /\ \A c \in t : 6 <= Stage(c.op)
  <2>1. \/ Raise \in s \/ run \in s \/ begin \in s
        \/ (podman.cnt[n] = "running" \/ Lacks(n)) /\ \A c \in s : 6 <= Stage(c.op)
    BY <1>10 DEF WillRun, run, begin
  <2>2. CASE Raise \in s
    BY <1>2, <1>5, <1>11, <2>2
  <2>3. CASE run \in s /\ run # call
    BY <1>5, <2>3
  <2>4. CASE run = call
    <3>1. CASE ok
      <4>1. podman'.cnt[n] = "running"
        BY <1>7, <1>11, <2>4, <3>1 DEF Effect
      <4>2. \A c \in t : 6 <= Stage(c.op)
        BY <1>5, <1>6, <1>11, <2>4
      <4> QED
        BY <4>1, <4>2
    <3>2. CASE ~ok
      BY <1>5, <1>11, <1>12, <2>4, <3>2
    <3> QED
      BY <3>1, <3>2
  <2>5. CASE begin \in s /\ begin # call
    BY <1>5, <2>5
  <2>6. CASE begin = call
    <3>1. \A c \in t : 6 <= Stage(c.op)
      BY <1>5, <1>6, <1>11, <2>6
    <3>2. CASE ok
      BY <1>7, <1>11, <2>6, <3>1, <3>2 DEF Effect
    <3>3. CASE ~ok
      <4>1. podman.cnt[n] = "none"
        BY <1>8, <1>11, <2>6, <3>3 DEF Refused
      <4>2. Lacks(n)
        BY <1>5, <1>10, <2>6, <4>1 DEF CanStart, begin
      <4> QED
        BY <1>8, <3>1, <3>3, <4>2 DEF Lacks
    <3> QED
      BY <3>2, <3>3
  <2>7. CASE (podman.cnt[n] = "running" \/ Lacks(n)) /\ \A c \in s : 6 <= Stage(c.op)
    BY <1>14, <2>7
  <2> QED
    BY <2>1, <2>2, <2>3, <2>4, <2>5, <2>6, <2>7
<1>17. ASSUME begin \in t
       PROVE  (podman'.cnt[n] # "none" \/ Lacks(n)') /\ \A c \in t : 6 <= Stage(c.op)
  <2>1. CASE begin \in s
    <3>1. (podman.cnt[n] # "none" \/ Lacks(n)) /\ \A c \in s : 6 <= Stage(c.op)
      BY <1>10, <2>1 DEF CanStart, begin
    <3> QED
      BY <1>14, <3>1
  <2>2. CASE begin \notin s
    <3>1. call.op = "run" /\ ~ok /\ begin = start
      BY <1>5, <1>17, <2>2
    <3>2. call.on = n
      BY <1>6, <1>11, <3>1
    <3>3. \A c \in t : 6 <= Stage(c.op)
      BY <1>5, <1>6, <3>1
    <3>4. PodCreate \notin s
      BY <1>5, <1>6, <1>11, <3>1, <3>3
    <3>5. HasPod => podman.pod
      BY <1>10, <3>4 DEF PodReady
    <3>6. podman.cnt[n] # "none" \/ Lacks(n)
      BY <1>8, <3>1, <3>2, <3>5 DEF Refused
    <3> QED
      BY <1>8, <3>1, <3>3, <3>6 DEF Lacks
  <2> QED
    BY <2>1, <2>2
<1> QED
  BY <1>15, <1>16, <1>17 DEF PodReady, WillRun, CanStart, run, begin, t

\* A command that begins has all of it ahead.
LEMMA StartsBegin ==
  ASSUME NEW a \in Args, NEW n \in Wanted(a)
  PROVE  LET s == Ahead(CallsOf(a)) IN
         /\ HasPod => PodCreate \in s
         /\ Raise \in s \/ CallOn("run", Desc(n)) \in s
         /\ CallOn("start", Desc(n)) \notin s
<1>1. n \in Names /\ Desc(n) \in Containers /\ Desc(n).service = ServiceOf(n)
  BY WantedFacts, StackFacts DEF ServiceOf
<1>2. CallOn("start", Desc(n)).op = "start" /\ "run" \in CntOps
  BY <1>1, CallOnFacts DEF CntOps
<1>3. HasPod => PodCreate \in Ahead(PodCalls)
  BY PodLists
<1>4. CASE a.cmd = "up"
  <2>1. a \in UpArgs /\ CallsOf(a) = UpCalls(a)
    BY <1>4 DEF Args, UpArgs, DownArgs, SomeArgs, RunArgs, PullArgs, PushArgs, BuildArgs, CallsOf
  <2>2. a.detach /\ ~a.no_start /\ ServiceOf(n) \notin Excluded(a.services)
    BY <1>4 DEF Wanted
  <2> DEFINE cs   == Included(a.services)
             conv == Converted(IF a.detach /\ ~a.no_start THEN "run" ELSE "create", cs)
  <2>3. cs \in Seq(Containers) /\ Desc(n) \in Ahead(cs)
    BY <1>1, <2>2, IncludedLists
  <2>4. conv = Converted("run", cs)
    BY <2>2
  <2>5. Ahead(PodCalls) \subseteq Ahead(UpCalls(a)) /\ Ahead(conv) \subseteq Ahead(UpCalls(a))
    BY <2>1, UpLists
  <2>6. \A c \in Ahead(UpCalls(a)) :
          c.op \in Builds \/ c \in Ahead(DownCalls(a.services)) \/ c = PodCreate
            \/ c \in Ahead(conv) \/ c.op = "attach"
    BY <2>1, UpLists
  <2> HIDE DEF cs, conv
  <2>7. /\ Ahead(conv) \subseteq {Raise} \cup {CallOn("run", c) : c \in Ahead(cs)}
        /\ Raise \notin Ahead(conv) => {CallOn("run", c) : c \in Ahead(cs)} \subseteq Ahead(conv)
    BY <1>2, <2>3, <2>4, ConvertedLists
  <2>8. \A c \in Ahead(UpCalls(a)) : c.op # "start"
    <3> SUFFICES ASSUME NEW c \in Ahead(UpCalls(a)) PROVE c.op # "start"
      OBVIOUS
    <3>1. CASE c \in Ahead(DownCalls(a.services))
      <4>1. c = PodRm \/ \E o \in {"stop", "rm"}, d \in Containers : c = CallOn(o, d)
        BY <3>1, DownLists
      <4>2. \A o, d : CallOn(o, d).op = o
        BY DEF CallOn
      <4>3. PodRm.op = "podrm"
        BY DEF PodRm
      <4> QED
        BY <4>1, <4>2, <4>3
    <3>2. CASE c \in Ahead(conv)
      <4>1. c = Raise \/ \E d \in Ahead(cs) : c = CallOn("run", d)
        BY <2>7, <3>2
      <4>2. \A d : CallOn("run", d).op = "run"
        BY DEF CallOn
      <4>3. Raise.op = "raise"
        BY DEF Raise
      <4> QED
        BY <4>1, <4>2, <4>3
    <3>3. CASE c.op \in Builds \/ c = PodCreate \/ c.op = "attach"
      <4>1. PodCreate.op = "podcreate" /\ "start" \notin Builds
        BY DEF Builds, PodCreate
      <4> QED
        BY <3>3, <4>1
    <3> QED
      BY <2>6, <3>1, <3>2, <3>3
  <2> QED
    BY <1>2, <1>3, <2>1, <2>3, <2>5, <2>7, <2>8
<1>5. CASE a.cmd = "run"
  <2>1. a \in RunArgs /\ CallsOf(a) = RunCalls(a)
    BY <1>5 DEF Args, UpArgs, DownArgs, SomeArgs, RunArgs, PullArgs, PushArgs, BuildArgs, CallsOf
  <2>2. ~a.no_deps /\ ServiceOf(n) \in Firsts(a.services)[1].needs
    BY <1>5 DEF Wanted
  <2> DEFINE needs == Firsts(a.services)[1].needs
             cs    == Included(needs)
             conv  == Converted("run", cs)
  <2>3. ServiceOf(n) \notin Excluded(needs)
    BY <2>2 DEF Excluded
  <2>4. cs \in Seq(Containers) /\ Desc(n) \in Ahead(cs)
    BY <1>1, <2>3, IncludedLists
  <2>5. /\ Ahead(PodCalls) \subseteq Ahead(RunCalls(a)) /\ Ahead(conv) \subseteq Ahead(RunCalls(a))
        /\ \A c \in Ahead(RunCalls(a)) : c.op # "start"
    BY <2>1, <2>2, RunLists
  <2> HIDE DEF cs
  <2>6. Raise \notin Ahead(conv) => {CallOn("run", c) : c \in Ahead(cs)} \subseteq Ahead(conv)
    BY <1>2, <2>4, ConvertedLists
  <2> QED
    BY <1>2, <1>3, <2>1, <2>4, <2>5, <2>6
<1> QED
  BY <1>4, <1>5 DEF Wanted

LEMMA StartsStep ==
  ASSUME TypeOK, CallsInv, StartsInv, [Next]_vars
  PROVE  StartsInv'
<1>1. CASE Other
  <2> SUFFICES ASSUME quiet'["hand"]
               PROVE  /\ proc'["hand"].raised => proc'["hand"].calls = <<>>
                      /\ ~proc'["hand"].raised => \A n \in Wanted(proc'["hand"].cmd) :
                           (/\ PodReady(Ahead(proc["hand"].calls))
                            /\ WillRun(n, Ahead(proc["hand"].calls))
                            /\ CanStart(n, Ahead(proc["hand"].calls)))'
    BY DEF StartsInv
  <2>1. "hand" \in Proc /\ "hand" # "main"
    BY DEF Proc
  <2>2. /\ Goes("hand") /\ podman'.cnt = podman.cnt /\ podman'.pod = podman.pod
        /\ podman'.image = podman.image
    BY <1>1, <2>1, OtherSteps DEF OtherEffect
  <2>3. CASE /\ proc'["hand"].cmd = proc["hand"].cmd /\ quiet["hand"]
             /\ proc'["hand"].calls = proc["hand"].calls
             /\ proc'["hand"].raised = proc["hand"].raised
    BY <2>2, <2>3 DEF StartsInv, PodReady, WillRun, CanStart, Lacks
  <2>4. CASE proc'["hand"].calls = <<>> /\ proc'["hand"].raised
    BY <2>4
  <2>5. ASSUME NEW a \in Args, proc'["hand"] = Begun(a, CallsOf(a))
        PROVE  /\ ~proc'["hand"].raised
               /\ \A n \in Wanted(proc'["hand"].cmd) :
                    (/\ PodReady(Ahead(proc["hand"].calls))
                     /\ WillRun(n, Ahead(proc["hand"].calls))
                     /\ CanStart(n, Ahead(proc["hand"].calls)))'
    <3>1. proc'["hand"].cmd = a /\ proc'["hand"].calls = CallsOf(a) /\ ~proc'["hand"].raised
      BY <2>5, BeginsFacts
    <3> QED
      BY <3>1, StartsBegin DEF PodReady, WillRun, CanStart
  <2> QED
    BY <2>1, <2>2, <2>3, <2>4, <2>5 DEF Goes
<1>2. CASE UNCHANGED vars
  BY <1>2 DEF StartsInv, PodReady, WillRun, CanStart, Lacks, vars
<1> QED
  BY <1>1, <1>2, NextIsStepOrOther, StartsStepOfProcess

--------------------------------------------------------------------------------
(* The theorems. *)

LEMMA InitInv == Init => ServiceInv
<1> SUFFICES ASSUME Init PROVE ServiceInv
  OBVIOUS
<1>1. /\ podman = [pod |-> FALSE, cnt |-> [n \in Names |-> "none"], made |-> [n \in Names |-> 0],
                   image |-> [s \in Services |-> 0], oneoff |-> "none"]
      /\ latest = [s \in Services |-> 1]
      /\ proc = [p \in Proc |-> Idle] /\ unit = "start"
      /\ left = [faults |-> MaxFaults, hands |-> MaxHands]
      /\ quiet = [p \in Proc |-> FALSE] /\ settled = TRUE
  BY DEF Init
<1>2. /\ \A p \in Proc : proc[p] = Idle /\ ~quiet[p] /\ proc[p].calls = <<>>
                         /\ proc[p].cmd = NoCommand /\ proc[p].alive = {}
      /\ {"main", "stop", "hand"} = Proc
  BY <1>1, IdleFacts DEF Proc
<1>3. Runs(podman) = {} /\ podman.oneoff # "running" /\ \A n \in Names : podman.cnt[n] = "none"
  BY <1>1 DEF Runs
<1>4. TypeOK
  <2>1. podman \in PodmanState
    <3>1. LastVersion \in Nat \ {0}
      BY SettingsAssumption
    <3>2. 0 \in Version /\ "none" \in CntState
      BY <3>1 DEF Version, CntState
    <3> QED
      BY <1>1, <3>2 DEF PodmanState
  <2>2. latest \in [Services -> 1 .. LastVersion]
    BY <1>1, SettingsAssumption
  <2>3. proc \in [Proc -> Process] /\ quiet \in [Proc -> BOOLEAN]
    BY <1>1, IdleFacts
  <2>4. left \in [faults : 0 .. MaxFaults, hands : 0 .. MaxHands]
    BY <1>1, SettingsAssumption
  <2> QED
    BY <1>1, <2>1, <2>2, <2>3, <2>4 DEF TypeOK
<1>5. InTurn(<<>>) /\ Ahead(<<>>) = {}
  BY AheadOfFew DEF InTurn
<1>6. CallsInv /\ AliveInv /\ PodInv
  <2>1. NoCommand.cmd = "none"
    BY DEF NoCommand
  <2> QED
    BY <1>2, <1>3, <1>5, <2>1 DEF CallsInv, AliveInv, PodInv
<1>7. UnitInv
  BY <1>1, <1>2 DEF UnitInv
<1>8. DownInv /\ StartsInv
  BY <1>2 DEF DownInv, DownOf, StartsInv
<1>9. SettledInv
  BY <1>1, <1>2, <1>3 DEF SettledInv
<1> QED
  BY <1>4, <1>6, <1>7, <1>8, <1>9 DEF ServiceInv

\* The invariant holds in every state the commands, the service, the containers
\* and the machine reach.
THEOREM ServiceInvariant == Spec => []ServiceInv
<1>1. ASSUME ServiceInv, [Next]_vars PROVE ServiceInv'
  <2>1. TypeOK' /\ CallsInv' /\ AliveInv' /\ PodInv' /\ UnitInv'
    BY <1>1, TypeStep, CallsStep, AliveStep, PodStep, UnitStep DEF ServiceInv
  <2>2. DownInv' /\ SettledInv' /\ StartsInv'
    BY <1>1, DownStep, SettledStep, StartsStep DEF ServiceInv
  <2> QED
    BY <2>1, <2>2 DEF ServiceInv
<1> QED
  BY <1>1, InitInv, PTL DEF Spec

\* Every variable of the commands and the service keeps its type.
THEOREM ServiceTypeCorrect == Spec => []TypeOK
<1>1. ServiceInv => TypeOK
  BY DEF ServiceInv
<1> QED
  BY <1>1, ServiceInvariant, PTL

\* A full down that nobody disturbed (compose_down, by the service's ExecStop or
\* by hand) leaves no container and no pod, whatever it found.
THEOREM FullDownLeavesNothing == Spec => []DownLeavesNothing
<1>1. ServiceInv => DownLeavesNothing
  <2> SUFFICES ASSUME DownInv, NEW p \in {"stop", "hand"},
                      proc[p].cmd.cmd = "down", Excluded(proc[p].cmd.services) = {},
                      proc[p].calls = <<>>, quiet[p]
               PROVE  /\ \A n \in Names : podman.cnt[n] = "none"
                      /\ podman.pod => podman.oneoff = "running" \/ ~HasPod
    BY DEF ServiceInv, DownLeavesNothing
  <2>1. Ahead(proc[p].calls) = {}
    BY AheadOfFew
  <2> QED
    BY <2>1 DEF DownInv, DownOf
<1> QED
  BY <1>1, ServiceInvariant, PTL

\* With refresh, ephemeral and a pod, each container that up waits for was made
\* from the image that is stored, however the last run of the service ended.
THEOREM StoredImageRuns == Spec => []RunsStoredImage
<1>1. ServiceInv => RunsStoredImage
  <2> SUFFICES ASSUME AliveInv, SettledInv, unit = "up", settled, Ephemeral, HasPod,
                      NEW n \in proc["main"].alive
               PROVE  podman.made[n] = podman.image[ServiceOf(n)]
    BY DEF ServiceInv, RunsStoredImage
  <2>1. n \in Runs(podman)
    BY DEF AliveInv, Proc
  <2>2. n \in Names /\ podman.cnt[n] = "running"
    BY <2>1 DEF Runs
  <2> QED
    BY <2>2 DEF SettledInv
<1> QED
  BY <1>1, ServiceInvariant, PTL

\* An undisturbed up in the background ends with its containers running, and an
\* undisturbed podman-compose run starts its own after what the service needs,
\* except where there is no image to make a container from.
THEOREM WhatIsNeededStarts == Spec => []StartsWhatIsNeeded
<1>1. ASSUME ServiceInv PROVE UpStartsAll
  <2> DEFINE h == proc["hand"]
  <2> SUFFICES ASSUME h.cmd.cmd = "up", h.calls = <<>>, quiet["hand"], ~h.raised,
                      h.cmd.detach, ~h.cmd.no_start, NEW n \in Names,
                      ServiceOf(n) \notin Excluded(h.cmd.services)
               PROVE  podman.image[ServiceOf(n)] = 0 \/ podman.cnt[n] = "running"
    BY DEF UpStartsAll, Done
  <2>1. n \in Wanted(h.cmd)
    BY DEF Wanted
  <2>2. WillRun(n, Ahead(h.calls))
    BY <1>1, <2>1 DEF ServiceInv, StartsInv
  <2>3. Ahead(h.calls) = {}
    BY AheadOfFew
  <2> QED
    BY <2>2, <2>3 DEF WillRun, Lacks
<1>2. ASSUME ServiceInv PROVE NeedsRunFirst
  <2> DEFINE h    == proc["hand"]
             call == Head(h.calls)
  <2> SUFFICES ASSUME h.cmd.cmd = "run", quiet["hand"], h.calls # <<>>, call.op = "oneoff",
                      ~h.cmd.no_deps, NEW i \in DOMAIN Firsts(h.cmd.services), NEW n \in Names,
                      ServiceOf(n) \in Firsts(h.cmd.services)[i].needs
               PROVE  podman.cnt[n] = "running" \/ podman.image[ServiceOf(n)] = 0
    BY DEF NeedsRunFirst
  <2>1. /\ h.cmd \in Args \cup {NoCommand, UnitPre} /\ h.calls \in Seq(Call)
        /\ TypeOK /\ CallsInv /\ StartsInv /\ "hand" \in Proc
    BY <1>2 DEF ServiceInv, TypeOK, Process, Proc
  <2>2. h.cmd \in RunArgs
    BY <2>1 DEF Args, UpArgs, DownArgs, SomeArgs, RunArgs, PullArgs, PushArgs, BuildArgs,
                NoCommand, UnitPre
  <2>3. PICK x \in Services : h.cmd.services = {x}
    BY <2>2 DEF RunArgs
  <2>4. i = 1
    BY <2>3, FirstsLists
  <2>5. n \in Wanted(h.cmd)
    BY <2>4 DEF Wanted
  <2>6. WillRun(n, Ahead(h.calls))
    BY <2>1, <2>5 DEF StartsInv
  <2>7. call \in Call /\ Ahead(h.calls) = {call} \cup Ahead(Tail(h.calls))
    BY <2>1, AheadOfTail
  <2>8. \A y \in Ahead(Tail(h.calls)) : Follows(call, y)
    BY <2>1, InTurnTail DEF CallsInv
  <2> HIDE DEF call
  <2>9. \A y \in Ahead(h.calls) : 7 <= Stage(y.op)
    <3>1. Stage("oneoff") = 7
      BY DEF Stage
    <3> QED
      BY <2>7, <2>8, <3>1 DEF Follows
  <2>10. /\ Raise.op = "raise" /\ CallOn("run", Desc(n)).op = "run"
         /\ CallOn("start", Desc(n)).op = "start"
         /\ Stage("raise") = 6 /\ Stage("run") = 6 /\ Stage("start") = 6
    BY CallOnFacts DEF Raise, Stage
  <2>11. /\ Raise \notin Ahead(h.calls) /\ CallOn("run", Desc(n)) \notin Ahead(h.calls)
         /\ CallOn("start", Desc(n)) \notin Ahead(h.calls)
    BY <2>9, <2>10
  <2> QED
    BY <2>6, <2>11 DEF WillRun, Lacks
<1> QED
  BY <1>1, <1>2, ServiceInvariant, PTL DEF StartsWhatIsNeeded

\* A command for some services never touches the containers of the excluded
\* ones (get_excluded): neither its calls do, nor its end.
THEOREM OthersStayUntouched == Spec => OthersUntouched
<1> DEFINE picks == {"up", "down", "start", "stop", "restart"}
           Untouched == \A n \in Names :
             /\ podman'.cnt[n] # podman.cnt[n]
             /\ proc'["hand"].calls # proc["hand"].calls
             /\ proc["hand"].cmd.cmd \in picks
             /\ proc'["hand"].cmd = proc["hand"].cmd
             => ServiceOf(n) \notin Excluded(proc["hand"].cmd.services)
<1>1. ASSUME ServiceInv, Next PROVE Untouched
  <2> SUFFICES ASSUME NEW n \in Names, podman'.cnt[n] # podman.cnt[n],
                      proc'["hand"].calls # proc["hand"].calls,
                      proc["hand"].cmd.cmd \in picks,
                      proc'["hand"].cmd = proc["hand"].cmd
               PROVE  ServiceOf(n) \notin Excluded(proc["hand"].cmd.services)
    OBVIOUS
  <2>1. /\ TypeOK /\ CallsInv /\ AliveInv /\ "hand" \in Proc
        /\ podman \in PodmanState /\ proc \in [Proc -> Process]
    BY <1>1 DEF ServiceInv, TypeOK, Proc
  <2>2. ASSUME NEW p \in Proc, Step(p)
        PROVE  ServiceOf(n) \notin Excluded(proc["hand"].cmd.services)
    <3> DEFINE call == Head(proc["hand"].calls)
    <3>1. p = "hand"
      BY <2>1, <2>2, StepEffect
    <3>2. PICK ok \in BOOLEAN :
            /\ proc["hand"].calls # <<>> /\ proc["hand"].calls \in Seq(Call)
            /\ call \in Call
            /\ ok => Possible(call, podman)
            /\ podman' = IF ok THEN After(call, podman) ELSE podman
      BY <2>1, <2>2, <3>1, StepEffect
    <3>3. call \in Ahead(proc["hand"].calls)
      BY <3>2, AheadOfTail
    <3>4. May(proc["hand"].cmd, call)
      BY <2>1, <3>3 DEF CallsInv
    <3> HIDE DEF call
    <3>5. Effect(call)
      BY <2>1, <3>2, EffectFacts
    <3>6. call.op = "podrm" \/ (call.on = n /\ call.op \in CntOps)
      BY <3>2, <3>5, CallFacts DEF Effect
    <3> QED
      BY <3>4, <3>6 DEF May
  <2>3. CASE HandInterrupted
    <3>1. PICK gone \in SUBSET (proc["hand"].alive \cap Runs(podman)) : Killed("hand", gone)
      BY <2>3 DEF HandInterrupted
    <3>2. podman'.cnt[n] = IF n \in gone THEN "exited" ELSE podman.cnt[n]
      BY <2>1, <3>1, GoneFacts DEF Killed
    <3> QED
      BY <2>1, <3>1, <3>2 DEF AliveInv
  <2>4. ~(RaiseStep("hand") \/ \E p \in Proc : RaiseStep(p) \/ Join(p))
    BY DEF RaiseStep, Join
  <2>5. ~\E a \in Commands : HandBegins(a)
    BY DEF HandBegins
  <2>6. ~(StartUnit \/ BeginPre \/ BeginUp \/ UpEnds \/ UpKilled \/ StopUnit)
    BY DEF StartUnit, BeginPre, BeginUp, UpEnds, UpKilled, StopUnit
  <2>7. ~StopEnds
    <3> SUFFICES ASSUME StopEnds PROVE FALSE
      OBVIOUS
    <3> DEFINE now(q) == StillAlive(proc[q], podman', {})
    <3>1. proc' = [p \in Proc |->
            CASE p = "main" -> [now(p) EXCEPT !.calls = <<>>, !.threads = {}, !.alive = {}]
              [] p = "stop" -> [now(p) EXCEPT !.calls = <<>>]
              [] OTHER      -> now(p)]
      BY DEF StopEnds
    <3> HIDE DEF now
    <3>2. proc'["hand"] = now("hand")
      BY <2>1, <3>1
    <3>3. proc'["hand"].calls = proc["hand"].calls
      BY <2>1, <3>2, StillAliveFacts DEF now
    <3> QED
      BY <3>3
  <2>8. ~\E c \in Names : Exits(c)
    <3> SUFFICES ASSUME NEW c \in Names, Exits(c) PROVE FALSE
      OBVIOUS
    <3>1. proc'["hand"] = StillAlive(proc["hand"], podman', {})
      BY <2>1 DEF Exits
    <3>2. proc'["hand"].calls = proc["hand"].calls
      BY <2>1, <3>1, StillAliveFacts
    <3> QED
      BY <3>2
  <2>9. ~OneOffEnds /\ ~\E s \in Services : Publish(s)
    BY DEF OneOffEnds, Publish
  <2>10. ~Reboot
    <3> SUFFICES ASSUME Reboot PROVE FALSE
      OBVIOUS
    <3>1. proc'["hand"] = Idle
      BY <2>1 DEF Reboot
    <3>2. proc'["hand"].cmd.cmd = "none"
      BY <3>1, IdleFacts DEF NoCommand
    <3> QED
      BY <3>2
  <2> QED
    BY <1>1, <2>2, <2>3, <2>4, <2>5, <2>6, <2>7, <2>8, <2>9, <2>10 DEF Next, Unit
<1>2. ServiceInv /\ [Next]_vars => [Untouched]_vars
  BY <1>1
<1>3. [Untouched]_vars <=>
        [\A n \in Names :
           /\ podman'.cnt[n] # podman.cnt[n]
           /\ proc'["hand"].calls # proc["hand"].calls
           /\ proc["hand"].cmd.cmd \in {"up", "down", "start", "stop", "restart"}
           /\ proc'["hand"].cmd = proc["hand"].cmd
           => ServiceOf(n) \notin Excluded(proc["hand"].cmd.services)]_vars
  OBVIOUS
<1> HIDE DEF Untouched
<1> QED
  BY <1>2, <1>3, ServiceInvariant, PTL DEF Spec, OthersUntouched

================================================================================
