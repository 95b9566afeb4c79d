--------------------------- MODULE ComposeFileProofs ---------------------------
(***************************************************************************)
(* The properties of modules ComposeDeps and ComposeFile, for every set of *)
(* compose files, any number of services and every order they are listed   *)
(* in.                                                                     *)
(*                                                                         *)
(* flat_deps computes the transitive closure of every compose file without *)
(* a cycle, in whatever order its sets are walked, so that ordering the    *)
(* services by the size of their sets is a start order.  Its recursion     *)
(* overflows the stack of Python only for a loop that avoids the           *)
(* service it started from, while frames are not fewer than services.      *)
(*                                                                         *)
(* Bases come before the services that extend them because the walk of     *)
(* ComposeDeps found more names for the latter (QueueInv), so every merge  *)
(* is with a base that has all it will ever have (ChainInv); after that    *)
(* the list of containers is a function of the services (ListedInv).       *)
(***************************************************************************)
EXTENDS ComposeFile, RankingProofs, TLAPS, FiniteSetTheorems, SequenceTheorems

--------------------------------------------------------------------------------
(* ComposeDeps: what a service needs, and the walk that finds it. *)

\* What a service needs holds the names it gives and is closed, and no
\* smaller set is.
LEMMA NeedsIsLeast ==
  ASSUME NEW g \in [Service -> SUBSET Name], NEW s \in Service
  PROVE  /\ Needs(g, s) \subseteq Name
         /\ g[s] \subseteq Needs(g, s)
         /\ Closed(g, Needs(g, s))
         /\ \A S \in SUBSET Name :
              g[s] \subseteq S /\ Closed(g, S) => Needs(g, s) \subseteq S
<1>1. /\ Needs(g, s) \subseteq Name
      /\ \A S \in SUBSET Name :
           g[s] \subseteq S /\ Closed(g, S) => Needs(g, s) \subseteq S
  BY DEF Needs
<1>2. g[s] \subseteq Needs(g, s)
  BY DEF Needs
<1>3. Closed(g, Needs(g, s))
  <2> SUFFICES ASSUME NEW m \in Needs(g, s) \cap Service, NEW n \in g[m],
                      NEW S \in SUBSET Name, g[s] \subseteq S, Closed(g, S)
               PROVE  n \in S
    BY ServiceAssumption DEF Closed, Needs
  <2>1. m \in S
    BY <1>1
  <2> QED
    BY <2>1 DEF Closed
<1> QED
  BY <1>1, <1>2, <1>3

\* Needing is transitive.
LEMMA NeedsTransitive ==
  ASSUME NEW g \in [Service -> SUBSET Name], NEW s \in Service,
         NEW m \in Needs(g, s) \cap Service
  PROVE  Needs(g, m) \subseteq Needs(g, s)
<1>1. g[m] \subseteq Needs(g, s) /\ Closed(g, Needs(g, s)) /\ Needs(g, s) \in SUBSET Name
  BY NeedsIsLeast DEF Closed
<1> QED
  BY <1>1, NeedsIsLeast

\* A set with the given names of a service and everything these need holds
\* all the service needs.
LEMMA NeedsByParts ==
  ASSUME NEW g \in [Service -> SUBSET Name], NEW s \in Service, NEW S \in SUBSET Name,
         g[s] \subseteq S,
         \A d \in g[s] \cap Service : Needs(g, d) \subseteq S
  PROVE  Needs(g, s) \subseteq S
<1> DEFINE P == g[s] \cup UNION {Needs(g, d) : d \in g[s] \cap Service}
<1>1. P \in SUBSET Name /\ P \subseteq S /\ g[s] \subseteq P
  BY NeedsIsLeast
<1>2. Closed(g, P)
  <2> SUFFICES ASSUME NEW m \in P \cap Service
               PROVE  g[m] \subseteq P
    BY DEF Closed
  <2>1. CASE m \in g[s]
    BY <2>1, NeedsIsLeast
  <2>2. CASE m \notin g[s]
    <3>1. PICK d \in g[s] \cap Service : m \in Needs(g, d)
      BY <2>2
    <3>2. g[m] \subseteq Needs(g, d)
      BY <3>1, NeedsIsLeast DEF Closed
    <3> QED
      BY <3>2
  <2> QED
    BY <2>1, <2>2
<1> QED
  BY <1>1, <1>2, NeedsIsLeast

--------------------------------------------------------------------------------
(* What the steps do to the frames. *)

\* Positions of a sequence of n frames.
LEMMA Positions ==
  \A n \in Nat \ {0} : /\ n \in 1 .. n
                       /\ n # 1 => n - 1 \in 1 .. n /\ n - 1 \in 1 .. n - 1
                       /\ n - 1 + 1 = n
OBVIOUS

\* The frames of a running walk.
LEMMA TopIsFrame ==
  ASSUME DepsTypeOK, stack # <<>>
  PROVE  /\ Len(stack) \in Nat \ {0}
         /\ \A i \in 1 .. Len(stack) :
              stack[i] \in Frame /\ stack[i].srv \in Service /\ stack[i].left \subseteq Name
         /\ Top = stack[Len(stack)]
<1>1. stack \in Seq(Frame)
  BY DEF DepsTypeOK
<1>2. Len(stack) \in Nat \ {0} /\ \A i \in 1 .. Len(stack) : stack[i] \in Frame
  BY <1>1
<1>3. \A f \in Frame : f.srv \in Service /\ f.left \subseteq Name
  BY DEF Frame
<1> QED
  BY <1>2, <1>3 DEF Top

\* A name leaves the top frame and nothing else changes.
LEMMA DropStack ==
  ASSUME DepsTypeOK, stack # <<>>, NEW d
  PROVE  /\ Drop(d) \in Seq(Frame)
         /\ Len(Drop(d)) = Len(stack)
         /\ \A i \in 1 .. Len(stack) :
              /\ Drop(d)[i].srv = stack[i].srv
              /\ Drop(d)[i].left = IF i = Len(stack) THEN stack[i].left \ {d}
                                                     ELSE stack[i].left
<1> DEFINE top == [srv |-> Top.srv, left |-> Top.left \ {d}]
<1>1. Len(stack) \in 1 .. Len(stack) /\ Top = stack[Len(stack)]
  BY TopIsFrame
<1>2. top \in Frame /\ top.srv = Top.srv /\ top.left = Top.left \ {d}
  BY <1>1, TopIsFrame DEF Frame
<1>3. stack \in Seq(Frame) /\ Drop(d) = [stack EXCEPT ![Len(stack)] = top]
  BY DEF DepsTypeOK, Drop
<1> HIDE DEF top
<1>4. /\ Drop(d) \in Seq(Frame)
      /\ Len(Drop(d)) = Len(stack)
      /\ \A i \in 1 .. Len(stack) :
           Drop(d)[i] = IF i = Len(stack) THEN top ELSE stack[i]
  BY <1>1, <1>2, <1>3, ExceptSeq
<1>5. ASSUME NEW i \in 1 .. Len(stack)
      PROVE  /\ Drop(d)[i].srv = stack[i].srv
             /\ Drop(d)[i].left = IF i = Len(stack) THEN stack[i].left \ {d}
                                                    ELSE stack[i].left
  <2>1. CASE i = Len(stack)
    BY <2>1, <1>1, <1>2, <1>4
  <2>2. CASE i # Len(stack)
    BY <2>2, <1>4
  <2> QED
    BY <2>1, <2>2
<1> QED
  BY <1>4, <1>5

\* A name that is not followed leaves the top frame: every frame keeps its
\* service, and its names but at most that one.
LEMMA SkipStack ==
  ASSUME DepsTypeOK, stack # <<>>, NEW d, stack' = Drop(d),
         NEW n \in Nat, n = Len(stack)
  PROVE  /\ Len(stack') = n
         /\ \A i \in 1 .. n : /\ stack'[i].srv = stack[i].srv
                              /\ stack'[i].left \subseteq stack[i].left
                              /\ stack[i].left \ {d} \subseteq stack'[i].left
<1>1. Len(Drop(d)) = Len(stack)
  BY DropStack
<1>2. \A i \in 1 .. Len(stack) :
        /\ Drop(d)[i].srv = stack[i].srv
        /\ Drop(d)[i].left = IF i = Len(stack) THEN stack[i].left \ {d}
                                               ELSE stack[i].left
  BY DropStack
<1>3. Len(stack') = n
  BY <1>1
<1>4. ASSUME NEW i \in 1 .. n
      PROVE  /\ stack'[i].srv = stack[i].srv
             /\ stack'[i].left \subseteq stack[i].left
             /\ stack[i].left \ {d} \subseteq stack'[i].left
  <2>1. /\ stack'[i].srv = stack[i].srv
        /\ stack'[i].left \in {stack[i].left \ {d}, stack[i].left}
    BY <1>2
  <2> QED
    BY <2>1
<1> QED
  BY <1>3, <1>4

\* A call puts a frame on top, with a copy of the set of the called service.
LEMMA FollowStack ==
  ASSUME DepsTypeOK, NEW d \in Name, Follow(d), Len(stack) < MaxDepth
  PROVE  /\ stack' \in Seq(Frame)
         /\ Len(stack') = Len(stack) + 1
         /\ stack'[Len(stack) + 1].srv = d
         /\ stack'[Len(stack) + 1].left = deps[d]
         /\ \A i \in 1 .. Len(stack) : stack'[i] = Drop(d)[i]
<1> DEFINE new == [srv |-> d, left |-> deps[d]]
<1>1. new \in Frame /\ new.srv = d /\ new.left = deps[d]
  BY DEF DepsTypeOK, Follow, Followed, Frame
<1>2. stack # <<>> /\ stack' = Append(Drop(d), new)
  BY DEF Follow
<1>3. Drop(d) \in Seq(Frame) /\ Len(Drop(d)) = Len(stack)
  BY <1>2, DropStack
<1> HIDE DEF new
<1>4. /\ stack' \in Seq(Frame)
      /\ Len(stack') = Len(Drop(d)) + 1
      /\ \A i \in 1 .. Len(Drop(d)) : stack'[i] = Drop(d)[i]
      /\ stack'[Len(Drop(d)) + 1] = new
  BY <1>1, <1>2, <1>3, AppendProperties
<1> QED
  BY <1>1, <1>3, <1>4

\* A return takes the top frame away.
LEMMA ReturnStack ==
  ASSUME DepsTypeOK, Return
  PROVE  /\ stack' \in Seq(Frame)
         /\ Len(stack') = Len(stack) - 1
         /\ \A i \in 1 .. Len(stack) - 1 : stack'[i] = stack[i]
<1> DEFINE n == Len(stack) - 1
<1>1. n \in Nat /\ \A i \in 1 .. n : stack[i] \in Frame
  BY TopIsFrame DEF Return
<1>2. stack' = SubSeq(stack, 1, n)
  BY DEF Return
<1> HIDE DEF n
<1>3. /\ SubSeq(stack, 1, n) \in Seq(Frame)
      /\ Len(SubSeq(stack, 1, n)) = IF 1 <= n THEN n - 1 + 1 ELSE 0
      /\ \A i \in 1 .. n - 1 + 1 : SubSeq(stack, 1, n)[i] = stack[1 + i - 1]
  BY <1>1, SubSeqProperties
<1>4. stack' \in Seq(Frame) /\ Len(stack') = n /\ \A i \in 1 .. n : stack'[i] = stack[i]
  BY <1>1, <1>2, <1>3
<1> QED
  BY <1>4 DEF n

--------------------------------------------------------------------------------
\* Every step keeps the types.
LEMMA DepsTypeStep == DepsTypeOK /\ [DepsNext]_depsVars => DepsTypeOK'
<1> SUFFICES ASSUME DepsTypeOK, [DepsNext]_depsVars
             PROVE  DepsTypeOK'
  OBVIOUS
<1>1. ASSUME NEW s \in Service, Visit(s)
      PROVE  DepsTypeOK'
  BY <1>1 DEF Visit, Frame, DepsTypeOK
<1>2. ASSUME NEW d \in Name, Skip(d)
      PROVE  DepsTypeOK'
  BY <1>2, DropStack DEF Skip, DepsTypeOK
<1>3. ASSUME NEW d \in Name, Follow(d)
      PROVE  DepsTypeOK'
  BY <1>3, FollowStack DEF Follow, DepsTypeOK
<1>4. ASSUME Return
      PROVE  DepsTypeOK'
  <2>1. stack' \in Seq(Frame)
    BY <1>4, ReturnStack
  <2>2. deps' \in [Service -> SUBSET Name]
    <3>1. CASE Len(stack) = 1
      BY <1>4, <3>1 DEF Return, DepsTypeOK
    <3>2. CASE Len(stack) # 1
      <4>1. Top.srv \in Service /\ Caller.srv \in Service
        <5>0. stack # <<>>
          BY <1>4 DEF Return
        <5>1. Len(stack) \in 1 .. Len(stack) /\ Len(stack) - 1 \in 1 .. Len(stack)
          BY <5>0, <3>2, TopIsFrame, Positions
        <5> QED
          BY <5>0, <5>1, TopIsFrame DEF Caller
      <4> QED
        BY <1>4, <3>2, <4>1 DEF Return, DepsTypeOK
    <3> QED
      BY <3>1, <3>2
  <2> QED
    BY <1>4, <2>1, <2>2 DEF Return, DepsTypeOK
<1>5. CASE UNCHANGED depsVars
  BY <1>5 DEF depsVars, DepsTypeOK
<1> QED
  BY <1>1, <1>2, <1>3, <1>4, <1>5 DEF DepsNext

\* The values of the variables are of their types.
THEOREM DepsTypeCorrect == DepsSpec => []DepsTypeOK
<1>1. DepsInit => DepsTypeOK
  <2>1. <<>> \in Seq(Frame)
    BY EmptySeq
  <2> QED
    BY <2>1 DEF DepsInit, DepsTypeOK
<1> QED
  BY <1>1, DepsTypeStep, PTL DEF DepsSpec

--------------------------------------------------------------------------------
(* The sets stay between what the file gives and what it implies. *)

\* DepsSound with what the frames hold: names of the set of their service.
SoundInv ==
  /\ DepsSound
  /\ \A i \in 1 .. Len(stack) : stack[i].left \subseteq deps[stack[i].srv]
  /\ \A i \in 1 .. Len(stack) - 1 : stack[i + 1].srv \in deps[stack[i].srv]

\* A return adds to the caller's set only what the caller needs.
LEMMA ReturnGrows ==
  ASSUME DepsTypeOK, SoundInv, Return
  PROVE  \A s \in Service : /\ deps[s] \subseteq deps'[s]
                            /\ deps'[s] \subseteq Needs(direct, s)
<1>1. stack # <<>> /\ Len(stack) \in Nat \ {0}
  BY TopIsFrame DEF Return
<1>2. CASE Len(stack) = 1
  BY <1>2 DEF Return, SoundInv, DepsSound
<1>3. CASE Len(stack) # 1
  <2>1. /\ Len(stack) \in 1 .. Len(stack)
        /\ Len(stack) - 1 \in 1 .. Len(stack)
        /\ Len(stack) - 1 + 1 = Len(stack)
    BY <1>1, <1>3, Positions
  <2>2. Top.srv \in Service /\ Caller.srv \in Service
    BY <1>1, <2>1, TopIsFrame DEF Caller
  <2>3. Top.srv \in deps[Caller.srv]
    <3>1. Len(stack) - 1 \in 1 .. Len(stack) - 1
      BY <1>1, <1>3, Positions
    <3> QED
      BY <2>1, <3>1 DEF SoundInv, Top, Caller
  <2>4. Top.srv \in Needs(direct, Caller.srv) /\ deps[Top.srv] \subseteq Needs(direct, Top.srv)
    BY <2>2, <2>3 DEF SoundInv, DepsSound
  <2>5. Needs(direct, Top.srv) \subseteq Needs(direct, Caller.srv)
    BY <2>2, <2>4, NeedsTransitive DEF DepsTypeOK
  <2>6. deps' = [deps EXCEPT ![Caller.srv] = @ \cup deps[Top.srv]]
    BY <1>3 DEF Return
  <2> QED
    BY <2>2, <2>4, <2>5, <2>6 DEF SoundInv, DepsSound, DepsTypeOK
<1> QED
  BY <1>2, <1>3

\* Every step keeps SoundInv.
LEMMA SoundStep == DepsTypeOK /\ SoundInv /\ [DepsNext]_depsVars => SoundInv'
<1> SUFFICES ASSUME DepsTypeOK, SoundInv, [DepsNext]_depsVars
             PROVE  SoundInv'
  OBVIOUS
<1>1. ASSUME NEW s \in Service, Visit(s)
      PROVE  SoundInv'
  <2>1. /\ Len(stack') = 1
        /\ stack'[1].srv = s
        /\ stack'[1].left = deps[s]
        /\ deps' = deps /\ direct' = direct
    BY <1>1 DEF Visit
  <2> QED
    BY <2>1 DEF SoundInv, DepsSound
<1>2. ASSUME NEW d \in Name, Skip(d)
      PROVE  SoundInv'
  <2>1. stack # <<>> /\ stack' = Drop(d) /\ deps' = deps /\ direct' = direct
    BY <1>2 DEF Skip
  <2>2. PICK n \in Nat \ {0} : n = Len(stack)
    BY <2>1, TopIsFrame
  <2>3. /\ Len(stack') = n
        /\ \A i \in 1 .. n : /\ stack'[i].srv = stack[i].srv
                             /\ stack'[i].left \subseteq stack[i].left
    BY <2>1, <2>2, SkipStack
  <2>4. \A i \in 1 .. n : stack'[i].left \subseteq deps[stack'[i].srv]
    BY <2>2, <2>3 DEF SoundInv
  <2>5. \A i \in 1 .. n - 1 : stack'[i + 1].srv \in deps[stack'[i].srv]
    <3>1. \A i \in 1 .. n - 1 : i \in 1 .. n /\ i + 1 \in 1 .. n
      OBVIOUS
    <3> QED
      BY <2>2, <2>3, <3>1 DEF SoundInv
  <2> QED
    BY <2>1, <2>3, <2>4, <2>5 DEF SoundInv, DepsSound
<1>3. ASSUME NEW d \in Name, Follow(d)
      PROVE  SoundInv'
  <2>1. CASE Len(stack) < MaxDepth
    <3>1. stack # <<>> /\ deps' = deps /\ direct' = direct
      BY <1>3 DEF Follow
    <3>2. PICK n \in Nat \ {0} : n = Len(stack)
      BY <3>1, TopIsFrame
    <3>3. /\ Len(stack') = n + 1
          /\ stack'[n + 1].srv = d /\ stack'[n + 1].left = deps[d]
          /\ \A i \in 1 .. n : /\ stack'[i].srv = stack[i].srv
                               /\ stack'[i].left \subseteq stack[i].left
      <4>1. /\ Len(stack') = n + 1
            /\ stack'[n + 1].srv = d /\ stack'[n + 1].left = deps[d]
            /\ \A i \in 1 .. n : stack'[i] = Drop(d)[i]
        BY <1>3, <2>1, <3>2, FollowStack
      <4>2. \A i \in 1 .. n : /\ Drop(d)[i].srv = stack[i].srv
                              /\ Drop(d)[i].left \subseteq stack[i].left
        BY <3>1, <3>2, DropStack
      <4> QED
        BY <4>1, <4>2
    <3>4. d \in deps[stack[n].srv]
      BY <1>3, <3>2, Positions DEF Follow, Top, SoundInv
    <3>5. ASSUME NEW i \in 1 .. n + 1
          PROVE  stack'[i].left \subseteq deps[stack'[i].srv]
      <4>1. CASE i = n + 1
        BY <3>3, <4>1
      <4>2. CASE i # n + 1
        <5>1. i \in 1 .. n
          BY <4>2
        <5> QED
          BY <3>2, <3>3, <5>1 DEF SoundInv
      <4> QED
        BY <4>1, <4>2
    <3>6. ASSUME NEW i \in 1 .. n + 1 - 1
          PROVE  stack'[i + 1].srv \in deps[stack'[i].srv]
      <4>1. i \in 1 .. n /\ (i # n => i + 1 \in 1 .. n /\ i \in 1 .. n - 1)
        OBVIOUS
      <4>2. CASE i = n
        BY <3>3, <3>4, <4>1, <4>2
      <4>3. CASE i # n
        BY <3>2, <3>3, <4>1, <4>3 DEF SoundInv
      <4> QED
        BY <4>2, <4>3
    <3> QED
      BY <3>1, <3>3, <3>5, <3>6 DEF SoundInv, DepsSound
  <2>2. CASE ~(Len(stack) < MaxDepth)
    BY <1>3, <2>2 DEF Follow, SoundInv, DepsSound
  <2> QED
    BY <2>1, <2>2
<1>4. ASSUME Return
      PROVE  SoundInv'
  <2>1. stack # <<>> /\ direct' = direct
    BY <1>4 DEF Return
  <2>2. PICK n \in Nat \ {0} : n = Len(stack)
    BY <2>1, TopIsFrame
  <2>3. DepsSound'
    BY <1>4, <2>1, ReturnGrows DEF SoundInv, DepsSound
  <2>4. /\ Len(stack') = n - 1
        /\ \A i \in 1 .. n - 1 : stack'[i] = stack[i] /\ stack[i].srv \in Service
    <3>1. \A i \in 1 .. n - 1 : i \in 1 .. n
      OBVIOUS
    <3> QED
      BY <1>4, <2>1, <2>2, <3>1, ReturnStack, TopIsFrame
  <2>5. \A i \in 1 .. n - 1 : stack'[i].left \subseteq deps'[stack'[i].srv]
    <3>1. \A i \in 1 .. n - 1 : i \in 1 .. n
      OBVIOUS
    <3> QED
      BY <1>4, <2>2, <2>4, <3>1, ReturnGrows DEF SoundInv
  <2>6. \A i \in 1 .. n - 1 - 1 : stack'[i + 1].srv \in deps'[stack'[i].srv]
    <3>1. \A i \in 1 .. n - 1 - 1 : i \in 1 .. n - 1 /\ i + 1 \in 1 .. n - 1
      OBVIOUS
    <3> QED
      BY <1>4, <2>2, <2>4, <3>1, ReturnGrows DEF SoundInv
  <2> QED
    BY <2>3, <2>4, <2>5, <2>6 DEF SoundInv
<1>5. CASE UNCHANGED depsVars
  BY <1>5 DEF depsVars, SoundInv, DepsSound
<1> QED
  BY <1>1, <1>2, <1>3, <1>4, <1>5 DEF DepsNext

\* flat_deps invents nothing and loses nothing the file says, for every graph,
\* also while it runs and when it fails.
THEOREM DepsAreSound == DepsSpec => []DepsSound
<1>1. DepsInit => SoundInv
  <2> SUFFICES ASSUME DepsInit PROVE SoundInv
    OBVIOUS
  <2>1. direct \in [Service -> SUBSET Name] /\ deps = direct /\ Len(stack) = 0
    BY DEF DepsInit
  <2> QED
    BY <2>1, NeedsIsLeast DEF SoundInv, DepsSound
<1>2. SoundInv => DepsSound
  BY DEF SoundInv
<1> QED
  BY <1>1, <1>2, SoundStep, DepsTypeCorrect, PTL DEF DepsSpec

--------------------------------------------------------------------------------
(* Without a cycle the sets become complete. *)

\* In a running call every given name is still to be followed, being
\* followed, or already in the set with all it needs.
FramesCover ==
  \A i \in 1 .. Len(stack) : \A d \in direct[stack[i].srv] \cap Service :
    \/ d \in stack[i].left
    \/ i < Len(stack) /\ d = stack[i + 1].srv
    \/ Needs(direct, d) \subseteq deps[stack[i].srv]

\* The services that were visited have everything they need.
VisitedComplete ==
  \A s \in Service \ todo :
    (stack # <<>> /\ s = StartPoint) \/ Needs(direct, s) \subseteq deps[s]

\* The walk only descends into what its first service needs.
WalkBelowStart ==
  \A i \in 1 .. Len(stack) : i # 1 => stack[i].srv \in Needs(direct, StartPoint)

CompleteInv ==
  Acyclic(direct) => FramesCover /\ VisitedComplete /\ WalkBelowStart

\* Without a cycle the test on the start point never cuts a walk short.
LEMMA AcyclicFollows ==
  ASSUME DepsTypeOK, SoundInv, WalkBelowStart, Acyclic(direct), stack # <<>>,
         NEW d \in Top.left \cap Service
  PROVE  Followed(d) /\ d \in Needs(direct, StartPoint)
<1>1. PICK n \in Nat \ {0} : n = Len(stack)
  BY TopIsFrame
<1>2. /\ 1 \in 1 .. n /\ n \in 1 .. n
      /\ StartPoint \in Service /\ Top.srv \in Service
  BY <1>1, TopIsFrame DEF StartPoint
<1>3. d \in Needs(direct, Top.srv)
  BY <1>1, <1>2 DEF SoundInv, DepsSound, Top
<1>4. d # Top.srv
  BY <1>2, <1>3 DEF Acyclic
<1>5. d \in Needs(direct, StartPoint)
  <2>1. CASE n = 1
    BY <2>1, <1>1, <1>3 DEF Top, StartPoint
  <2>2. CASE n # 1
    <3>1. Top.srv \in Needs(direct, StartPoint)
      BY <2>2, <1>1, <1>2 DEF WalkBelowStart, Top
    <3> QED
      BY <3>1, <1>2, <1>3, NeedsTransitive DEF DepsTypeOK
  <2> QED
    BY <2>1, <2>2
<1>6. StartPoint \notin deps[d]
  <2> SUFFICES ASSUME StartPoint \in deps[d] PROVE FALSE
    OBVIOUS
  <2>1. StartPoint \in Needs(direct, d)
    BY DEF SoundInv, DepsSound
  <2>2. Needs(direct, d) \subseteq Needs(direct, StartPoint)
    BY <1>2, <1>5, NeedsTransitive DEF DepsTypeOK
  <2> QED
    BY <1>2, <2>1, <2>2 DEF Acyclic
<1> QED
  BY <1>4, <1>5, <1>6 DEF Followed

\* A call that returns leaves a complete set.
LEMMA ReturnComplete ==
  ASSUME DepsTypeOK, SoundInv, FramesCover, Return
  PROVE  Needs(direct, Top.srv) \subseteq deps[Top.srv]
<1>1. PICK n \in Nat \ {0} : n = Len(stack)
  BY TopIsFrame DEF Return
<1>2. n \in 1 .. n /\ ~(n < n) /\ Top = stack[n] /\ Top.left = {} /\ Top.srv \in Service
  BY <1>1, TopIsFrame DEF Return
<1>3. \A d \in direct[Top.srv] \cap Service : Needs(direct, d) \subseteq deps[Top.srv]
  BY <1>1, <1>2 DEF FramesCover
<1>4. direct[Top.srv] \subseteq deps[Top.srv] /\ deps[Top.srv] \in SUBSET Name
  BY <1>2 DEF SoundInv, DepsSound, DepsTypeOK
<1> QED
  BY <1>2, <1>3, <1>4, NeedsByParts DEF DepsTypeOK

\* Every step keeps CompleteInv.
LEMMA CompleteStep ==
  DepsTypeOK /\ SoundInv /\ CompleteInv /\ [DepsNext]_depsVars => CompleteInv'
<1> SUFFICES ASSUME DepsTypeOK, SoundInv, CompleteInv, [DepsNext]_depsVars, Acyclic(direct)'
             PROVE  (FramesCover /\ VisitedComplete /\ WalkBelowStart)'
  BY DEF CompleteInv
<1>0. direct' = direct
  BY DEF DepsNext, Visit, Skip, Follow, Return, depsVars
<1>a. Acyclic(direct) /\ FramesCover /\ VisitedComplete /\ WalkBelowStart
  BY <1>0 DEF CompleteInv
<1>1. ASSUME NEW s \in Service, Visit(s)
      PROVE  (FramesCover /\ VisitedComplete /\ WalkBelowStart)'
  <2>1. /\ Len(stack') = 1 /\ stack' # <<>>
        /\ stack'[1].srv = s /\ stack'[1].left = deps[s]
        /\ stack = <<>> /\ deps' = deps /\ todo' = todo \ {s}
    BY <1>1 DEF Visit
  <2>2. direct[s] \subseteq deps[s]
    BY DEF SoundInv, DepsSound
  <2> QED
    BY <2>1, <2>2, <1>0, <1>a DEF FramesCover, VisitedComplete, WalkBelowStart, StartPoint
<1>2. ASSUME NEW d \in Name, Skip(d)
      PROVE  (FramesCover /\ VisitedComplete /\ WalkBelowStart)'
  <2>1. stack # <<>> /\ stack' = Drop(d) /\ deps' = deps /\ todo' = todo /\ d \notin Service
    BY <1>2, <1>a, AcyclicFollows DEF Skip
  <2>2. PICK n \in Nat \ {0} : n = Len(stack)
    BY <2>1, TopIsFrame
  <2>3. /\ Len(stack') = n
        /\ \A i \in 1 .. n : /\ stack'[i].srv = stack[i].srv
                             /\ stack[i].left \ {d} \subseteq stack'[i].left
    BY <2>1, <2>2, SkipStack
  <2>4. stack' # <<>> /\ StartPoint' = StartPoint
    BY <2>2, <2>3 DEF StartPoint
  <2>5. FramesCover'
    <3>1. \A i \in 1 .. n : i < n => i + 1 \in 1 .. n
      OBVIOUS
    <3> QED
      BY <1>0, <1>a, <2>1, <2>2, <2>3, <3>1 DEF FramesCover
  <2>6. VisitedComplete'
    BY <1>0, <1>a, <2>1, <2>4 DEF VisitedComplete
  <2>7. WalkBelowStart'
    BY <1>0, <1>a, <2>2, <2>3, <2>4 DEF WalkBelowStart
  <2> QED
    BY <2>5, <2>6, <2>7
<1>3. ASSUME NEW d \in Name, Follow(d)
      PROVE  (FramesCover /\ VisitedComplete /\ WalkBelowStart)'
  <2>1. CASE Len(stack) < MaxDepth
    <3>1. stack # <<>> /\ deps' = deps /\ todo' = todo /\ d \in Top.left /\ d \in Service
      BY <1>3 DEF Follow, Followed
    <3>2. PICK n \in Nat \ {0} : n = Len(stack)
      BY <3>1, TopIsFrame
    <3>3. /\ Len(stack') = n + 1
          /\ stack'[n + 1].srv = d /\ stack'[n + 1].left = deps[d]
          /\ \A i \in 1 .. n : /\ stack'[i].srv = stack[i].srv
                               /\ i # n => stack'[i].left = stack[i].left
                               /\ stack[i].left \ {d} \subseteq stack'[i].left
      <4>1. /\ Len(stack') = n + 1
            /\ stack'[n + 1].srv = d /\ stack'[n + 1].left = deps[d]
            /\ \A i \in 1 .. n : stack'[i] = Drop(d)[i]
        BY <1>3, <2>1, <3>2, FollowStack
      <4>2. \A i \in 1 .. n : /\ Drop(d)[i].srv = stack[i].srv
                              /\ i # n => Drop(d)[i].left = stack[i].left
                              /\ stack[i].left \ {d} \subseteq Drop(d)[i].left
        BY <3>1, <3>2, DropStack
      <4>3. ASSUME NEW i \in 1 .. n
            PROVE  /\ stack'[i].srv = stack[i].srv
                   /\ i # n => stack'[i].left = stack[i].left
                   /\ stack[i].left \ {d} \subseteq stack'[i].left
        <5>1. stack'[i] = Drop(d)[i]
          BY <4>1
        <5> QED
          BY <4>2, <5>1
      <4> QED
        BY <4>1, <4>3
    <3>4. stack' # <<>> /\ StartPoint' = StartPoint
      BY <3>2, <3>3 DEF StartPoint
    <3>5. FramesCover'
      <4> SUFFICES ASSUME NEW i \in 1 .. n + 1, NEW e \in direct[stack'[i].srv] \cap Service
                   PROVE  \/ e \in stack'[i].left
                          \/ i < n + 1 /\ e = stack'[i + 1].srv
                          \/ Needs(direct, e) \subseteq deps[stack'[i].srv]
        BY <1>0, <3>1, <3>3 DEF FramesCover
      <4>1. CASE i = n + 1
        BY <3>1, <3>3, <4>1 DEF SoundInv, DepsSound
      <4>2. CASE i = n
        <5>1. i \in 1 .. n /\ i < n + 1 /\ ~(i < n)
          BY <4>2
        <5>2. e \in stack[i].left \/ Needs(direct, e) \subseteq deps[stack[i].srv]
          BY <1>a, <3>2, <3>3, <5>1 DEF FramesCover
        <5> QED
          BY <3>3, <4>2, <5>1, <5>2
      <4>3. CASE i # n + 1 /\ i # n
        <5>1. i \in 1 .. n /\ i < n + 1 /\ i < n /\ i + 1 \in 1 .. n
          BY <4>3
        <5> QED
          BY <1>a, <3>2, <3>3, <4>3, <5>1 DEF FramesCover
      <4> QED
        BY <4>1, <4>2, <4>3
    <3>6. VisitedComplete'
      BY <1>0, <1>a, <3>1, <3>4 DEF VisitedComplete
    <3>7. WalkBelowStart'
      <4>1. d \in Needs(direct, StartPoint)
        BY <1>a, <3>1, AcyclicFollows
      <4>2. ASSUME NEW i \in 1 .. n + 1, i # 1
            PROVE  stack'[i].srv \in Needs(direct, StartPoint)
        <5>1. i = n + 1 \/ i \in 1 .. n
          OBVIOUS
        <5> QED
          BY <1>a, <3>2, <3>3, <4>1, <4>2, <5>1 DEF WalkBelowStart
      <4> QED
        BY <1>0, <3>3, <3>4, <4>2 DEF WalkBelowStart
    <3> QED
      BY <3>5, <3>6, <3>7
  <2>2. CASE ~(Len(stack) < MaxDepth)
    <3>1. UNCHANGED <<stack, deps, todo>>
      BY <1>3, <2>2 DEF Follow
    <3> QED
      BY <1>0, <1>a, <3>1 DEF FramesCover, VisitedComplete, WalkBelowStart, StartPoint
  <2> QED
    BY <2>1, <2>2
<1>4. ASSUME Return
      PROVE  (FramesCover /\ VisitedComplete /\ WalkBelowStart)'
  <2>1. stack # <<>> /\ todo' = todo
    BY <1>4 DEF Return
  <2>2. PICK n \in Nat \ {0} : n = Len(stack)
    BY <2>1, TopIsFrame
  <2>3. /\ Len(stack') = n - 1
        /\ \A i \in 1 .. n - 1 : stack'[i] = stack[i] /\ stack[i].srv \in Service
    <3>1. \A i \in 1 .. n - 1 : i \in 1 .. n
      OBVIOUS
    <3> QED
      BY <1>4, <2>1, <2>2, <3>1, ReturnStack, TopIsFrame
  <2>4. Needs(direct, Top.srv) \subseteq deps[Top.srv] /\ Top.srv \in Service
    BY <1>4, <1>a, <2>1, <2>2, ReturnComplete, TopIsFrame, Positions
  <2>5. \A s \in Service : deps[s] \subseteq deps'[s]
    BY <1>4, ReturnGrows
  <2>6. n # 1 => Needs(direct, Top.srv) \subseteq deps'[stack[n - 1].srv]
    <3>1. SUFFICES ASSUME n # 1
                   PROVE  Needs(direct, Top.srv) \subseteq deps'[stack[n - 1].srv]
      OBVIOUS
    <3>2. n - 1 \in 1 .. n - 1 /\ Caller = stack[n - 1] /\ Caller.srv \in Service
      BY <3>1, <2>2, <2>3, Positions DEF Caller
    <3> QED
      BY <1>4, <2>2, <2>4, <3>1, <3>2 DEF Return, DepsTypeOK
  <2>7. FramesCover'
    <3> SUFFICES ASSUME NEW i \in 1 .. n - 1, NEW d \in direct[stack[i].srv] \cap Service
                 PROVE  \/ d \in stack[i].left
                        \/ i < n - 1 /\ d = stack'[i + 1].srv
                        \/ Needs(direct, d) \subseteq deps'[stack[i].srv]
      BY <1>0, <2>3 DEF FramesCover
    <3>1. /\ i \in 1 .. n /\ i < n
          /\ i < n - 1 => i + 1 \in 1 .. n - 1
          /\ ~(i < n - 1) => i = n - 1 /\ i + 1 = n /\ n # 1
      OBVIOUS
    <3>2. \/ d \in stack[i].left
          \/ d = stack[i + 1].srv
          \/ Needs(direct, d) \subseteq deps[stack[i].srv]
      BY <1>a, <2>2, <3>1 DEF FramesCover
    <3>3. CASE d = stack[i + 1].srv
      <4>1. CASE i < n - 1
        BY <2>3, <3>1, <3>3, <4>1
      <4>2. CASE ~(i < n - 1)
        <5>1. i = n - 1 /\ n # 1 /\ d = stack[n].srv /\ Top = stack[n]
          BY <2>2, <3>1, <3>3, <4>2 DEF Top
        <5> QED
          BY <2>6, <5>1
      <4> QED
        BY <4>1, <4>2
    <3>4. stack[i].srv \in Service
      BY <2>3
    <3> QED
      BY <2>5, <3>2, <3>3, <3>4
  <2>8. VisitedComplete'
    <3>1. CASE n = 1
      <4>1. Top.srv = StartPoint
        BY <2>2, <3>1 DEF Top, StartPoint
      <4> QED
        BY <1>0, <1>a, <2>1, <2>4, <2>5, <4>1 DEF VisitedComplete
    <3>2. CASE n # 1
      <4>1. stack' # <<>> /\ StartPoint' = StartPoint
        <5>1. 1 \in 1 .. n - 1 /\ Len(stack') # 0
          BY <2>3, <3>2
        <5> QED
          BY <2>3, <5>1 DEF StartPoint
      <4> QED
        BY <1>0, <1>a, <2>1, <2>5, <4>1 DEF VisitedComplete
    <3> QED
      BY <3>1, <3>2
  <2>9. WalkBelowStart'
    <3> SUFFICES ASSUME NEW i \in 1 .. n - 1, i # 1
                 PROVE  stack'[i].srv \in Needs(direct, stack'[1].srv)
      BY <1>0, <2>3 DEF WalkBelowStart, StartPoint
    <3>1. i \in 1 .. n /\ 1 \in 1 .. n - 1
      OBVIOUS
    <3> QED
      BY <1>a, <2>2, <2>3, <3>1 DEF WalkBelowStart, StartPoint
  <2> QED
    BY <2>7, <2>8, <2>9
<1>5. CASE UNCHANGED depsVars
  BY <1>0, <1>5, <1>a DEF depsVars, FramesCover, VisitedComplete, WalkBelowStart, StartPoint
<1> QED
  BY <1>1, <1>2, <1>3, <1>4, <1>5 DEF DepsNext

\* Before the first call of rec_deps.
LEMMA DepsInitially == DepsInit => DepsTypeOK /\ SoundInv /\ CompleteInv
<1> SUFFICES ASSUME DepsInit PROVE DepsTypeOK /\ SoundInv /\ CompleteInv
  OBVIOUS
<1>1. /\ direct \in [Service -> SUBSET Name] /\ deps = direct
      /\ Len(stack) = 0 /\ todo = Service /\ stack \in Seq(Frame)
  BY EmptySeq DEF DepsInit
<1>2. DepsTypeOK
  BY <1>1 DEF DepsInit, DepsTypeOK
<1>3. SoundInv
  BY <1>1, NeedsIsLeast DEF SoundInv, DepsSound
<1>4. CompleteInv
  BY <1>1 DEF CompleteInv, FramesCover, VisitedComplete, WalkBelowStart
<1> QED
  BY <1>2, <1>3, <1>4

LEMMA CompleteInTheEnd == SoundInv /\ CompleteInv => DepsComplete
BY DEF SoundInv, DepsSound, CompleteInv, VisitedComplete, DepsComplete, Flattened

\* For every compose file without a cycle flat_deps ends with the transitive
\* closure, in whatever order the sets and the services are walked.
THEOREM DepsAreComplete == DepsSpec => []DepsComplete
  BY DepsInitially, CompleteInTheEnd, DepsTypeStep, SoundStep, CompleteStep, PTL DEF DepsSpec

\* Both together: the sets are exact.
THEOREM DepsAreExact == DepsSpec => []DepsExact
  BY DepsAreSound, DepsAreComplete, PTL DEF DepsExact

\* What is needed needs less.
LEMMA NeededNeedsLess ==
  ASSUME NEW g \in [Service -> SUBSET Name], Acyclic(g),
         NEW s \in Service, NEW d \in Needs(g, s) \cap Service
  PROVE  /\ Cardinality(Needs(g, d)) \in Nat /\ Cardinality(Needs(g, s)) \in Nat
         /\ Cardinality(Needs(g, d)) < Cardinality(Needs(g, s))
<1>1. d \in Needs(g, s) /\ Needs(g, s) \subseteq Name
  BY NeedsIsLeast
<1>2. Needs(g, d) \subseteq Needs(g, s)
  BY NeedsTransitive
<1>3. d \notin Needs(g, d)
  BY DEF Acyclic
<1>4. IsFiniteSet(Needs(g, s))
  BY <1>1, ServiceAssumption, FS_Subset
<1>5. Needs(g, d) # Needs(g, s)
  BY <1>1, <1>3
<1>6. /\ Cardinality(Needs(g, d)) <= Cardinality(Needs(g, s))
      /\ Cardinality(Needs(g, d)) # Cardinality(Needs(g, s))
  BY <1>2, <1>4, <1>5, FS_Subset
<1>7. Cardinality(Needs(g, d)) \in Nat /\ Cardinality(Needs(g, s)) \in Nat
  BY <1>2, <1>4, FS_Subset, FS_CardinalityType
<1> QED
  BY <1>6, <1>7

\* Hence a service has more dependencies than each of those it needs:
\* sorting by their number is a start order.
THEOREM SizesOrderStart == DepsSpec => []SizeOrdersStart
<1>1. DepsTypeOK /\ DepsComplete => SizeOrdersStart
  <2> SUFFICES ASSUME DepsTypeOK, DepsComplete, Flattened, Acyclic(direct),
                      NEW s \in Service, NEW d \in direct[s] \cap Service
               PROVE  Cardinality(deps[d]) < Cardinality(deps[s])
    BY DEF SizeOrdersStart
  <2>1. deps[d] = Needs(direct, d) /\ deps[s] = Needs(direct, s)
    BY DEF DepsComplete
  <2>2. d \in Needs(direct, s) \cap Service
    BY NeedsIsLeast DEF DepsTypeOK
  <2> QED
    BY <2>1, <2>2, NeededNeedsLess DEF DepsTypeOK
<1> QED
  BY <1>1, DepsTypeCorrect, DepsAreComplete, PTL

--------------------------------------------------------------------------------
(* The test on the start point cuts every loop through it. *)

\* A set that lacks a service was not built through that service.
AvoidInv ==
  \A v, s \in Service :
    v # s /\ v \notin deps[s] => deps[s] \subseteq Needs(Without(direct, v), s)

\* Above the first frame the walk follows a path that avoids the service it
\* began with.
PathInv ==
  \A i \in 1 .. Len(stack) : i # 1 =>
    /\ stack[i].srv # StartPoint
    /\ StartPoint \notin stack[i].left
    /\ stack[i].left \subseteq Needs(Without(direct, StartPoint), stack[i].srv)
    /\ \A j \in 1 .. Len(stack) : i < j =>
         stack[j].srv \in Needs(Without(direct, StartPoint), stack[i].srv)

\* The call that is refused would have been one frame too many.
RefusedInv ==
  overflow => /\ stack # <<>> /\ MaxDepth <= Len(stack)
              /\ \E d \in Top.left : Followed(d)

OverflowInv == AvoidInv /\ PathInv /\ RefusedInv

LEMMA WithoutType ==
  ASSUME NEW g \in [Service -> SUBSET Name], NEW v
  PROVE  /\ Without(g, v) \in [Service -> SUBSET Name]
         /\ \A s \in Service : s # v => Without(g, v)[s] = g[s] \ {v}
BY DEF Without

\* A return adds to a set that still lacks a service only what was found
\* without it.
LEMMA ReturnAvoids ==
  ASSUME DepsTypeOK, SoundInv, AvoidInv, Return
  PROVE  AvoidInv'
<1>0. direct' = direct /\ stack # <<>> /\ Len(stack) \in Nat \ {0}
  BY TopIsFrame DEF Return
<1>1. CASE Len(stack) = 1
  BY <1>0, <1>1 DEF Return, AvoidInv
<1>2. CASE Len(stack) # 1
  <2>1. /\ Len(stack) \in 1 .. Len(stack)
        /\ Len(stack) - 1 \in 1 .. Len(stack)
        /\ Len(stack) - 1 \in 1 .. Len(stack) - 1
        /\ Len(stack) - 1 + 1 = Len(stack)
    BY <1>0, <1>2, Positions
  <2>2. Top.srv \in Service /\ Caller.srv \in Service
    BY <1>0, <2>1, TopIsFrame DEF Caller
  <2>3. Top.srv \in deps[Caller.srv]
    BY <2>1 DEF SoundInv, Top, Caller
  <2>4. deps' = [deps EXCEPT ![Caller.srv] = @ \cup deps[Top.srv]]
    BY <1>2 DEF Return
  <2> DEFINE t == Top.srv
             c == Caller.srv
  <2>5. /\ t \in Service /\ c \in Service /\ t \in deps[c]
        /\ deps'[c] = deps[c] \cup deps[t]
        /\ \A s \in Service : s # c => deps'[s] = deps[s]
    BY <2>2, <2>3, <2>4 DEF DepsTypeOK
  <2> HIDE DEF t, c
  <2>6. ASSUME NEW v \in Service, v # c, v \notin deps'[c]
        PROVE  deps'[c] \subseteq Needs(Without(direct, v), c)
    <3>1. v \notin deps[c] /\ v \notin deps[t] /\ v # t
      BY <2>5, <2>6
    <3>2. /\ deps[c] \subseteq Needs(Without(direct, v), c)
          /\ deps[t] \subseteq Needs(Without(direct, v), t)
      BY <2>5, <2>6, <3>1 DEF AvoidInv
    <3>3. Without(direct, v) \in [Service -> SUBSET Name]
      BY WithoutType DEF DepsTypeOK
    <3>4. Needs(Without(direct, v), t) \subseteq Needs(Without(direct, v), c)
      BY <2>5, <3>2, <3>3, NeedsTransitive
    <3> QED
      BY <2>5, <3>2, <3>4
  <2>7. ASSUME NEW v \in Service, NEW s \in Service, v # s, v \notin deps'[s]
        PROVE  deps'[s] \subseteq Needs(Without(direct, v), s)
    <3>1. CASE s = c
      BY <2>6, <2>7, <3>1
    <3>2. CASE s # c
      BY <2>5, <2>7, <3>2 DEF AvoidInv
    <3> QED
      BY <3>1, <3>2
  <2> QED
    BY <1>0, <2>7 DEF AvoidInv
<1> QED
  BY <1>1, <1>2

\* A name that is followed lies beyond every frame but the first, and is not
\* the service the walk began with.
LEMMA FollowedBeyond ==
  ASSUME DepsTypeOK, SoundInv, PathInv, stack # <<>>,
         NEW n \in Nat \ {0}, n = Len(stack),
         NEW d \in Top.left, Followed(d)
  PROVE  /\ d \in Service /\ d # StartPoint
         /\ \A i \in 1 .. n : i # 1 => d \in Needs(Without(direct, StartPoint), stack[i].srv)
<1>1. /\ 1 \in 1 .. n /\ n \in 1 .. n
      /\ d \in Service /\ d # Top.srv /\ Top = stack[n]
      /\ \A i \in 1 .. n : stack[i].srv \in Service
  BY TopIsFrame DEF Followed
<1>2. d # StartPoint
  <2>1. CASE n = 1
    BY <1>1, <2>1 DEF StartPoint
  <2>2. CASE n # 1
    BY <1>1, <2>2 DEF PathInv
  <2> QED
    BY <2>1, <2>2
<1>3. ASSUME NEW i \in 1 .. n, i # 1
      PROVE  d \in Needs(Without(direct, StartPoint), stack[i].srv)
  <2>1. d \in Needs(Without(direct, StartPoint), stack[n].srv)
    <3>1. n # 1
      BY <1>3
    <3> QED
      BY <1>1, <3>1 DEF PathInv
  <2>2. CASE i = n
    BY <2>1, <2>2
  <2>3. CASE i # n
    <3>1. i < n
      BY <2>3
    <3>2. stack[n].srv \in Needs(Without(direct, StartPoint), stack[i].srv) \cap Service
      BY <1>1, <1>3, <3>1 DEF PathInv
    <3>3. Without(direct, StartPoint) \in [Service -> SUBSET Name]
      BY WithoutType DEF DepsTypeOK
    <3>4. Needs(Without(direct, StartPoint), stack[n].srv)
            \subseteq Needs(Without(direct, StartPoint), stack[i].srv)
      BY <1>1, <3>2, <3>3, NeedsTransitive
    <3> QED
      BY <2>1, <3>4
  <2> QED
    BY <2>2, <2>3
<1> QED
  BY <1>1, <1>2, <1>3

\* Every step keeps OverflowInv.
LEMMA OverflowStep ==
  DepsTypeOK /\ SoundInv /\ OverflowInv /\ [DepsNext]_depsVars => OverflowInv'
<1> SUFFICES ASSUME DepsTypeOK, SoundInv, OverflowInv, [DepsNext]_depsVars
             PROVE  OverflowInv'
  OBVIOUS
<1>0. AvoidInv /\ PathInv /\ RefusedInv
  BY DEF OverflowInv
<1>1. ASSUME NEW s \in Service, Visit(s)
      PROVE  OverflowInv'
  <2>1. Len(stack') = 1 /\ deps' = deps /\ direct' = direct /\ ~overflow'
    BY <1>1 DEF Visit
  <2> QED
    BY <1>0, <2>1 DEF OverflowInv, AvoidInv, PathInv, RefusedInv
<1>2. ASSUME NEW d \in Name, Skip(d)
      PROVE  OverflowInv'
  <2>1. stack # <<>> /\ stack' = Drop(d) /\ deps' = deps /\ direct' = direct /\ ~overflow'
    BY <1>2 DEF Skip
  <2>2. PICK n \in Nat \ {0} : n = Len(stack)
    BY <2>1, TopIsFrame
  <2>3. /\ Len(stack') = n
        /\ \A i \in 1 .. n : /\ stack'[i].srv = stack[i].srv
                             /\ stack'[i].left \subseteq stack[i].left
    BY <2>1, <2>2, SkipStack
  <2>4. StartPoint' = StartPoint
    BY <2>3 DEF StartPoint
  <2>5. PathInv'
    BY <1>0, <2>1, <2>2, <2>3, <2>4 DEF PathInv
  <2> QED
    BY <1>0, <2>1, <2>5 DEF OverflowInv, AvoidInv, RefusedInv
<1>3. ASSUME NEW d \in Name, Follow(d)
      PROVE  OverflowInv'
  <2>0. stack # <<>> /\ deps' = deps /\ direct' = direct /\ ~overflow
        /\ d \in Top.left /\ Followed(d)
    BY <1>3 DEF Follow
  <2>1. PICK n \in Nat \ {0} : n = Len(stack)
    BY <2>0, TopIsFrame
  <2>2. CASE Len(stack) < MaxDepth
    <3>1. ~overflow'
      BY <1>3, <2>0, <2>2 DEF Follow
    <3>2. /\ Len(stack') = n + 1
          /\ stack'[n + 1].srv = d /\ stack'[n + 1].left = deps[d]
          /\ \A i \in 1 .. n : /\ stack'[i].srv = stack[i].srv
                               /\ stack'[i].left \subseteq stack[i].left
      <4>1. /\ Len(stack') = n + 1
            /\ stack'[n + 1].srv = d /\ stack'[n + 1].left = deps[d]
            /\ \A i \in 1 .. n : stack'[i] = Drop(d)[i]
        BY <1>3, <2>1, <2>2, FollowStack
      <4>2. \A i \in 1 .. n : /\ Drop(d)[i].srv = stack[i].srv
                              /\ Drop(d)[i].left \subseteq stack[i].left
        BY <2>0, <2>1, DropStack
      <4> QED
        BY <4>1, <4>2
    <3>3. StartPoint' = StartPoint
      BY <3>2 DEF StartPoint
    <3>4. /\ d \in Service /\ d # StartPoint
          /\ \A i \in 1 .. n : i # 1 => d \in Needs(Without(direct, StartPoint), stack[i].srv)
      BY <1>0, <2>0, <2>1, FollowedBeyond
    <3>5. /\ StartPoint \notin deps[d]
          /\ deps[d] \subseteq Needs(Without(direct, StartPoint), d)
      <4>1. StartPoint \in Service
        BY <2>0, <2>1, TopIsFrame DEF StartPoint
      <4> QED
        BY <1>0, <2>0, <3>4, <4>1 DEF AvoidInv, Followed
    <3>6. ASSUME NEW i \in 1 .. n + 1, i # 1
          PROVE  /\ stack'[i].srv # StartPoint
                 /\ StartPoint \notin stack'[i].left
                 /\ stack'[i].left \subseteq Needs(Without(direct, StartPoint), stack'[i].srv)
                 /\ \A j \in 1 .. n + 1 : i < j =>
                      stack'[j].srv \in Needs(Without(direct, StartPoint), stack'[i].srv)
      <4>1. CASE i = n + 1
        BY <3>2, <3>4, <3>5, <4>1
      <4>2. CASE i # n + 1
        <5>1. i \in 1 .. n
          BY <4>2
        <5>2. /\ stack'[i].srv = stack[i].srv
              /\ stack'[i].left \subseteq stack[i].left
          BY <3>2, <5>1
        <5>3. /\ stack[i].srv # StartPoint
              /\ StartPoint \notin stack[i].left
              /\ stack[i].left \subseteq Needs(Without(direct, StartPoint), stack[i].srv)
              /\ \A j \in 1 .. n : i < j =>
                   stack[j].srv \in Needs(Without(direct, StartPoint), stack[i].srv)
          BY <1>0, <2>1, <3>6, <5>1 DEF PathInv
        <5>4. ASSUME NEW j \in 1 .. n + 1, i < j
              PROVE  stack'[j].srv \in Needs(Without(direct, StartPoint), stack'[i].srv)
          <6>1. CASE j = n + 1
            BY <3>2, <3>4, <3>6, <5>1, <5>2, <6>1
          <6>2. CASE j # n + 1
            <7>1. j \in 1 .. n
              BY <6>2
            <7> QED
              BY <3>2, <5>2, <5>3, <5>4, <7>1
          <6> QED
            BY <6>1, <6>2
        <5> QED
          BY <5>2, <5>3, <5>4
      <4> QED
        BY <4>1, <4>2
    <3>7. PathInv'
      BY <2>0, <3>2, <3>3, <3>6 DEF PathInv
    <3> QED
      BY <1>0, <2>0, <3>1, <3>7 DEF OverflowInv, AvoidInv, RefusedInv
  <2>3. CASE ~(Len(stack) < MaxDepth)
    <3>1. stack' = stack
      BY <1>3, <2>3 DEF Follow
    <3>2. Top' = Top /\ StartPoint' = StartPoint
      BY <3>1 DEF Top, StartPoint
    <3>3. Followed(d)' /\ (d \in Top.left)'
      BY <2>0, <3>2 DEF Followed
    <3>4. MaxDepth <= Len(stack)
      BY <2>1, <2>3, DepthAssumption
    <3>5. RefusedInv'
      BY <2>0, <3>1, <3>3, <3>4 DEF RefusedInv
    <3>6. PathInv'
      BY <1>0, <2>0, <3>1, <3>2 DEF PathInv
    <3> QED
      BY <1>0, <2>0, <3>5, <3>6 DEF OverflowInv, AvoidInv
  <2> QED
    BY <2>2, <2>3
<1>4. ASSUME Return
      PROVE  OverflowInv'
  <2>1. stack # <<>> /\ direct' = direct /\ ~overflow'
    BY <1>4 DEF Return
  <2>2. PICK n \in Nat \ {0} : n = Len(stack)
    BY <2>1, TopIsFrame
  <2>3. Len(stack') = n - 1 /\ \A i \in 1 .. n - 1 : stack'[i] = stack[i]
    BY <1>4, <2>2, ReturnStack
  <2>4. PathInv'
    <3> SUFFICES ASSUME NEW i \in 1 .. n - 1, i # 1
                 PROVE  /\ stack'[i].srv # StartPoint'
                        /\ StartPoint' \notin stack'[i].left
                        /\ stack'[i].left \subseteq Needs(Without(direct, StartPoint'), stack'[i].srv)
                        /\ \A j \in 1 .. n - 1 : i < j =>
                             stack'[j].srv \in Needs(Without(direct, StartPoint'), stack'[i].srv)
      BY <2>1, <2>3 DEF PathInv
    <3>1. /\ i \in 1 .. n /\ 1 \in 1 .. n - 1
          /\ \A j \in 1 .. n - 1 : j \in 1 .. n
      OBVIOUS
    <3>2. StartPoint' = StartPoint
      BY <2>3, <3>1 DEF StartPoint
    <3> QED
      BY <1>0, <2>2, <2>3, <3>1, <3>2 DEF PathInv
  <2>5. AvoidInv'
    BY <1>0, <1>4, ReturnAvoids
  <2> QED
    BY <2>1, <2>4, <2>5 DEF OverflowInv, RefusedInv
<1>5. CASE UNCHANGED depsVars
  BY <1>0, <1>5 DEF depsVars, OverflowInv, AvoidInv, PathInv, RefusedInv, StartPoint, Top, Followed
<1> QED
  BY <1>1, <1>2, <1>3, <1>4, <1>5 DEF DepsNext

\* With as many frames as there are services, a walk that is refused a call has
\* met a service twice.
LEMMA RefusedMeetsTwice ==
  ASSUME DepsTypeOK, SoundInv, OverflowInv, overflow,
         Cardinality(Service) <= MaxDepth
  PROVE  ~Acyclic(Without(direct, StartPoint))
<1> SUFFICES ASSUME Acyclic(Without(direct, StartPoint)) PROVE FALSE
  OBVIOUS
<1>1. /\ PathInv /\ stack # <<>> /\ MaxDepth <= Len(stack)
      /\ \E d \in Top.left : Followed(d)
  BY DEF OverflowInv, RefusedInv
<1>2. PICK d \in Top.left : Followed(d)
  BY <1>1
<1>3. PICK n \in Nat \ {0} : n = Len(stack)
  BY <1>1, TopIsFrame
<1>4. /\ d \in Service /\ d # StartPoint
      /\ \A i \in 1 .. n : i # 1 => d \in Needs(Without(direct, StartPoint), stack[i].srv)
  BY <1>1, <1>2, <1>3, FollowedBeyond
<1>5. \A i \in 1 .. n : stack[i].srv \in Service
  BY <1>1, <1>3, TopIsFrame
<1> DEFINE at(i) == IF i = n + 1 THEN d ELSE stack[i].srv
<1>6. \A i \in 1 .. n + 1 : at(i) \in Service
  BY <1>4, <1>5
<1>7. ASSUME NEW i \in 1 .. n + 1, NEW j \in 1 .. n + 1, i < j
      PROVE  at(i) # at(j)
  <2>0. i \in 1 .. n /\ at(i) = stack[i].srv
    BY <1>7
  <2>1. CASE i = 1
    <3>1. at(i) = StartPoint
      BY <2>0, <2>1 DEF StartPoint
    <3>2. CASE j = n + 1
      BY <1>4, <3>1, <3>2
    <3>3. CASE j # n + 1
      <4>1. j \in 1 .. n /\ j # 1 /\ at(j) = stack[j].srv
        BY <1>7, <3>3
      <4> QED
        BY <1>1, <1>3, <3>1, <4>1 DEF PathInv
    <3> QED
      BY <3>2, <3>3
  <2>2. CASE i # 1
    <3>1. at(j) \in Needs(Without(direct, StartPoint), at(i))
      <4>1. CASE j = n + 1
        BY <1>4, <2>0, <2>2, <4>1
      <4>2. CASE j # n + 1
        <5>1. j \in 1 .. n /\ at(j) = stack[j].srv
          BY <1>7, <4>2
        <5> QED
          BY <1>1, <1>3, <1>7, <2>0, <2>2, <5>1 DEF PathInv
      <4> QED
        BY <4>1, <4>2
    <3> QED
      BY <1>6, <3>1 DEF Acyclic
  <2> QED
    BY <2>1, <2>2
<1> DEFINE f == [i \in 1 .. n + 1 |-> at(i)]
<1>8. f \in [1 .. n + 1 -> Service]
  BY <1>6
<1>9. \A i, j \in 1 .. n + 1 : i # j => f[i] # f[j]
  <2> SUFFICES ASSUME NEW i \in 1 .. n + 1, NEW j \in 1 .. n + 1, i # j
               PROVE  at(i) # at(j)
    OBVIOUS
  <2>1. i < j \/ j < i
    OBVIOUS
  <2> QED
    BY <1>7, <2>1
<1>10. IsFiniteSet(1 .. n + 1) /\ Cardinality(1 .. n + 1) = n + 1
  BY FS_Interval
<1>11. IsFiniteSet(Service) /\ Cardinality(Service) \in Nat
  BY ServiceAssumption, FS_Subset, FS_CardinalityType
<1>12. Cardinality(Service) < Cardinality(1 .. n + 1)
  BY <1>1, <1>3, <1>10, <1>11, DepthAssumption
<1> HIDE DEF f
<1> QED
  BY <1>8, <1>9, <1>10, <1>11, <1>12, FS_PigeonHole

\* Where the interpreter nests at least as many calls as the file has services,
\* RecursionError means a loop that avoids the service the walk began with: the
\* test against loops cuts every other one.
THEOREM OverflowOnlyByForeignCycle ==
  ASSUME Cardinality(Service) <= MaxDepth
  PROVE  DepsSpec => []OverflowNeedsForeignCycle
<1>1. DepsInit => SoundInv /\ OverflowInv
  <2> SUFFICES ASSUME DepsInit PROVE SoundInv /\ OverflowInv
    OBVIOUS
  <2>1. /\ direct \in [Service -> SUBSET Name] /\ deps = direct
        /\ Len(stack) = 0 /\ ~overflow
    BY DEF DepsInit
  <2>2. SoundInv
    BY <2>1, NeedsIsLeast DEF SoundInv, DepsSound
  <2>3. AvoidInv
    <3> SUFFICES ASSUME NEW v \in Service, NEW s \in Service, v # s, v \notin direct[s]
                 PROVE  direct[s] \subseteq Needs(Without(direct, v), s)
      BY <2>1 DEF AvoidInv
    <3>1. /\ Without(direct, v) \in [Service -> SUBSET Name]
          /\ Without(direct, v)[s] = direct[s] \ {v}
      BY <2>1, WithoutType
    <3>2. direct[s] \ {v} = direct[s]
      OBVIOUS
    <3>3. Without(direct, v)[s] \subseteq Needs(Without(direct, v), s)
      BY <3>1, NeedsIsLeast
    <3> QED
      BY <3>1, <3>2, <3>3
  <2> QED
    BY <2>1, <2>2, <2>3 DEF OverflowInv, PathInv, RefusedInv
<1>2. DepsTypeOK /\ SoundInv /\ OverflowInv => OverflowNeedsForeignCycle
  BY RefusedMeetsTwice DEF OverflowNeedsForeignCycle
<1> QED
  BY <1>1, <1>2, SoundStep, OverflowStep, DepsTypeCorrect, PTL DEF DepsSpec

--------------------------------------------------------------------------------
(* ComposeFile: the services of the files and the lists made from them. *)

Keys == Scalars \cup Refs

\* What a service or a base holds: at most one object or value under each key.
Held(x) ==
  /\ x \in [Keys -> SUBSET (Place \cup Object)]
  /\ \A k \in Refs : x[k] \subseteq Object
  /\ \A k \in Keys : \A o, p \in x[k] : o = p

Heap(h) ==
  /\ h = [k \in Refs |-> [o \in Object |-> h[k][o]]]
  /\ \A o \in Object : /\ h["ports"][o] \subseteq Place
                       /\ h["depends_on"][o] \subseteq Name
                       /\ h["deploy"][o] \in 0 .. 2

\* The services resolve_extends has still to visit.
Unresolved == IF phase = "extends" THEN Service ELSE {pending[i] : i \in DOMAIN pending}

ServicesInv ==
  /\ srv \in [Service -> [Keys -> SUBSET (Place \cup Object)]]
  /\ Heap(obj) /\ \A s \in Service : Held(srv[s])
  /\ \A s \in Service : srv[s]["container_name"] \subseteq {Own(t) : t \in Givers(s, "container_name")}

ListsInv ==
  /\ given \in Seq(Container) /\ containers \in Seq(Container)
  /\ pods \in Seq([ports : SUBSET Place])

FormInv ==
  /\ DepsTypeOK /\ file \in Files /\ order \in FileOrders
  /\ ServicesInv /\ ListsInv
  /\ pending \in Seq(Service) /\ phase \in Phase
  /\ phase \notin {"resolve", "raised"} => pending = <<>>

--------------------------------------------------------------------------------
(* The merge. *)

LEMMA KeyFacts ==
  /\ Keys = {"image", "container_name", "ports", "depends_on", "deploy"}
  /\ Lists = {"ports", "depends_on"} /\ Refs = {"ports", "depends_on", "deploy"}
  /\ Scalars = {"image", "container_name"}
  /\ Object \subseteq Place
  /\ \A s \in Service : Own(s) \in Object /\ FromFile(s) \in Object
  /\ \A n \in Name : Own(n) \in Place /\ FromFile(n) \in Place
  /\ \A s, t : /\ Own(s) # FromFile(t)
               /\ Own(s) = Own(t) => s = t
               /\ FromFile(s) = FromFile(t) => s = t
BY ServiceAssumption DEF Keys, Lists, Refs, Scalars, Object, Place, Own, FromFile

LEMMA FileFacts ==
  ASSUME file \in Files, NEW s \in Service
  PROVE  /\ file[s].gives \subseteq Scalars \cup {"ports"}
         /\ file[s].depends \subseteq Name
         /\ \A n \in file[s].deploy : n \in 0 .. 2
         /\ file[s].called \in ContainerNames
         /\ \/ file[s].extends = {}
            \/ \E e \in [service : Name, file : BOOLEAN] : file[s].extends = {e}
<1>1. file[s] \in Desc
  BY FilesAssumption
<1>2. \A d \in Desc : /\ d.gives \subseteq Scalars \cup {"ports"} /\ d.depends \subseteq Name
                      /\ d.deploy \in {{}} \cup {{n} : n \in 0 .. 2}
                      /\ d.called \in ContainerNames
                      /\ d.extends \in {{}} \cup {{e} : e \in [service : Name, file : BOOLEAN]}
  BY DEF Desc
<1> QED
  BY <1>1, <1>2

\* What rec_merge makes of a service, a base and the objects they refer to.
LEMMA MergeFacts ==
  ASSUME NEW s \in Service, NEW base, NEW heap, Held(base), Heap(heap),
         srv \in [Service -> [Keys -> SUBSET (Place \cup Object)]], Held(srv[s]),
         MergeWith(s, base, heap)
  PROVE  /\ srv' \in [Service -> [Keys -> SUBSET (Place \cup Object)]]
         /\ \A t \in Service : t # s => srv'[t] = srv[t]
         /\ Held(srv'[s])
         /\ \A k \in Scalars : srv'[s][k] = IF srv[s][k] # {} THEN srv[s][k] ELSE base[k]
         /\ \A k \in Refs : srv'[s][k] = IF Replaces(s, k) \/ base[k] = {} THEN srv[s][k] ELSE base[k]
         /\ Heap(obj')
         /\ \A k \in Lists : \A o \in Object : heap[k][o] \subseteq obj'[k][o]
         /\ \A k \in Lists : ~Replaces(s, k) =>
              \A o \in base[k], p \in srv[s][k] : heap[k][p] \subseteq obj'[k][o]
<1> DEFINE new == [k \in Keys |->
                     IF Replaces(s, k) \/ base[k] = {} THEN srv[s][k] ELSE base[k]]
           what(k, o) == IF base[k] = {o} /\ srv[s][k] # {} /\ ~Replaces(s, k)
                         THEN Merged(k, heap[k][o], heap[k][CHOOSE p \in srv[s][k] : TRUE])
                         ELSE heap[k][o]
<1>1. srv' = [srv EXCEPT ![s] = new]
  BY DEF MergeWith, Keys
<1>2. obj' = [k \in Refs |-> [o \in Object |-> what(k, o)]]
  BY DEF MergeWith
<1>3. /\ \A k \in Scalars : new[k] = IF srv[s][k] # {} THEN srv[s][k] ELSE base[k]
      /\ \A k \in Refs : new[k] = IF Replaces(s, k) \/ base[k] = {} THEN srv[s][k] ELSE base[k]
  <2>1. \A k \in Scalars : Replaces(s, k) <=> srv[s][k] # {}
    BY DEF Replaces, IsText
  <2> QED
    BY <2>1, KeyFacts
<1>4. Held(new)
  <2>1. \A k \in Keys : new[k] = srv[s][k] \/ new[k] = base[k]
    OBVIOUS
  <2>2. \A k \in Keys : new[k] \in SUBSET (Place \cup Object)
    BY <2>1 DEF Held
  <2>3. new \in [Keys -> SUBSET (Place \cup Object)]
    BY <2>2
  <2>4. Refs \subseteq Keys
    BY KeyFacts
  <2> HIDE DEF new
  <2> QED
    BY <2>1, <2>3, <2>4 DEF Held
<1> HIDE DEF new
<1>5. /\ srv' \in [Service -> [Keys -> SUBSET (Place \cup Object)]]
      /\ srv'[s] = new /\ \A t \in Service : t # s => srv'[t] = srv[t]
  BY <1>1, <1>4 DEF Held
<1>6. \A k \in Refs : \A o \in Object : obj'[k][o] = what(k, o)
  BY <1>2
<1>7. \A k \in Refs : srv[s][k] # {} =>
        (CHOOSE p \in srv[s][k] : TRUE) \in Object /\ (CHOOSE p \in srv[s][k] : TRUE) \in srv[s][k]
  BY DEF Held
<1>8. Heap(obj')
  <2>1. obj' = [k \in Refs |-> [o \in Object |-> obj'[k][o]]]
    BY <1>2
  <2>2. ASSUME NEW o \in Object
        PROVE  /\ obj'["ports"][o] \subseteq Place
               /\ obj'["depends_on"][o] \subseteq Name
               /\ obj'["deploy"][o] \in 0 .. 2
    BY <1>6, <1>7, KeyFacts DEF Heap, Merged
  <2> QED
    BY <2>1, <2>2 DEF Heap
<1>9. \A k \in Lists : \A o \in Object : heap[k][o] \subseteq obj'[k][o]
  BY <1>6, KeyFacts DEF Merged
<1>10. ASSUME NEW k \in Lists, ~Replaces(s, k), NEW o \in base[k], NEW p \in srv[s][k]
       PROVE  heap[k][p] \subseteq obj'[k][o]
  <2>1. k \in Refs /\ k \in Keys
    BY KeyFacts
  <2>2. o \in Object /\ base[k] = {o} /\ srv[s][k] = {p}
    BY <2>1, <1>10 DEF Held
  <2>3. (CHOOSE q \in srv[s][k] : TRUE) = p
    BY <2>1, <2>2, <1>7
  <2> QED
    BY <1>6, <1>10, <2>1, <2>2, <2>3 DEF Merged
<1> QED
  BY <1>3, <1>4, <1>5, <1>8, <1>9, <1>10

--------------------------------------------------------------------------------
(* Chains of extensions. *)

LEMMA GraphTypes ==
  ASSUME file \in Files
  PROVE  /\ Bases \in [Service -> SUBSET Name]
         /\ ExtendsGraph \in [Service -> SUBSET Name]
         /\ \A s \in Service : Bases[s] \subseteq {s} \cup ExtendsGraph[s]
<1>1. ASSUME NEW s \in Service
      PROVE  /\ Bases[s] \subseteq Name /\ NamesExtended(s) \subseteq Name
             /\ Bases[s] \subseteq {s} \cup NamesExtended(s)
  <2>1. Bases[s] = {e.service : e \in {x \in file[s].extends : ~x.file}}
    BY DEF Bases
  <2>2. file[s].depends \subseteq Name /\ \A e \in file[s].extends : e.service \in Name
    BY FileFacts
  <2> QED
    BY <2>1, <2>2 DEF NamesExtended
<1> QED
  BY <1>1 DEF Bases, ExtendsGraph

LEMMA ChainEnds ==
  ASSUME file \in Files, NEW s \in Service, Bases[s] = {}
  PROVE  Chain(s) = {s}
<1>1. {} \in SUBSET Name /\ Bases[s] \subseteq {} /\ Closed(Bases, {})
  BY DEF Closed
<1>2. Needs(Bases, s) \subseteq {}
  BY <1>1, GraphTypes, NeedsIsLeast
<1> QED
  BY <1>2 DEF Chain

LEMMA ChainGoesOn ==
  ASSUME file \in Files, NEW s \in Service, NEW b \in Service, Bases[s] = {b}
  PROVE  Chain(s) = {s} \cup Chain(b)
<1> DEFINE S == {b} \cup Needs(Bases, b)
<1>1. /\ Bases \in [Service -> SUBSET Name]
      /\ Needs(Bases, b) \subseteq Name /\ Bases[b] \subseteq Needs(Bases, b)
      /\ Closed(Bases, Needs(Bases, b))
  BY GraphTypes, NeedsIsLeast
<1>2. S \in SUBSET Name /\ Bases[s] \subseteq S /\ Closed(Bases, S)
  BY <1>1, ServiceAssumption DEF Closed
<1>3. Needs(Bases, s) \subseteq S
  BY <1>1, <1>2, NeedsIsLeast
<1>4. b \in Needs(Bases, s)
  BY <1>1, NeedsIsLeast
<1>5. Needs(Bases, b) \subseteq Needs(Bases, s)
  BY <1>1, <1>4, NeedsTransitive
<1> QED
  BY <1>3, <1>4, <1>5 DEF Chain

LEMMA ChainFacts ==
  ASSUME file \in Files, NEW s \in Service
  PROVE  /\ s \in Chain(s) /\ Chain(s) \subseteq Service
         /\ \A x \in Chain(s) : Chain(x) \subseteq Chain(s)
         /\ \A x \in Chain(s) : x = s \/ x \in Needs(ExtendsGraph, s)
<1>1. /\ Bases \in [Service -> SUBSET Name] /\ ExtendsGraph \in [Service -> SUBSET Name]
      /\ \A t \in Service : Bases[t] \subseteq {t} \cup ExtendsGraph[t]
  BY GraphTypes
<1>2. ASSUME NEW x \in Chain(s)
      PROVE  Chain(x) \subseteq Chain(s)
  BY <1>1, <1>2, NeedsTransitive DEF Chain
<1> DEFINE N == Needs(ExtendsGraph, s)
           S == {s} \cup N
<1>3. N \subseteq Name /\ ExtendsGraph[s] \subseteq N /\ Closed(ExtendsGraph, N)
  BY <1>1, NeedsIsLeast
<1>4. S \in SUBSET Name /\ Bases[s] \subseteq S
  BY <1>1, <1>3, ServiceAssumption
<1>5. Closed(Bases, S)
  BY <1>1, <1>3 DEF Closed
<1>6. Needs(Bases, s) \subseteq S
  BY <1>1, <1>4, <1>5, NeedsIsLeast
<1> QED
  BY <1>2, <1>6 DEF Chain

\* The service that extends is not among those it extends.
LEMMA ChainLeavesStart ==
  ASSUME file \in Files, Acyclic(ExtendsGraph), NEW s \in Service, NEW b \in Service,
         b # s, Bases[s] = {b}
  PROVE  /\ b \in Needs(ExtendsGraph, s)
         /\ \A x \in Chain(b) : s \notin Chain(x)
<1>1. /\ ExtendsGraph \in [Service -> SUBSET Name]
      /\ Bases[s] \subseteq {s} \cup ExtendsGraph[s]
  BY GraphTypes
<1>2. b \in Needs(ExtendsGraph, s)
  BY <1>1, NeedsIsLeast
<1>3. s \notin Chain(b)
  <2> SUFFICES ASSUME s \in Chain(b) PROVE FALSE
    OBVIOUS
  <2>1. s \in Needs(ExtendsGraph, b)
    BY ChainFacts
  <2>2. Needs(ExtendsGraph, b) \subseteq Needs(ExtendsGraph, s)
    BY <1>1, <1>2, NeedsTransitive
  <2> QED
    BY <2>1, <2>2 DEF Acyclic
<1> QED
  BY <1>2, <1>3, ChainFacts

--------------------------------------------------------------------------------
(* The list of containers. *)

ContainerSet == {ContainerOf(p[1], p[2]) : p \in {q \in Service \X (1 .. 2) : q[2] <= Replicas(q[1])}}

LEMMA ReplicasType ==
  ASSUME FormInv, NEW s \in Service
  PROVE  Replicas(s) \in 0 .. 2
<1>1. CASE srv[s]["deploy"] = {}
  BY <1>1 DEF Replicas
<1>2. CASE srv[s]["deploy"] # {}
  <2>1. PICK o \in srv[s]["deploy"] : TRUE
    BY <1>2
  <2>2. "deploy" \in Refs /\ o \in Object
    BY <2>1, KeyFacts DEF FormInv, ServicesInv, Held
  <2>3. obj["deploy"][o] \in 0 .. 2
    BY <2>2 DEF FormInv, ServicesInv, Heap
  <2>4. \E n \in 0 .. 2 : \E p \in srv[s]["deploy"] : n = obj["deploy"][p]
    BY <2>1, <2>3
  <2>5. Replicas(s) = CHOOSE n \in 0 .. 2 : \E p \in srv[s]["deploy"] : n = obj["deploy"][p]
    BY <1>2 DEF Replicas
  <2> QED
    BY <2>4, <2>5
<1> QED
  BY <1>1, <1>2

\* The name that counts is in the file.
LEMMA NameFacts ==
  ASSUME FormInv, NEW s \in Service, NEW n \in 1 .. 2
  PROVE  ContainerName(s, n) \in ContainerNames
<1>1. s \in Name
  BY ServiceAssumption
<1>2. CASE n = 1 /\ srv[s]["container_name"] # {}
  <2>1. PICK t \in Service : Own(t) \in srv[s]["container_name"]
    <3>1. PICK o : o \in srv[s]["container_name"]
      BY <1>2
    <3>2. \E t \in Givers(s, "container_name") : o = Own(t)
      BY <3>1 DEF FormInv, ServicesInv
    <3>3. Givers(s, "container_name") \subseteq Service
      BY ChainFacts DEF Givers, FormInv
    <3> QED
      BY <3>1, <3>2, <3>3
  <2>2. \E c \in Service : /\ Own(c) \in srv[s]["container_name"]
                           /\ ContainerName(s, n) = file[c].called
    BY <1>2, <2>1 DEF ContainerName
  <2> QED
    BY <2>2, FileFacts DEF FormInv
<1>3. CASE ~(n = 1 /\ srv[s]["container_name"] # {})
  <2>1. ContainerName(s, n) = <<s, n>>
    BY <1>3 DEF ContainerName
  <2> QED
    BY <1>1, <2>1 DEF ContainerNames
<1> QED
  BY <1>2, <1>3

LEMMA ContainerFacts ==
  ASSUME FormInv, NEW s \in Service, NEW n \in 1 .. 2
  PROVE  /\ ContainerOf(s, n) \in Container
         /\ ContainerOf(s, n).name = ContainerName(s, n)
         /\ ContainerOf(s, n).service = {s}
         /\ ContainerOf(s, n).ports = Items(s, "ports")
         /\ ContainerOf(s, n).hosts = {}
<1>1. ContainerName(s, n) \in (Name \cup {"infra"}) \X (0 .. 2)
  BY NameFacts DEF ContainerNames
<1>2. Items(s, "ports") \subseteq Place
  <2>1. \A o \in srv[s]["ports"] : o \in Object
    BY KeyFacts DEF FormInv, ServicesInv, Held
  <2> QED
    BY <2>1 DEF Items, FormInv, ServicesInv, Heap
<1> QED
  BY <1>1, <1>2 DEF ContainerOf, Container

\* All containers are listed.
LEMMA AllAreListed ==
  ASSUME FormInv
  PROVE  /\ AllContainers \in Seq(ContainerSet)
         /\ \A s \in Service : \A n \in 1 .. Replicas(s) :
              \E k \in DOMAIN AllContainers : AllContainers[k] = ContainerOf(s, n)
         /\ \A j, k \in DOMAIN AllContainers : j <= k =>
              \A s \in AllContainers[j].service, t \in AllContainers[k].service :
                Position(s) <= Position(t)
<1>1. /\ order \in Seq(Service) /\ \A t \in Service : \E i \in DOMAIN order : order[i] = t
      /\ \A i, j \in DOMAIN order : order[i] = order[j] => i = j
  BY FilesAssumption DEF FormInv, Enumerates
<1>2. PICK m \in Nat : m = Len(order)
  BY <1>1, LenProperties
<1>3. DOMAIN order = 1 .. m /\ \A i \in 1 .. m : order[i] \in Service
  BY <1>1, <1>2, LenProperties, ElementOfSeq
<1> DEFINE all == {p \in (DOMAIN order) \X (1 .. 2) : p[2] <= Replicas(order[p[1]])}
           at  == InOrder(Lexicographic, all)
           c   == Cardinality(all)
<1>4. IsFiniteSet((1 .. m) \X (1 .. 2))
  <2>1. \A n \in Nat : IsFiniteSet(1 .. n)
    BY FS_Interval
  <2>2. IsFiniteSet(1 .. m) /\ IsFiniteSet(1 .. 2)
    BY <2>1
  <2> QED
    BY <2>2, FS_Product
<1>5. IsFiniteSet(all) /\ all \in SUBSET (Nat \X Nat)
  BY <1>3, <1>4, FS_Subset
<1>6. Orders(Lexicographic, all) /\ c \in Nat
  BY <1>5, LexicographicOrders, FS_CardinalityType
<1>7. /\ at \in Seq(all) /\ Len(at) = c /\ DOMAIN at = 1 .. c
      /\ \A k \in 1 .. c : at[k] \in all
      /\ \A p \in all : \E k \in 1 .. c : at[k] = p
      /\ \A j, k \in 1 .. c : j < k => <<at[j], at[k]>> \in Lexicographic
  <2> HIDE DEF all
  <2> QED
    BY <1>5, <1>6, InOrderLists
<1>8. AllContainers = [k \in DOMAIN at |-> ContainerOf(order[at[k][1]], at[k][2])]
  BY DEF AllContainers
<1> HIDE DEF at, c
<1>9. ASSUME NEW k \in 1 .. c
      PROVE  AllContainers[k] \in ContainerSet
  <2>1. PICK p : p = at[k]
    OBVIOUS
  <2>2. p \in (1 .. m) \X (1 .. 2) /\ p[2] <= Replicas(order[p[1]])
    BY <1>3, <1>7, <2>1
  <2>3. PICK q : q = <<order[p[1]], p[2]>>
    OBVIOUS
  <2>4. q \in Service \X (1 .. 2) /\ q[2] <= Replicas(q[1])
    BY <1>3, <2>2, <2>3
  <2>5. AllContainers[k] = ContainerOf(q[1], q[2])
    BY <1>7, <1>8, <2>1, <2>3
  <2> QED
    BY <2>4, <2>5 DEF ContainerSet
<1>10. AllContainers \in [1 .. c -> ContainerSet]
  BY <1>7, <1>8, <1>9
<1>11. AllContainers \in Seq(ContainerSet) /\ DOMAIN AllContainers = 1 .. c
  BY <1>6, <1>10
<1>12. ASSUME NEW s \in Service, NEW n \in 1 .. Replicas(s)
       PROVE  \E k \in DOMAIN AllContainers : AllContainers[k] = ContainerOf(s, n)
  <2>1. PICK i \in 1 .. m : order[i] = s
    BY <1>1, <1>3
  <2>2. n \in 1 .. 2 /\ n <= Replicas(s)
    BY ReplicasType
  <2>3. PICK p : p = <<i, n>>
    OBVIOUS
  <2>4. p \in all
    BY <1>3, <2>1, <2>2, <2>3
  <2>5. PICK k \in 1 .. c : at[k] = p
    BY <1>7, <2>4
  <2> QED
    <3>1. AllContainers[k] = ContainerOf(order[at[k][1]], at[k][2])
      BY <1>7, <1>8
    <3>2. at[k][1] = i /\ at[k][2] = n
      BY <2>3, <2>5
    <3> QED
      BY ONLY <1>11, <2>1, <3>1, <3>2
<1>13. \A i \in 1 .. m : Position(order[i]) = i
  BY <1>1, <1>3 DEF Position
<1>14. ASSUME NEW j \in 1 .. c, NEW k \in 1 .. c, j <= k,
              NEW s \in AllContainers[j].service, NEW t \in AllContainers[k].service
       PROVE  Position(s) <= Position(t)
  <2>1. ASSUME NEW i \in 1 .. c
        PROVE  at[i][1] \in 1 .. m /\ AllContainers[i].service = {order[at[i][1]]}
    <3>1. AllContainers[i] = ContainerOf(order[at[i][1]], at[i][2])
      BY <1>7, <1>8
    <3>2. at[i] \in (1 .. m) \X (1 .. 2)
      BY <1>3, <1>7
    <3> QED
      BY <3>1, <3>2 DEF ContainerOf
  <2>2. Position(s) = at[j][1] /\ Position(t) = at[k][1]
    BY <1>13, <2>1
  <2>3. CASE j = k
    BY <2>1, <2>2, <2>3
  <2>4. CASE j < k
    <3>1. <<at[j], at[k]>> \in Lexicographic
      BY <1>7, <2>4
    <3>2. at[j][1] <= at[k][1]
      BY <2>1, <3>1 DEF Lexicographic
    <3> QED
      BY <2>2, <3>2
  <2> QED
    BY <1>6, <1>14, <2>3, <2>4
<1> QED
  BY <1>11, <1>12, <1>14

\* One container stays of each name.
LEMMA NamesAreListed ==
  ASSUME NEW C, NEW l \in Seq(C)
  PROVE  /\ OnePerName(l) \in Seq(C)
         /\ \A i \in DOMAIN l : \E k \in DOMAIN OnePerName(l) : OnePerName(l)[k].name = l[i].name
         /\ \A k \in DOMAIN OnePerName(l) : \E i \in DOMAIN l :
              OnePerName(l)[k] = l[i] /\ \A j \in DOMAIN l : l[j].name = l[i].name => j <= i
         /\ \A j, k \in DOMAIN OnePerName(l) :
              OnePerName(l)[j].name = OnePerName(l)[k].name => j = k
<1> DEFINE named(i) == {j \in DOMAIN l : l[j].name = l[i].name}
           firsts   == {i \in DOMAIN l : \A j \in named(i) : i <= j}
           last     == [i \in DOMAIN l |-> CHOOSE j \in named(i) : \A k \in named(i) : k <= j]
           m        == [i \in DOMAIN l |-> l[last[i]]]
<1>1. PICK n \in Nat : DOMAIN l = 1 .. n
  BY LenProperties
<1>2. \A i \in 1 .. n : l[i] \in C
  BY <1>1, LenProperties, ElementOfSeq
<1>3. ASSUME NEW i \in 1 .. n
      PROVE  /\ named(i) \in SUBSET (1 .. n) /\ i \in named(i)
             /\ \E j \in named(i) : \A k \in named(i) : j <= k
             /\ \E j \in named(i) : \A k \in named(i) : k <= j
  <2>1. IsFiniteSet(1 .. n)
    BY FS_Interval
  <2>2. named(i) \in SUBSET (1 .. n) /\ i \in named(i)
    BY <1>1
  <2>3. IsFiniteSet(named(i)) /\ named(i) \in SUBSET Nat /\ named(i) # {}
    BY <2>1, <2>2, FS_Subset
  <2> HIDE DEF named
  <2> QED
    BY <2>2, <2>3, LeastAndGreatest
<1>4. ASSUME NEW i \in 1 .. n
      PROVE  /\ last[i] \in 1 .. n /\ l[last[i]].name = l[i].name
             /\ \A j \in 1 .. n : l[j].name = l[i].name => j <= last[i]
  <2>1. last[i] = CHOOSE j \in named(i) : \A k \in named(i) : k <= j
    BY <1>1
  <2>2. last[i] \in named(i) /\ \A k \in named(i) : k <= last[i]
    <3> HIDE DEF named, last
    <3> QED
      BY <1>3, <2>1
  <2> QED
    BY <1>1, <2>2
<1>5. /\ m \in Seq(C) /\ DOMAIN m = 1 .. n
      /\ \A i \in 1 .. n :
           /\ m[i].name = l[i].name
           /\ \E k \in 1 .. n : m[i] = l[k] /\ \A j \in 1 .. n : l[j].name = l[k].name => j <= k
  <2>1. m \in [1 .. n -> C]
    BY <1>1, <1>2, <1>4
  <2>2. ASSUME NEW i \in 1 .. n
        PROVE  \E k \in 1 .. n : m[i] = l[k] /\ \A j \in 1 .. n : l[j].name = l[k].name => j <= k
    <3>1. m[i] = l[last[i]]
      BY <1>1
    <3> HIDE DEF last, m
    <3> QED
      BY <1>4, <3>1
  <2>3. \A i \in 1 .. n : m[i].name = l[i].name
    BY <1>1, <1>4
  <2> HIDE DEF m
  <2> QED
    BY <1>1, <2>1, <2>2, <2>3
<1>6. firsts \in SUBSET (1 .. n)
  BY <1>1
<1>7. ASSUME NEW i \in 1 .. n
      PROVE  \E f \in firsts : l[f].name = l[i].name
  <2>1. PICK f \in named(i) : \A k \in named(i) : f <= k
    BY <1>3
  <2>2. f \in 1 .. n /\ l[f].name = l[i].name /\ named(f) = named(i)
    BY <1>1, <2>1
  <2> QED
    BY <1>1, <2>1, <2>2
<1>8. ASSUME NEW f \in firsts, NEW g \in firsts, l[f].name = l[g].name
      PROVE  f = g
  <2>1. f \in named(g) /\ g \in named(f)
    BY <1>8
  <2>2. f <= g /\ g <= f
    BY <2>1
  <2> QED
    BY <1>6, <2>2
<1> HIDE DEF firsts, m
<1>9. OnePerName(l) = Chosen(m, firsts)
  BY DEF OnePerName, firsts, m
<1> DEFINE a == Ascending(firsts)
           c == Cardinality(firsts)
           r == OnePerName(l)
<1>10. /\ r \in Seq(C) /\ DOMAIN r = 1 .. c /\ c \in Nat
       /\ \A k \in 1 .. c : a[k] \in firsts /\ r[k] = m[a[k]]
       /\ \A j, k \in 1 .. c : j < k => a[j] < a[k]
  <2>1. m \in Seq(C) /\ firsts \in SUBSET DOMAIN m /\ r = Chosen(m, firsts)
    BY <1>5, <1>6, <1>9
  <2> HIDE DEF r
  <2>2. /\ r \in Seq(C) /\ DOMAIN r = 1 .. c /\ c \in Nat
        /\ \A k \in 1 .. c : a[k] \in firsts /\ r[k] = m[a[k]]
        /\ \A j, k \in 1 .. c : j < k => a[j] < a[k]
    BY <2>1, ChosenLists
  <2> QED
    BY <2>2
<1>11. \A f \in firsts : \E k \in 1 .. c : a[k] = f
  <2>1. IsFiniteSet(1 .. n)
    BY FS_Interval
  <2>2. IsFiniteSet(firsts)
    BY <1>6, <2>1, FS_Subset
  <2>3. firsts \in SUBSET Nat
    BY <1>6
  <2> QED
    BY <2>2, <2>3, AscendingLists
<1> HIDE DEF a, c, r
<1>12. ASSUME NEW i \in 1 .. n
       PROVE  \E k \in 1 .. c : r[k].name = l[i].name
  <2>1. PICK f \in firsts : l[f].name = l[i].name
    BY <1>7
  <2>2. PICK k \in 1 .. c : a[k] = f
    BY <1>11
  <2> QED
    BY <1>5, <1>6, <1>10, <2>1, <2>2
<1>13. ASSUME NEW k \in 1 .. c
       PROVE  \E i \in 1 .. n : r[k] = l[i] /\ \A j \in 1 .. n : l[j].name = l[i].name => j <= i
  <2>1. a[k] \in 1 .. n /\ r[k] = m[a[k]]
    BY <1>6, <1>10
  <2> QED
    BY <1>5, <2>1
<1>14. ASSUME NEW j \in 1 .. c, NEW k \in 1 .. c, r[j].name = r[k].name
       PROVE  j = k
  <2>1. /\ a[j] \in firsts /\ a[k] \in firsts
        /\ r[j].name = l[a[j]].name /\ r[k].name = l[a[k]].name
    BY <1>5, <1>6, <1>10
  <2>2. a[j] = a[k]
    BY <1>8, <1>14, <2>1
  <2>3. ~(j < k) /\ ~(k < j)
    <3>1. a[j] \in Nat
      BY <1>6, <2>1
    <3> QED
      BY <1>10, <2>2, <3>1
  <2> QED
    BY <1>10, <2>3
<1> QED
  BY <1>1, <1>10, <1>12, <1>13, <1>14 DEF r

Number(c) == Cardinality(UNION {deps[t] : t \in c.service})

LEMMA MemberFacts ==
  ASSUME FormInv, NEW c \in ContainerSet
  PROVE  \E s \in Service, n \in 1 .. 2 :
           /\ n <= Replicas(s) /\ c = ContainerOf(s, n)
           /\ c \in Container /\ c.name = ContainerName(s, n)
           /\ c.service = {s} /\ c.ports = Items(s, "ports") /\ c.hosts = {}
           /\ Number(c) = Cardinality(deps[s]) /\ Number(c) \in Nat
<1>1. PICK p \in Service \X (1 .. 2) : p[2] <= Replicas(p[1]) /\ c = ContainerOf(p[1], p[2])
  BY DEF ContainerSet
<1>2. PICK s \in Service, n \in 1 .. 2 : s = p[1] /\ n = p[2]
  BY <1>1
<1>3. c = ContainerOf(s, n) /\ n <= Replicas(s)
  BY <1>1, <1>2
<1>4. /\ c \in Container /\ c.name = ContainerName(s, n)
      /\ c.service = {s} /\ c.ports = Items(s, "ports") /\ c.hosts = {}
  BY <1>3, ContainerFacts
<1>5. Number(c) = Cardinality(deps[s]) /\ Number(c) \in Nat
  <2>1. UNION {deps[t] : t \in c.service} = deps[s]
    BY <1>4
  <2>2. deps[s] \in SUBSET Name
    BY DEF FormInv, DepsTypeOK
  <2>3. IsFiniteSet(deps[s])
    BY <2>2, ServiceAssumption, FS_Subset
  <2> QED
    BY <2>1, <2>3, FS_CardinalityType DEF Number
<1> QED
  BY <1>3, <1>4, <1>5

\* What the list of containers is, whatever the file says.
LEMMA Listing ==
  ASSUME FormInv, NEW l, l = ByDeps(OnePerName(AllContainers))
  PROVE  /\ l \in Seq(ContainerSet)
         /\ \A s \in Service : \A n \in 1 .. Replicas(s) :
              /\ \E k \in DOMAIN l : l[k].name = ContainerName(s, n)
              /\ \A k \in DOMAIN l : l[k].name = ContainerName(s, n) =>
                   \A t \in l[k].service : Position(s) <= Position(t)
         /\ \A j, k \in DOMAIN l : l[j].name = l[k].name => j = k
         /\ \A j, k \in 1 .. Len(l) : j < k => Number(l[j]) <= Number(l[k])
<1>1. PICK a : a = AllContainers
  OBVIOUS
<1>2. /\ a \in Seq(ContainerSet)
      /\ \A s \in Service : \A n \in 1 .. Replicas(s) : \E k \in DOMAIN a : a[k] = ContainerOf(s, n)
      /\ \A j, k \in DOMAIN a : j <= k =>
           \A s \in a[j].service, t \in a[k].service : Position(s) <= Position(t)
  BY <1>1, AllAreListed
<1>3. PICK o : o = OnePerName(a)
  OBVIOUS
<1>4. /\ o \in Seq(ContainerSet)
      /\ \A i \in DOMAIN a : \E k \in DOMAIN o : o[k].name = a[i].name
      /\ \A k \in DOMAIN o : \E i \in DOMAIN a :
           o[k] = a[i] /\ \A j \in DOMAIN a : a[j].name = a[i].name => j <= i
      /\ \A j, k \in DOMAIN o : o[j].name = o[k].name => j = k
  BY <1>2, <1>3, NamesAreListed
<1>5. PICK m \in Nat : DOMAIN o = 1 .. m
  BY <1>4, LenProperties
<1>6. PICK key : key = [i \in 1 .. m |-> Number(o[i])]
  OBVIOUS
<1>7. key \in [DOMAIN o -> Nat] /\ \A i \in 1 .. m : key[i] \in Nat
  <2>1. \A i \in DOMAIN o : o[i] \in ContainerSet
    BY <1>4, LenProperties, ElementOfSeq
  <2> QED
    BY <1>5, <1>6, <2>1, MemberFacts
<1>8. l = Sorted(o, key)
  BY <1>1, <1>3, <1>5, <1>6 DEF ByDeps, Number
<1>9. PICK at \in [1 .. m -> 1 .. m] :
        /\ l \in Seq(ContainerSet) /\ DOMAIN l = 1 .. m
        /\ \A k \in 1 .. m : l[k] = o[at[k]]
        /\ \A i \in 1 .. m : \E k \in 1 .. m : at[k] = i
        /\ \A j, k \in 1 .. m : at[j] = at[k] => j = k
        /\ \A j, k \in 1 .. m : j < k => key[at[j]] <= key[at[k]]
  <2>1. \E at \in [DOMAIN o -> DOMAIN o] :
          /\ Sorted(o, key) \in Seq(ContainerSet) /\ DOMAIN Sorted(o, key) = DOMAIN o
          /\ \A k \in DOMAIN o : Sorted(o, key)[k] = o[at[k]]
          /\ \A i \in DOMAIN o : \E k \in DOMAIN o : at[k] = i
          /\ \A j, k \in DOMAIN o : at[j] = at[k] => j = k
          /\ \A j, k \in DOMAIN o : j < k => key[at[j]] <= key[at[k]]
    BY <1>4, <1>7, SortedLists
  <2> QED
    BY <1>5, <1>7, <1>8, <2>1
<1>10. \A k \in 1 .. m : at[k] \in 1 .. m /\ key[at[k]] = Number(l[k])
  BY <1>6, <1>9
<1>11. ASSUME NEW s \in Service, NEW n \in 1 .. Replicas(s)
       PROVE  \E k \in 1 .. m : l[k].name = ContainerName(s, n)
  <2>1. PICK i \in DOMAIN a : a[i] = ContainerOf(s, n)
    BY <1>2
  <2>2. a[i].name = ContainerName(s, n)
    BY <2>1 DEF ContainerOf
  <2>3. PICK j \in 1 .. m : o[j].name = a[i].name
    BY <1>4, <1>5
  <2>4. PICK k \in 1 .. m : at[k] = j
    BY <1>9
  <2> QED
    BY <1>9, <2>2, <2>3, <2>4
<1>12. ASSUME NEW j \in 1 .. m, NEW k \in 1 .. m, l[j].name = l[k].name
       PROVE  j = k
  <2>1. at[j] \in 1 .. m /\ at[k] \in 1 .. m /\ o[at[j]].name = o[at[k]].name
    BY <1>9, <1>12
  <2>2. \A g, h \in 1 .. m : o[g].name = o[h].name => g = h
    BY <1>4, <1>5
  <2>3. at[j] = at[k]
    BY <2>1, <2>2
  <2> QED
    BY <1>9, <2>3
<1>13. ASSUME NEW j \in 1 .. m, NEW k \in 1 .. m, j < k
       PROVE  Number(l[j]) <= Number(l[k])
  <2>1. key[at[j]] <= key[at[k]]
    BY <1>9, <1>13
  <2>2. key[at[j]] = Number(l[j]) /\ key[at[k]] = Number(l[k])
    BY <1>10
  <2> QED
    BY <2>1, <2>2
<1>14. m = Len(l)
  BY <1>9, LenProperties
<1>15. \A j, k \in 1 .. Len(l) : j < k => Number(l[j]) <= Number(l[k])
  BY <1>13, <1>14
<1>16. l \in Seq(ContainerSet) /\ DOMAIN l = 1 .. m
  BY <1>9
<1>17. \A j, k \in DOMAIN l : l[j].name = l[k].name => j = k
  BY <1>12, <1>16
<1>18. ASSUME NEW s \in Service, NEW n \in 1 .. Replicas(s), NEW k \in 1 .. m,
              l[k].name = ContainerName(s, n), NEW t \in l[k].service
       PROVE  Position(s) <= Position(t)
  <2>1. PICK j \in DOMAIN a : a[j] = ContainerOf(s, n)
    BY <1>2
  <2>2. a[j].name = ContainerName(s, n) /\ s \in a[j].service
    BY <2>1 DEF ContainerOf
  <2>3. at[k] \in DOMAIN o /\ l[k] = o[at[k]]
    BY <1>5, <1>9
  <2>4. PICK i \in DOMAIN a : l[k] = a[i] /\ \A h \in DOMAIN a : a[h].name = a[i].name => h <= i
    BY <1>4, <2>3
  <2>5. j <= i
    BY <1>18, <2>2, <2>4
  <2> QED
    BY <1>2, <2>2, <2>4, <2>5
<1>19. \A s \in Service : \A n \in 1 .. Replicas(s) :
         /\ \E k \in DOMAIN l : l[k].name = ContainerName(s, n)
         /\ \A k \in DOMAIN l : l[k].name = ContainerName(s, n) =>
              \A t \in l[k].service : Position(s) <= Position(t)
  BY <1>11, <1>16, <1>18
<1> QED
  BY <1>15, <1>16, <1>17, <1>19

--------------------------------------------------------------------------------
(* The steps of resolve_extends. *)

LEMMA QueueTail ==
  ASSUME NEW q \in Seq(Service), q # <<>>
  PROVE  /\ Head(q) = q[1] /\ Head(q) \in Service /\ Tail(q) \in Seq(Service)
         /\ Len(q) \in Nat \ {0} /\ DOMAIN q = 1 .. Len(q) /\ DOMAIN Tail(q) = 1 .. Len(q) - 1
         /\ \A i \in 1 .. Len(q) - 1 : i + 1 \in 1 .. Len(q) /\ Tail(q)[i] = q[i + 1]
         /\ {q[i] : i \in DOMAIN q} = {Head(q)} \cup {Tail(q)[i] : i \in DOMAIN Tail(q)}
<1> DEFINE all  == {q[i] : i \in DOMAIN q}
           rest == {Tail(q)[i] : i \in DOMAIN Tail(q)}
<1>1. Len(q) \in Nat \ {0} /\ DOMAIN q = 1 .. Len(q)
  BY EmptySeq, LenProperties
<1>2. /\ Head(q) = q[1] /\ Head(q) \in Service
      /\ Tail(q) \in Seq(Service) /\ Len(Tail(q)) = Len(q) - 1
      /\ \A i \in 1 .. Len(q) - 1 : Tail(q)[i] = q[i + 1]
  BY HeadTailProperties
<1>3. DOMAIN Tail(q) = 1 .. Len(q) - 1
  BY <1>2, LenProperties
<1>4. \A i \in 1 .. Len(q) - 1 : i + 1 \in 1 .. Len(q)
  BY <1>1
<1>5. ASSUME NEW i \in 1 .. Len(q), i # 1
      PROVE  i - 1 \in 1 .. Len(q) - 1 /\ q[i] = Tail(q)[i - 1]
  <2>1. i - 1 \in 1 .. Len(q) - 1 /\ (i - 1) + 1 = i
    BY <1>1, <1>5
  <2> QED
    BY <1>2, <2>1
<1>6. ASSUME NEW x \in all
      PROVE  x \in {Head(q)} \cup rest
  <2>1. PICK i \in 1 .. Len(q) : x = q[i]
    BY <1>1
  <2>2. CASE i = 1
    BY <1>2, <2>1, <2>2
  <2>3. CASE i # 1
    BY <1>3, <1>5, <2>1, <2>3
  <2> QED
    BY <2>2, <2>3
<1>7. {Head(q)} \cup rest \subseteq all
  BY <1>1, <1>2, <1>3, <1>4
<1> QED
  BY <1>1, <1>2, <1>3, <1>4, <1>6, <1>7

\* The objects when a service n of another file is read for s.
Reading(s, n) == [obj EXCEPT !["ports"][FromFile(s)] = {FromFile(n)}]

LEMMA ReadingFacts ==
  ASSUME FormInv, NEW s \in Service, NEW n \in Name
  PROVE  /\ Held(Loaded(s, n)) /\ Heap(Reading(s, n))
         /\ Loaded(s, n)["container_name"] = {} /\ Loaded(s, n)["depends_on"] = {}
         /\ Loaded(s, n)["image"] = IF n \in Elsewhere THEN {FromFile(n)} ELSE {}
         /\ Loaded(s, n)["ports"] = IF n \in Elsewhere THEN {FromFile(s)} ELSE {}
         /\ \A k \in Lists : \A o \in Object :
              o # FromFile(s) \/ k # "ports" => Reading(s, n)[k][o] = obj[k][o]
         /\ Reading(s, n)["ports"][FromFile(s)] = {FromFile(n)}
<1>1. \A k \in Keys : Loaded(s, n)[k] = IF n \notin Elsewhere THEN {}
                                        ELSE IF k = "image" THEN {FromFile(n)}
                                        ELSE IF k = "ports" THEN {FromFile(s)} ELSE {}
  BY DEF Loaded, Keys
<1>2. Held(Loaded(s, n))
  <2>1. \A k \in Keys : Loaded(s, n)[k] \in SUBSET (Place \cup Object)
    BY <1>1, KeyFacts
  <2>2. Loaded(s, n) \in [Keys -> SUBSET (Place \cup Object)]
    BY <2>1 DEF Loaded, Keys
  <2>3. \A k \in Refs : Loaded(s, n)[k] \subseteq Object
    BY <1>1, KeyFacts
  <2>4. \A k \in Keys : \A o, p \in Loaded(s, n)[k] : o = p
    BY <1>1
  <2> QED
    BY <2>2, <2>3, <2>4 DEF Held
<1>3. /\ obj = [k \in Refs |-> [o \in Object |-> obj[k][o]]]
      /\ \A o \in Object : /\ obj["ports"][o] \subseteq Place
                           /\ obj["depends_on"][o] \subseteq Name
                           /\ obj["deploy"][o] \in 0 .. 2
  BY DEF FormInv, ServicesInv, Heap
<1>4. PICK h : h = Reading(s, n)
  OBVIOUS
<1>5. /\ DOMAIN obj = Refs /\ "ports" \in Refs /\ FromFile(s) \in Object
      /\ \A k \in Refs : obj[k] = [o \in Object |-> obj[k][o]]
  BY <1>3, KeyFacts
<1>6. \A k \in Refs : h[k] = IF k = "ports" THEN [obj["ports"] EXCEPT ![FromFile(s)] = {FromFile(n)}]
                                            ELSE obj[k]
  BY <1>4, <1>5 DEF Reading
<1>7. \A k \in Refs : \A o \in Object :
        h[k][o] = IF k = "ports" /\ o = FromFile(s) THEN {FromFile(n)} ELSE obj[k][o]
  BY <1>5, <1>6
<1>8. DOMAIN h = Refs /\ \A k \in Refs : DOMAIN h[k] = Object
  BY <1>4, <1>5, <1>6 DEF Reading
<1>9. h = [k \in Refs |-> [o \in Object |-> h[k][o]]]
  <2>1. \A k \in Refs : h[k] = [o \in Object |-> h[k][o]]
    BY <1>5, <1>6, <1>8
  <2>2. h = [k \in Refs |-> h[k]]
    BY <1>4, <1>5 DEF Reading
  <2> QED
    BY <2>1, <2>2
<1>10. Heap(h)
  BY <1>3, <1>7, <1>9, KeyFacts DEF Heap
<1> QED
  BY <1>1, <1>2, <1>4, <1>7, <1>10, KeyFacts

\* What resolve_extends does with its next service.
LEMMA ResolveCases ==
  ASSUME FormInv, Resolve
  PROVE  \E s \in Service :
           /\ pending # <<>> /\ s = Head(pending) /\ pending' = Tail(pending)
           /\ \/ phase' = "raised" /\ UNCHANGED <<srv, obj>>
              \/ /\ phase' = "resolve" /\ UNCHANGED <<srv, obj>>
                 /\ file[s].extends = {} /\ Bases[s] = {}
              \/ /\ phase' = "resolve" /\ Bases[s] = {}
                 /\ \E e \in [service : Name, file : BOOLEAN] :
                      /\ file[s].extends = {e} /\ e.file
                      /\ MergeWith(s, Loaded(s, e.service), Reading(s, e.service))
              \/ /\ phase' = "resolve"
                 /\ \E b \in Service :
                      /\ Bases[s] = {b} /\ \E e : file[s].extends = {e} /\ ~e.file
                      /\ MergeWith(s, srv[b], obj)
<1>1. pending \in Seq(Service) /\ pending # <<>>
  BY DEF FormInv, Resolve
<1>2. PICK s \in Service : s = Head(pending)
  BY <1>1, QueueTail
<1>3. /\ phase = "resolve" /\ pending' = Tail(pending)
      /\ \/ file[s].extends = {} /\ UNCHANGED <<srv, obj, phase>>
         \/ \E e \in file[s].extends :
              /\ e.file /\ MergeWith(s, Loaded(s, e.service), Reading(s, e.service))
              /\ UNCHANGED phase
         \/ \E e \in file[s].extends :
              ~e.file /\ e.service \in Service /\ MergeWith(s, srv[e.service], obj) /\ UNCHANGED phase
         \/ \E e \in file[s].extends : phase' = "raised" /\ UNCHANGED <<srv, obj>>
  BY <1>2 DEF Resolve, Reading
<1>4. \/ file[s].extends = {}
      \/ \E e \in [service : Name, file : BOOLEAN] : file[s].extends = {e}
  BY FileFacts DEF FormInv
<1>5. Bases[s] = {e.service : e \in {x \in file[s].extends : ~x.file}}
  BY DEF Bases
<1>6. CASE file[s].extends = {} /\ UNCHANGED <<srv, obj, phase>>
  <2>1. Bases[s] = {} /\ phase' = "resolve"
    BY <1>3, <1>5, <1>6
  <2> QED
    BY <1>1, <1>2, <1>3, <1>6, <2>1
<1>7. ASSUME NEW e \in file[s].extends, e.file,
             MergeWith(s, Loaded(s, e.service), Reading(s, e.service)), UNCHANGED phase
      PROVE  /\ phase' = "resolve" /\ Bases[s] = {}
             /\ \E f \in [service : Name, file : BOOLEAN] :
                  /\ file[s].extends = {f} /\ f.file
                  /\ MergeWith(s, Loaded(s, f.service), Reading(s, f.service))
  <2>1. e \in [service : Name, file : BOOLEAN] /\ file[s].extends = {e}
    BY <1>4
  <2>2. Bases[s] = {}
    BY <1>5, <1>7, <2>1
  <2> QED
    BY <1>3, <1>7, <2>1, <2>2
<1>8. ASSUME NEW e \in file[s].extends, ~e.file, e.service \in Service,
             MergeWith(s, srv[e.service], obj), UNCHANGED phase
      PROVE  /\ phase' = "resolve"
             /\ \E b \in Service :
                  /\ Bases[s] = {b} /\ \E f : file[s].extends = {f} /\ ~f.file
                  /\ MergeWith(s, srv[b], obj)
  <2>1. file[s].extends = {e}
    BY <1>4
  <2>2. Bases[s] = {e.service}
    BY <1>5, <1>8, <2>1
  <2> QED
    BY <1>3, <1>8, <2>1, <2>2
<1> QED
  BY <1>1, <1>2, <1>3, <1>6, <1>7, <1>8

--------------------------------------------------------------------------------
(* The form of the state. *)

LEMMA FormGives == FormInv => FileTypeOK
<1> SUFFICES ASSUME FormInv PROVE FileTypeOK
  OBVIOUS
<1>1. file \in [Service -> Desc]
  BY FilesAssumption DEF FormInv
<1>2. \A s \in Service : \A k \in Refs : srv[s][k] \subseteq Object
  BY DEF FormInv, ServicesInv, Held
<1>3. \A o \in Object : /\ obj["ports"][o] \subseteq Place
                        /\ obj["depends_on"][o] \subseteq Name
                        /\ obj["deploy"][o] \in 0 .. 2
  BY DEF FormInv, ServicesInv, Heap
<1>4. srv \in [Service -> [Scalars \cup Refs -> SUBSET (Place \cup Object)]]
  BY DEF FormInv, ServicesInv, Keys
<1>5. /\ \A i \in DOMAIN given : given[i] \in Container
      /\ \A i \in DOMAIN containers : containers[i] \in Container
      /\ \A i \in DOMAIN pods : pods[i] \in [ports : SUBSET Place]
  <2>1. \A C : \A l \in Seq(C) : \A i \in DOMAIN l : l[i] \in C
    BY LenProperties, ElementOfSeq
  <2> QED
    BY <2>1 DEF FormInv, ListsInv
<1> QED
  BY <1>1, <1>2, <1>3, <1>4, <1>5 DEF FormInv, FileTypeOK

\* What is said about the file stays as it is.
LEMMA GraphSame ==
  ASSUME file' = file
  PROVE  /\ Bases' = Bases /\ ExtendsGraph' = ExtendsGraph
         /\ Acyclic(ExtendsGraph)' <=> Acyclic(ExtendsGraph)
         /\ \A s : Chain(s)' = Chain(s) /\ FarEnd(s)' = FarEnd(s)
         /\ \A s, k : Givers(s, k)' = Givers(s, k) /\ Nearest(s, k)' = Nearest(s, k)
         /\ \A s : Needs(ExtendsGraph, s)' = Needs(ExtendsGraph, s)
<1>1. Bases' = Bases /\ ExtendsGraph' = ExtendsGraph
  BY DEF Bases, ExtendsGraph, NamesExtended
<1>2. \A s : /\ Needs(Bases, s)' = Needs(Bases, s)
             /\ Needs(ExtendsGraph, s)' = Needs(ExtendsGraph, s)
  BY <1>1 DEF Needs, Closed
<1>3. \A s : Chain(s)' = Chain(s)
  BY <1>2 DEF Chain
<1>4. \A s : FarEnd(s)' = FarEnd(s)
  BY <1>3 DEF FarEnd
<1>5. \A s, k : Givers(s, k)' = Givers(s, k) /\ Nearest(s, k)' = Nearest(s, k)
  <2>1. \A s, k : Says(s, k)' = Says(s, k)
    BY DEF Says
  <2>2. \A s, k : Givers(s, k)' = Givers(s, k)
    BY <1>3, <2>1 DEF Givers
  <2> QED
    BY <1>3, <2>2 DEF Nearest
<1>6. Acyclic(ExtendsGraph)' <=> Acyclic(ExtendsGraph)
  BY <1>2 DEF Acyclic
<1> QED
  BY <1>1, <1>2, <1>3, <1>4, <1>5, <1>6

\* Before resolve_extends a service holds what it says itself.
LEMMA ServicesAtFirst ==
  ASSUME FileInit
  PROVE  /\ ServicesInv
         /\ \A s \in Service : \A k \in Keys \ {"deploy"} :
              srv[s][k] = IF Says(s, k) THEN {Own(s)} ELSE {}
         /\ \A s \in Service : obj["ports"][Own(s)] = {Own(s)}
         /\ \A s \in Service : obj["depends_on"][Own(s)] = file[s].depends
<1>1. file \in Files
  BY DEF FileInit
<1>2. ASSUME NEW s \in Service
      PROVE  /\ \A k \in Keys : srv[s][k] = {} \/ srv[s][k] = {Own(s)}
             /\ \A k \in Keys \ {"deploy"} : srv[s][k] = IF Says(s, k) THEN {Own(s)} ELSE {}
             /\ srv[s] = [k \in Keys |-> srv[s][k]]
  BY KeyFacts DEF FileInit, Keys, Says
<1>3. ASSUME NEW s \in Service
      PROVE  /\ Held(srv[s])
             /\ srv[s]["container_name"] \subseteq {Own(t) : t \in Givers(s, "container_name")}
  <2>1. \A k \in Keys : /\ srv[s][k] \in SUBSET (Place \cup Object) /\ srv[s][k] \subseteq Object
                        /\ \A o, p \in srv[s][k] : o = p
    <3>1. PICK own : own = Own(s)
      OBVIOUS
    <3>2. own \in Object /\ own \in Place
      BY <3>1, KeyFacts
    <3>3. \A k \in Keys : srv[s][k] = {} \/ srv[s][k] = {own}
      BY <1>2, <3>1
    <3> QED
      BY <3>2, <3>3
  <2>2. srv[s] \in [Keys -> SUBSET (Place \cup Object)]
    BY <1>2, <2>1
  <2>3. Held(srv[s])
    BY <2>1, <2>2, KeyFacts DEF Held
  <2>4. srv[s]["container_name"] # {} => s \in Givers(s, "container_name")
    <3>1. "container_name" \in Keys \ {"deploy"} /\ "container_name" # "depends_on"
      BY KeyFacts
    <3>2. srv[s]["container_name"] # {} => "container_name" \in file[s].gives
      BY <1>2, <3>1 DEF Says
    <3> QED
      BY <1>1, <3>2, ChainFacts DEF Givers, Says
  <2>5. srv[s]["container_name"] = {} \/ srv[s]["container_name"] = {Own(s)}
    BY <1>2, KeyFacts
  <2> QED
    BY <2>3, <2>4, <2>5
<1>4. srv \in [Service -> [Keys -> SUBSET (Place \cup Object)]]
  <2>1. srv = [s \in Service |-> srv[s]]
    BY DEF FileInit
  <2> QED
    BY <1>3, <2>1 DEF Held
<1>5. \A o \in Object : /\ obj["ports"][o] = IF o[2] = "file" THEN {} ELSE {o}
                        /\ obj["depends_on"][o] = IF o[2] = "file" THEN {} ELSE file[o[1]].depends
                        /\ obj["deploy"][o] = IF o[2] = "file" \/ file[o[1]].deploy = {} THEN 1
                                              ELSE CHOOSE n \in file[o[1]].deploy : TRUE
  BY KeyFacts DEF FileInit
<1>6. Heap(obj)
  <2> DEFINE what(k, o) == IF o[2] = "file" THEN IF k = "deploy" THEN 1 ELSE {}
                           ELSE CASE k = "ports"      -> {o}
                                  [] k = "depends_on" -> file[o[1]].depends
                                  [] k = "deploy"     -> IF file[o[1]].deploy = {} THEN 1
                                                         ELSE CHOOSE n \in file[o[1]].deploy : TRUE
  <2>3. obj = [k \in Refs |-> [o \in Object |-> what(k, o)]]
    BY DEF FileInit
  <2> HIDE DEF what
  <2>1. obj = [k \in Refs |-> [o \in Object |-> obj[k][o]]]
    BY <2>3
  <2>2. ASSUME NEW o \in Object
        PROVE  /\ obj["ports"][o] \subseteq Place
               /\ obj["depends_on"][o] \subseteq Name
               /\ obj["deploy"][o] \in 0 .. 2
    <3>1. PICK t \in Service : t = o[1]
      BY DEF Object
    <3>2. file[t].depends \subseteq Name /\ \A n \in file[t].deploy : n \in 0 .. 2
      BY <1>1, FileFacts
    <3>3. file[t].deploy # {} => (CHOOSE n \in file[t].deploy : TRUE) \in file[t].deploy
      OBVIOUS
    <3>4. obj["ports"][o] \subseteq Place
      <4>1. o \in Place
        BY KeyFacts
      <4>2. obj["ports"][o] = {} \/ obj["ports"][o] = {o}
        BY <1>5
      <4> QED
        BY <4>1, <4>2
    <3>5. obj["depends_on"][o] \subseteq Name
      BY <1>5, <3>1, <3>2
    <3>6. obj["deploy"][o] \in 0 .. 2
      <4>1. PICK d : d = file[t].deploy
        OBVIOUS
      <4>2. obj["deploy"][o] = IF o[2] = "file" \/ d = {} THEN 1 ELSE CHOOSE n \in d : TRUE
        BY <1>5, <3>1, <4>1
      <4>3. d # {} => (CHOOSE n \in d : TRUE) \in 0 .. 2
        BY <3>2, <3>3, <4>1
      <4> QED
        BY <4>2, <4>3
    <3> QED
      BY <3>4, <3>5, <3>6
  <2> QED
    BY <2>1, <2>2 DEF Heap
<1>7. \A s \in Service : Own(s) \in Object /\ Own(s)[1] = s /\ Own(s)[2] # "file"
  BY KeyFacts DEF Own
<1>8. ServicesInv
  BY <1>3, <1>4, <1>6 DEF ServicesInv
<1>9. \A s \in Service : obj["ports"][Own(s)] = {Own(s)} /\ obj["depends_on"][Own(s)] = file[s].depends
  BY <1>5, <1>7
<1> QED
  BY <1>2, <1>8, <1>9

LEMMA FormInitially == FileInit => FormInv
<1> SUFFICES ASSUME FileInit PROVE FormInv
  OBVIOUS
<1>1. DepsTypeOK
  BY DepsInitially DEF FileInit
<1>2. ServicesInv
  BY ServicesAtFirst
<1>3. ListsInv
  BY EmptySeq DEF FileInit, ListsInv
<1>4. pending \in Seq(Service) /\ phase \in Phase /\ pending = <<>>
  BY EmptySeq DEF FileInit, Phase
<1> QED
  BY <1>1, <1>2, <1>3, <1>4 DEF FileInit, FormInv

LEMMA ServicesSame ==
  ASSUME UNCHANGED <<file, srv, obj>>
  PROVE  /\ ServicesInv' <=> ServicesInv
         /\ \A s, k : Items(s, k)' = Items(s, k)
         /\ \A s : Replicas(s)' = Replicas(s)
         /\ \A s, n : ContainerOf(s, n)' = ContainerOf(s, n) /\ ContainerName(s, n)' = ContainerName(s, n)
         /\ ContainerSet' = ContainerSet /\ NamesNeeded' = NamesNeeded
<1>1. \A s, k : Givers(s, k)' = Givers(s, k)
  BY GraphSame
<1>2. \A s, k : Items(s, k)' = Items(s, k)
  BY DEF Items
<1>3. \A s : Replicas(s)' = Replicas(s)
  BY DEF Replicas
<1>4. \A s, n : ContainerName(s, n)' = ContainerName(s, n)
  BY DEF ContainerName
<1>5. \A s, n : ContainerOf(s, n)' = ContainerOf(s, n)
  BY <1>2, <1>4 DEF ContainerOf
<1>6. ContainerSet' = ContainerSet
  BY <1>3, <1>5 DEF ContainerSet
<1>7. NamesNeeded' = NamesNeeded
  BY <1>2 DEF NamesNeeded
<1>8. ServicesInv' <=> ServicesInv
  BY <1>1 DEF ServicesInv, Heap, Held
<1> QED
  BY <1>2, <1>3, <1>4, <1>5, <1>6, <1>7, <1>8

LEMMA NamesNeededType ==
  ASSUME FormInv
  PROVE  NamesNeeded \in [Service -> SUBSET Name]
<1>1. ASSUME NEW s \in Service
      PROVE  Items(s, "depends_on") \subseteq Name
  <2>1. \A o \in srv[s]["depends_on"] : o \in Object
    BY KeyFacts DEF FormInv, ServicesInv, Held
  <2> QED
    BY <2>1 DEF Items, FormInv, ServicesInv, Heap
<1> QED
  BY <1>1 DEF NamesNeeded

\* A merge keeps the form, and takes no name from elsewhere than the chain.
LEMMA MergeKeepsForm ==
  ASSUME FormInv, file' = file, NEW s \in Service, NEW base, NEW heap,
         Held(base), Heap(heap), MergeWith(s, base, heap),
         base["container_name"] \subseteq {Own(t) : t \in Givers(s, "container_name")}
  PROVE  ServicesInv'
<1>1. /\ srv \in [Service -> [Keys -> SUBSET (Place \cup Object)]]
      /\ \A t \in Service :
           /\ Held(srv[t])
           /\ srv[t]["container_name"] \subseteq {Own(x) : x \in Givers(t, "container_name")}
  BY DEF FormInv, ServicesInv
<1>2. /\ srv' \in [Service -> [Keys -> SUBSET (Place \cup Object)]]
      /\ \A t \in Service : t # s => srv'[t] = srv[t]
      /\ Held(srv'[s]) /\ Heap(obj')
      /\ \A k \in Scalars : srv'[s][k] = IF srv[s][k] # {} THEN srv[s][k] ELSE base[k]
  BY <1>1, MergeFacts
<1>3. \A t \in Service : Held(srv'[t])
  BY <1>1, <1>2
<1>4. \A t \in Service :
        srv'[t]["container_name"] \subseteq {Own(x) : x \in Givers(t, "container_name")}
  <2>1. srv'[s]["container_name"] = srv[s]["container_name"]
        \/ srv'[s]["container_name"] = base["container_name"]
    BY <1>2, KeyFacts
  <2> QED
    BY <1>1, <1>2, <2>1
<1>5. \A t \in Service : Givers(t, "container_name")' = Givers(t, "container_name")
  BY GraphSame
<1>6. Heap(obj)' /\ \A t \in Service : Held(srv[t])'
  BY <1>2, <1>3 DEF Heap, Held
<1> QED
  BY <1>2, <1>4, <1>5, <1>6 DEF ServicesInv

\* Sorting the services lists each of them once.
LEMMA QueueSorted ==
  ASSUME FormInv, SortForExtends
  PROVE  /\ pending' \in Seq(Service)
         /\ \A s \in Service : \E i \in DOMAIN pending' : pending'[i] = s
         /\ \A i, j \in DOMAIN pending' : pending'[i] = pending'[j] => i = j
         /\ \A i, j \in DOMAIN pending' : i < j =>
              Cardinality(deps[pending'[i]]) <= Cardinality(deps[pending'[j]])
<1>1. Enumerates(ByName)
  BY FilesAssumption
<1>2. PICK n \in Nat : DOMAIN ByName = 1 .. n
  BY <1>1, LenProperties DEF Enumerates
<1>3. \A i \in 1 .. n : ByName[i] \in Service
  BY <1>1, <1>2, LenProperties, ElementOfSeq DEF Enumerates
<1>4. PICK key : key = [i \in 1 .. n |-> Cardinality(deps[ByName[i]])]
  OBVIOUS
<1>5. key \in [DOMAIN ByName -> Nat] /\ \A i \in 1 .. n : key[i] = Cardinality(deps[ByName[i]])
  <2>1. ASSUME NEW i \in 1 .. n
        PROVE  Cardinality(deps[ByName[i]]) \in Nat
    <3>1. deps[ByName[i]] \in SUBSET Name
      BY <1>3 DEF FormInv, DepsTypeOK
    <3>2. IsFiniteSet(deps[ByName[i]])
      BY <3>1, ServiceAssumption, FS_Subset
    <3> QED
      BY <3>2, FS_CardinalityType
  <2> QED
    BY <1>2, <1>4, <2>1
<1>6. pending' = Sorted(ByName, key)
  BY <1>2, <1>4 DEF SortForExtends
<1>7. PICK at \in [1 .. n -> 1 .. n] :
        /\ pending' \in Seq(Service) /\ DOMAIN pending' = 1 .. n
        /\ \A k \in 1 .. n : pending'[k] = ByName[at[k]]
        /\ \A i \in 1 .. n : \E k \in 1 .. n : at[k] = i
        /\ \A k, l \in 1 .. n : at[k] = at[l] => k = l
        /\ \A k, l \in 1 .. n : k < l => key[at[k]] <= key[at[l]]
  <2>1. ByName \in Seq(Service)
    BY <1>1 DEF Enumerates
  <2>2. PICK q : q = pending'
    OBVIOUS
  <2>3. \E at \in [DOMAIN ByName -> DOMAIN ByName] :
          /\ Sorted(ByName, key) \in Seq(Service) /\ DOMAIN Sorted(ByName, key) = DOMAIN ByName
          /\ \A k \in DOMAIN ByName : Sorted(ByName, key)[k] = ByName[at[k]]
          /\ \A i \in DOMAIN ByName : \E k \in DOMAIN ByName : at[k] = i
          /\ \A k, l \in DOMAIN ByName : at[k] = at[l] => k = l
          /\ \A k, l \in DOMAIN ByName : k < l => key[at[k]] <= key[at[l]]
    BY <1>5, <2>1, SortedLists
  <2> QED
    BY <1>2, <1>6, <2>3
<1>8. \A k \in 1 .. n : at[k] \in 1 .. n
  BY <1>7
<1>9. ASSUME NEW s \in Service
      PROVE  \E i \in DOMAIN pending' : pending'[i] = s
  <2>1. PICK j \in 1 .. n : ByName[j] = s
    BY <1>1, <1>2 DEF Enumerates
  <2>2. PICK k \in 1 .. n : at[k] = j
    BY <1>7
  <2> QED
    BY <1>7, <2>1, <2>2
<1>10. ASSUME NEW i \in 1 .. n, NEW j \in 1 .. n, pending'[i] = pending'[j]
       PROVE  i = j
  <2>1. ByName[at[i]] = ByName[at[j]]
    BY <1>7, <1>10
  <2>2. at[i] = at[j]
    BY <1>1, <1>2, <1>8, <2>1 DEF Enumerates
  <2> QED
    BY <1>7, <2>2
<1>11. ASSUME NEW i \in 1 .. n, NEW j \in 1 .. n, i < j
       PROVE  Cardinality(deps[pending'[i]]) <= Cardinality(deps[pending'[j]])
  <2>1. key[at[i]] <= key[at[j]]
    BY <1>7, <1>11
  <2>2. key[at[i]] = Cardinality(deps[pending'[i]]) /\ key[at[j]] = Cardinality(deps[pending'[j]])
    BY <1>5, <1>7, <1>8
  <2> QED
    BY <2>1, <2>2
<1>12. pending' \in Seq(Service) /\ DOMAIN pending' = 1 .. n
  BY <1>7
<1> QED
  BY <1>9, <1>10, <1>11, <1>12

LEMMA CollectedAgain ==
  ASSUME FormInv, CollectAgain
  PROVE  DepsTypeOK' /\ direct' = NamesNeeded /\ DepsInit'
<1>1. NamesNeeded \in [Service -> SUBSET Name]
  BY NamesNeededType
<1>2. /\ direct' = NamesNeeded /\ deps' = NamesNeeded /\ todo' = Service
      /\ stack' = <<>> /\ overflow' = FALSE
  BY DEF CollectAgain, CollectDeps
<1>3. DepsTypeOK'
  BY <1>1, <1>2, EmptySeq DEF DepsTypeOK
<1>4. DepsInit'
  BY <1>1, <1>2 DEF DepsInit
<1> QED
  BY <1>2, <1>3, <1>4

--------------------------------------------------------------------------------
(* The transformations. *)

\* Lists of containers, as the transformations change them.
LEMMA ListFacts ==
  ASSUME NEW l \in Seq(Container)
  PROVE  /\ DOMAIN l = 1 .. Len(l) /\ Len(l) \in Nat
         /\ \A i \in 1 .. Len(l) : l[i] \in Container
         /\ \A m \in {WithHosts(l), WithoutHosts(l), WithoutPorts(l)} :
              /\ m \in Seq(Container) /\ Len(m) = Len(l) /\ DOMAIN m = 1 .. Len(l)
              /\ \A i \in 1 .. Len(l) : m[i].name = l[i].name /\ m[i].service = l[i].service
         /\ \A m \in {WithHosts(l), WithoutHosts(l)} : AllPorts(m) = AllPorts(l)
         /\ AllPorts(WithoutPorts(l)) = {}
         /\ Infra(l) \in Container
         /\ Infra(l).service = {} /\ Infra(l).ports = AllPorts(l)
<1>1. /\ DOMAIN l = 1 .. Len(l) /\ Len(l) \in Nat
      /\ \A i \in 1 .. Len(l) : l[i] \in Container
  BY LenProperties, ElementOfSeq
<1>2. ASSUME NEW c \in Container
      PROVE  /\ \A h \in SUBSET Service : 
                  /\ [c EXCEPT !.hosts = h] \in Container
                  /\ [c EXCEPT !.hosts = h].name = c.name
                  /\ [c EXCEPT !.hosts = h].service = c.service
                  /\ [c EXCEPT !.hosts = h].ports = c.ports
             /\ [c EXCEPT !.ports = {}] \in Container
             /\ [c EXCEPT !.ports = {}].name = c.name
             /\ [c EXCEPT !.ports = {}].service = c.service
             /\ [c EXCEPT !.ports = {}].ports = {}
             /\ c.ports \subseteq Place /\ c.hosts \subseteq Service
  BY DEF Container
<1>3. ASSUME NEW m, m = WithHosts(l) \/ m = WithoutHosts(l)
      PROVE  /\ m \in Seq(Container) /\ Len(m) = Len(l) /\ DOMAIN m = 1 .. Len(l)
             /\ \A i \in 1 .. Len(l) : /\ m[i].name = l[i].name /\ m[i].service = l[i].service
                                      /\ m[i].ports = l[i].ports
             /\ AllPorts(m) = AllPorts(l)
  <2>1. PICK h \in SUBSET Service : m = [i \in 1 .. Len(l) |-> [l[i] EXCEPT !.hosts = h]]
    BY <1>1, <1>3 DEF WithHosts, WithoutHosts
  <2>2. m \in [1 .. Len(l) -> Container]
    BY <1>1, <1>2, <2>1
  <2>3. m \in Seq(Container) /\ Len(m) = Len(l) /\ DOMAIN m = 1 .. Len(l)
    BY <1>1, <2>2
  <2>4. \A i \in 1 .. Len(l) : /\ m[i].name = l[i].name /\ m[i].service = l[i].service
                              /\ m[i].ports = l[i].ports
    BY <1>1, <1>2, <2>1
  <2> QED
    BY <1>1, <2>3, <2>4 DEF AllPorts
<1>4. ASSUME NEW m, m = WithoutPorts(l)
      PROVE  /\ m \in Seq(Container) /\ Len(m) = Len(l) /\ DOMAIN m = 1 .. Len(l)
             /\ \A i \in 1 .. Len(l) : m[i].name = l[i].name /\ m[i].service = l[i].service
             /\ AllPorts(m) = {}
  <2>1. m = [i \in 1 .. Len(l) |-> [l[i] EXCEPT !.ports = {}]]
    BY <1>1, <1>4 DEF WithoutPorts
  <2>2. m \in [1 .. Len(l) -> Container]
    BY <1>1, <1>2, <2>1
  <2>3. m \in Seq(Container) /\ Len(m) = Len(l) /\ DOMAIN m = 1 .. Len(l)
    BY <1>1, <2>2
  <2>4. \A i \in 1 .. Len(l) : /\ m[i].name = l[i].name /\ m[i].service = l[i].service
                              /\ m[i].ports = {}
    BY <1>1, <1>2, <2>1
  <2>5. AllPorts(m) = UNION {m[i].ports : i \in 1 .. Len(l)}
    BY <2>3 DEF AllPorts
  <2>6. AllPorts(m) = {}
    BY <2>4, <2>5
  <2> QED
    BY <2>3, <2>4, <2>6
<1>5. Infra(l) \in Container /\ Infra(l).service = {} /\ Infra(l).ports = AllPorts(l)
  <2>1. AllPorts(l) \subseteq Place
    BY <1>1, <1>2 DEF AllPorts
  <2>3. AllHosts(l) \subseteq Service
    <3>1. \A i \in 1 .. Len(l) : l[i].hosts \subseteq Service
      BY <1>1, <1>2
    <3> QED
      BY <1>1, <3>1 DEF AllHosts
  <2>2. <<"infra", 1>> \in (Name \cup {"infra"}) \X (0 .. 2)
    OBVIOUS
  <2> QED
    BY <2>1, <2>2, <2>3 DEF Infra, Container
<1>6. \A m \in {WithHosts(l), WithoutHosts(l), WithoutPorts(l)} :
        /\ m \in Seq(Container) /\ Len(m) = Len(l) /\ DOMAIN m = 1 .. Len(l)
        /\ \A i \in 1 .. Len(l) : m[i].name = l[i].name /\ m[i].service = l[i].service
  BY <1>3, <1>4
<1>7. /\ \A m \in {WithHosts(l), WithoutHosts(l)} : AllPorts(m) = AllPorts(l)
      /\ AllPorts(WithoutPorts(l)) = {}
  BY <1>3, <1>4
<1> QED
  BY <1>1, <1>5, <1>6, <1>7

\* Every container is listed as it was given, the k-th later.
Shown(k) ==
  /\ DOMAIN containers = 1 .. Len(given) + k
  /\ \A i \in 1 .. Len(given) : /\ containers[i + k].name = given[i].name
                               /\ containers[i + k].service = given[i].service
  /\ \A i \in 1 .. k : containers[i].service = {}

DoneInv ==
  phase = "done" =>
    /\ Shown(0) \/ Shown(1)
    /\ AllPorts(pods) \cup AllPorts(containers) = AllPorts(given)

LEMMA TransformShows ==
  ASSUME FormInv, NEW p \in Policies, Transform(p)
  PROVE  /\ containers' \in Seq(Container)
         /\ pods' \in Seq([ports : SUBSET Place])
         /\ DoneInv'
<1>1. given \in Seq(Container) /\ given' = given
  BY DEF FormInv, ListsInv, Transform
<1>2. PICK n \in Nat : n = Len(given) /\ DOMAIN given = 1 .. n
  BY <1>1, ListFacts
<1>3. PICK cs : cs = WithHosts(given)
  OBVIOUS
<1>4. /\ cs \in Seq(Container) /\ Len(cs) = n /\ DOMAIN cs = 1 .. n
      /\ \A i \in 1 .. n : cs[i].name = given[i].name /\ cs[i].service = given[i].service
      /\ AllPorts(cs) = AllPorts(given)
  BY <1>1, <1>2, <1>3, ListFacts
<1>5. \A q : q = <<>> => q \in Seq([ports : SUBSET Place]) /\ AllPorts(q) = {}
  BY EmptySeq DEF AllPorts
<1>6. \A q, P : P \subseteq Place /\ q = << [ports |-> P] >> =>
         q \in Seq([ports : SUBSET Place]) /\ AllPorts(q) = P
  <2> SUFFICES ASSUME NEW q, NEW P \in SUBSET Place, q = << [ports |-> P] >>
               PROVE  q \in Seq([ports : SUBSET Place]) /\ AllPorts(q) = P
    OBVIOUS
  <2>1. [ports |-> P] \in [ports : SUBSET Place]
    OBVIOUS
  <2>2. q \in Seq([ports : SUBSET Place]) /\ DOMAIN q = 1 .. 1 /\ q[1] = [ports |-> P]
    BY <2>1
  <2>3. \A i \in DOMAIN q : i = 1
    BY <2>2
  <2> QED
    BY <2>2, <2>3 DEF AllPorts
<1> DEFINE Gives(q, c, k) ==
             /\ c \in Seq(Container) /\ q \in Seq([ports : SUBSET Place])
             /\ DOMAIN c = 1 .. n + k
             /\ \A i \in 1 .. n : /\ c[i + k].name = given[i].name
                                 /\ c[i + k].service = given[i].service
             /\ \A i \in 1 .. k : c[i].service = {}
             /\ AllPorts(q) \cup AllPorts(c) = AllPorts(given)
<1>a. ASSUME NEW q \in Seq([ports : SUBSET Place]), NEW c \in Seq(Container), DOMAIN c = 1 .. n,
             \A i \in 1 .. n : c[i].name = given[i].name /\ c[i].service = given[i].service,
             AllPorts(q) \cup AllPorts(c) = AllPorts(given)
      PROVE  Gives(q, c, 0)
  <2>1. n + 0 = n /\ \A i \in 1 .. n : i + 0 = i
    BY <1>2
  <2>2. \A i \in 1 .. 0 : c[i].service = {}
    OBVIOUS
  <2> QED
    BY <1>a, <2>1, <2>2
<1>7. ASSUME p = "identity"
      PROVE  Gives(pods', containers', 0)
  <2>1. pods' = <<>> /\ containers' = given
    BY <1>7 DEF Transform
  <2>2. Gives(<<>>, given, 0)
    BY <1>a, <1>1, <1>2, <1>5
  <2> QED
    BY <2>1, <2>2
<1>8. ASSUME p \in {"publishall", "hostnet"}
      PROVE  Gives(pods', containers', 0)
  <2>1. pods' = <<>> /\ containers' = cs
    BY <1>3, <1>8 DEF Transform
  <2>2. Gives(<<>>, cs, 0)
    BY <1>a, <1>4, <1>5
  <2> QED
    BY <2>1, <2>2
<1>9. ASSUME p = "1pod"
      PROVE  Gives(pods', containers', 0)
  <2>1. pods' = << [ports |-> {}] >> /\ containers' = cs
    BY <1>3, <1>9 DEF Transform
  <2>2. Gives(<< [ports |-> {}] >>, cs, 0)
    BY <1>a, <1>4, <1>6
  <2> QED
    BY <2>1, <2>2
<1>10. ASSUME p = "1podfw"
       PROVE  Gives(pods', containers', 0)
  <2>1. pods' = << [ports |-> AllPorts(cs)] >> /\ containers' = WithoutPorts(cs)
    BY <1>3, <1>10 DEF Transform
  <2>2. PICK c, q : c = WithoutPorts(cs) /\ q = << [ports |-> AllPorts(cs)] >>
    OBVIOUS
  <2>3. /\ c \in Seq(Container) /\ DOMAIN c = 1 .. n /\ AllPorts(c) = {}
        /\ \A i \in 1 .. n : c[i].name = cs[i].name /\ c[i].service = cs[i].service
    BY <1>4, <2>2, ListFacts
  <2>4. q \in Seq([ports : SUBSET Place]) /\ AllPorts(q) = AllPorts(cs)
    <3>1. AllPorts(cs) \subseteq Place
      <4>1. \A i \in 1 .. n : cs[i] \in Container
        BY <1>4, ListFacts
      <4>2. \A c1 \in Container : c1.ports \subseteq Place
        BY DEF Container
      <4> QED
        BY <1>4, <4>1, <4>2 DEF AllPorts
    <3> QED
      BY <1>6, <2>2, <3>1
  <2>5. Gives(q, c, 0)
    BY <1>a, <1>4, <2>3, <2>4
  <2> QED
    BY <2>1, <2>2, <2>5
<1>11. ASSUME p = "cntnet"
       PROVE  Gives(pods', containers', 1)
  <2>1. /\ pods' = <<>>
        /\ containers' = <<Infra(cs)>> \o WithoutHosts(WithoutPorts(cs))
    BY <1>3, <1>11 DEF Transform
  <2>2. PICK f, r : f = Infra(cs) /\ r = WithoutPorts(cs)
    OBVIOUS
  <2>3. PICK w : w = WithoutHosts(r)
    OBVIOUS
  <2>4. f \in Container /\ f.service = {} /\ f.ports = AllPorts(given)
    BY <1>4, <2>2, ListFacts
  <2>5. /\ r \in Seq(Container) /\ Len(r) = n /\ AllPorts(r) = {}
        /\ \A i \in 1 .. n : r[i].name = given[i].name /\ r[i].service = given[i].service
    BY <1>4, <2>2, ListFacts
  <2>6. /\ w \in Seq(Container) /\ Len(w) = n /\ DOMAIN w = 1 .. n /\ AllPorts(w) = {}
        /\ \A i \in 1 .. n : w[i].name = given[i].name /\ w[i].service = given[i].service
    BY <2>3, <2>5, ListFacts
  <2>7. PICK c : c = <<f>> \o w
    OBVIOUS
  <2>8. /\ c \in Seq(Container) /\ Len(c) = n + 1 /\ DOMAIN c = 1 .. n + 1
        /\ c[1] = f /\ \A i \in 1 .. n : c[i + 1] = w[i]
    <3>1. <<f>> \in Seq(Container) /\ Len(<<f>>) = 1
      BY <2>4
    <3> QED
      BY <1>2, <2>6, <2>7, <3>1, ConcatProperties, LenProperties
  <2>9. AllPorts(c) = AllPorts(given)
    <3>1. \A i \in 1 .. n : w[i].ports = {}
      BY <2>6 DEF AllPorts
    <3>2. \A j \in 1 .. n + 1 : j = 1 \/ (j - 1 \in 1 .. n /\ j - 1 + 1 = j)
      BY <1>2
    <3>3. \A j \in 1 .. n + 1 : j # 1 => c[j].ports = {}
      BY <2>8, <3>1, <3>2
    <3>4. 1 \in 1 .. n + 1
      BY <1>2
    <3>5. AllPorts(c) = UNION {c[j].ports : j \in 1 .. n + 1}
      BY <2>8 DEF AllPorts
    <3> QED
      BY <2>4, <2>8, <3>3, <3>4, <3>5
  <2>10. Gives(<<>>, c, 1)
    <3>1. \A i \in 1 .. 1 : c[i].service = {}
      BY <2>4, <2>8
    <3> QED
      BY <1>5, <2>6, <2>8, <2>9, <3>1
  <2> QED
    BY <2>1, <2>2, <2>3, <2>7, <2>10
<1> HIDE DEF Gives
<1>12. Gives(pods', containers', 0) \/ Gives(pods', containers', 1)
  BY <1>7, <1>8, <1>9, <1>10, <1>11 DEF Policies
<1>13. /\ Shown(0)' \/ Shown(1)'
       /\ (AllPorts(pods) \cup AllPorts(containers))' = AllPorts(given)'
  <2>1. PICK k \in {0, 1} : Gives(pods', containers', k)
    BY <1>12
  <2>2. Shown(k)'
    BY <1>1, <1>2, <2>1 DEF Shown, Gives
  <2>3. AllPorts(pods') \cup AllPorts(containers') = AllPorts(given')
    BY <1>1, <2>1 DEF Gives
  <2>4. (AllPorts(pods) \cup AllPorts(containers))' = AllPorts(given)'
    BY <2>3 DEF AllPorts
  <2> QED
    BY <2>1, <2>2, <2>4
<1>14. containers' \in Seq(Container) /\ pods' \in Seq([ports : SUBSET Place])
  BY <1>12 DEF Gives
<1> QED
  BY <1>13, <1>14 DEF DoneInv

LEMMA FileStays == [FileNext]_<<fileVars, depsVars>> => file' = file /\ order' = order
BY DEF FileNext, fileVars, Walk, WalkRaises, SortForExtends, Resolve, CollectAgain,
       MakeContainers, Transform

LEMMA FormStep == FormInv /\ [FileNext]_<<fileVars, depsVars>> => FormInv'
<1> SUFFICES ASSUME FormInv, [FileNext]_<<fileVars, depsVars>>
             PROVE  FormInv'
  OBVIOUS
<1>1. /\ DepsTypeOK /\ ServicesInv /\ ListsInv
      /\ file \in Files /\ order \in FileOrders
      /\ pending \in Seq(Service) /\ phase \in Phase
      /\ phase \notin {"resolve", "raised"} => pending = <<>>
  BY DEF FormInv
<1>2. file' = file /\ order' = order
  BY FileStays
<1>3. UNCHANGED depsVars => DepsTypeOK'
  BY <1>1 DEF depsVars, DepsTypeOK
<1>4. UNCHANGED <<srv, obj>> => ServicesInv'
  BY <1>1, <1>2, ServicesSame
<1>5. UNCHANGED <<given, pods, containers>> => ListsInv'
  BY <1>1 DEF ListsInv
<1>6. ASSUME Walk
      PROVE  FormInv'
  <2>1. DepsTypeOK'
    BY <1>1, <1>6, DepsTypeStep DEF Walk
  <2> QED
    BY <1>1, <1>2, <1>4, <1>5, <1>6, <2>1 DEF Walk, fileVars, FormInv
<1>7. ASSUME WalkRaises
      PROVE  FormInv'
  BY <1>1, <1>2, <1>3, <1>4, <1>5, <1>7 DEF WalkRaises, Phase, FormInv
<1>8. ASSUME SortForExtends
      PROVE  FormInv'
  <2>1. pending' \in Seq(Service)
    BY <1>8, QueueSorted
  <2> QED
    BY <1>1, <1>2, <1>3, <1>4, <1>5, <1>8, <2>1 DEF SortForExtends, Phase, FormInv
<1>9. ASSUME Resolve
      PROVE  FormInv'
  <2>1. PICK s \in Service :
          /\ pending # <<>> /\ s = Head(pending) /\ pending' = Tail(pending)
          /\ \/ phase' = "raised" /\ UNCHANGED <<srv, obj>>
             \/ /\ phase' = "resolve" /\ UNCHANGED <<srv, obj>>
             \/ /\ phase' = "resolve" /\ Bases[s] = {}
                /\ \E e \in [service : Name, file : BOOLEAN] :
                     MergeWith(s, Loaded(s, e.service), Reading(s, e.service))
             \/ /\ phase' = "resolve"
                /\ \E b \in Service : Bases[s] = {b} /\ MergeWith(s, srv[b], obj)
    BY <1>9, ResolveCases
  <2>2. pending' \in Seq(Service)
    BY <1>1, <2>1, QueueTail
  <2>3. ASSUME NEW e \in [service : Name, file : BOOLEAN],
               MergeWith(s, Loaded(s, e.service), Reading(s, e.service))
        PROVE  ServicesInv'
    <3>0. PICK n \in Name : n = e.service
      OBVIOUS
    <3>1. PICK base, heap : base = Loaded(s, n) /\ heap = Reading(s, n)
      OBVIOUS
    <3>2. Held(base) /\ Heap(heap) /\ base["container_name"] = {}
      BY <3>1, ReadingFacts
    <3>3. MergeWith(s, base, heap)
      BY <2>3, <3>0, <3>1
    <3> QED
      BY <1>2, <3>2, <3>3, MergeKeepsForm
  <2>4. ASSUME NEW b \in Service, Bases[s] = {b}, MergeWith(s, srv[b], obj)
        PROVE  ServicesInv'
    <3>1. Chain(b) \subseteq Chain(s)
      BY <1>1, <2>4, ChainGoesOn
    <3>2. Givers(b, "container_name") \subseteq Givers(s, "container_name")
      BY <3>1 DEF Givers
    <3>3. /\ Held(srv[b]) /\ Heap(obj)
          /\ srv[b]["container_name"] \subseteq {Own(t) : t \in Givers(s, "container_name")}
      BY <1>1, <3>2 DEF ServicesInv
    <3>4. PICK base, heap : base = srv[b] /\ heap = obj
      OBVIOUS
    <3>5. /\ Held(base) /\ Heap(heap) /\ MergeWith(s, base, heap)
          /\ base["container_name"] \subseteq {Own(t) : t \in Givers(s, "container_name")}
      BY <2>4, <3>3, <3>4
    <3> QED
      BY <1>2, <3>5, MergeKeepsForm
  <2>5. ServicesInv'
    BY <1>4, <2>1, <2>3, <2>4
  <2>6. phase' \in {"raised", "resolve"}
    BY <2>1
  <2>7. UNCHANGED depsVars /\ UNCHANGED <<given, pods, containers>>
    BY <1>9 DEF Resolve
  <2> QED
    BY <1>1, <1>2, <1>3, <1>5, <2>2, <2>5, <2>6, <2>7 DEF Phase, FormInv
<1>10. ASSUME CollectAgain
       PROVE  FormInv'
  <2>1. DepsTypeOK'
    BY <1>10, CollectedAgain
  <2> QED
    BY <1>1, <1>2, <1>4, <1>5, <1>10, <2>1 DEF CollectAgain, Phase, FormInv
<1>11. ASSUME MakeContainers
       PROVE  FormInv'
  <2>1. PICK l : l = ByDeps(OnePerName(AllContainers))
    OBVIOUS
  <2>2. l \in Seq(ContainerSet)
    BY <2>1, Listing
  <2>3. \A c \in ContainerSet : c \in Container
    BY MemberFacts
  <2>4. given' \in Seq(Container)
    <3>1. given' = l
      BY <1>11, <2>1 DEF MakeContainers
    <3> QED
      BY <2>2, <2>3, <3>1
  <2>5. ListsInv'
    BY <1>1, <1>11, <2>4 DEF MakeContainers, ListsInv
  <2>6. pending' = <<>>
    BY <1>1, <1>11 DEF MakeContainers
  <2> QED
    BY <1>1, <1>2, <1>3, <1>4, <1>11, <2>5, <2>6 DEF MakeContainers, Phase, FormInv
<1>12. ASSUME NEW p \in Policy, Transform(p)
       PROVE  FormInv'
  <2>1. p \in Policies
    BY FilesAssumption
  <2>2. containers' \in Seq(Container) /\ pods' \in Seq([ports : SUBSET Place])
    BY <1>12, <2>1, TransformShows
  <2>3. /\ given' = given /\ UNCHANGED <<srv, obj>> /\ UNCHANGED depsVars
        /\ pending' = pending /\ phase = "transform" /\ phase' = "done"
    BY <1>12 DEF Transform
  <2>4. ListsInv'
    BY <1>1, <2>2, <2>3 DEF ListsInv
  <2> QED
    BY <1>1, <1>2, <1>3, <1>4, <2>3, <2>4 DEF Phase, FormInv
<1>13. ASSUME UNCHANGED <<fileVars, depsVars>>
       PROVE  FormInv'
  BY <1>1, <1>2, <1>3, <1>4, <1>5, <1>13 DEF fileVars, FormInv
<1> QED
  BY <1>6, <1>7, <1>8, <1>9, <1>10, <1>11, <1>12, <1>13 DEF FileNext

LEMMA FormAlways == FileSpec => []FormInv
BY FormInitially, FormStep, PTL DEF FileSpec

\* The variables of _parse_compose_file keep their types, for every set of
\* files and every order the services are read in.
THEOREM FileTypeCorrect == FileSpec => []FileTypeOK
BY FormAlways, FormGives, PTL

--------------------------------------------------------------------------------
(* The names are complete when the containers are listed. *)

DepsInv == SoundInv /\ CompleteInv

LEMMA DepsAgain == DepsInit' => (SoundInv /\ CompleteInv)'
BY DepsInitially, PTL

LEMMA DepsInvStep == FormInv /\ DepsInv /\ [FileNext]_<<fileVars, depsVars>> => DepsInv'
<1> SUFFICES ASSUME FormInv, DepsInv, [FileNext]_<<fileVars, depsVars>>
             PROVE  DepsInv'
  OBVIOUS
<1>1. [DepsNext]_depsVars \/ CollectAgain
  BY DEF FileNext, Walk, WalkRaises, SortForExtends, Resolve, MakeContainers, Transform
<1>2. CASE [DepsNext]_depsVars
  BY <1>2, SoundStep, CompleteStep DEF DepsInv, FormInv
<1>3. CASE CollectAgain
  BY <1>3, CollectedAgain, DepsAgain DEF DepsInv
<1> QED
  BY <1>1, <1>2, <1>3

\* The names come from what is extended, then from what is needed.
GraphInv ==
  /\ phase = "extends" => direct = ExtendsGraph
  /\ phase \in {"depends", "transform", "done"} => direct = NamesNeeded

LEMMA GraphInvStep == FormInv /\ GraphInv /\ [FileNext]_<<fileVars, depsVars>> => GraphInv'
<1> SUFFICES ASSUME FormInv, GraphInv, [FileNext]_<<fileVars, depsVars>>
             PROVE  GraphInv'
  OBVIOUS
<1>1. file' = file
  BY FileStays
<1>2. ExtendsGraph' = ExtendsGraph
  BY <1>1, GraphSame
<1>3. UNCHANGED <<srv, obj>> => NamesNeeded' = NamesNeeded
  BY <1>1, ServicesSame
<1>4. CASE CollectAgain
  BY <1>3, <1>4, CollectedAgain DEF CollectAgain, GraphInv
<1>5. CASE Resolve
  <2>1. phase' \in {"raised", "resolve"}
    BY <1>5, ResolveCases
  <2> QED
    BY <2>1 DEF GraphInv
<1>6. CASE UNCHANGED <<srv, obj>> /\ direct' = direct /\ ~CollectAgain /\ ~Resolve
  <2>1. phase' = phase \/ phase' \in {"raised", "resolve"}
        \/ (phase \in {"depends", "transform"} /\ phase' \in {"transform", "done"})
    BY <1>6 DEF FileNext, fileVars, Walk, WalkRaises, SortForExtends, MakeContainers, Transform
  <2> QED
    BY <1>2, <1>3, <1>6, <2>1 DEF GraphInv
<1>7. CollectAgain \/ Resolve \/ (UNCHANGED <<srv, obj>> /\ direct' = direct)
  BY DEF FileNext, fileVars, depsVars, Walk, WalkRaises, SortForExtends, MakeContainers, Transform,
         DepsNext, Visit, Skip, Follow, Return
<1> QED
  BY <1>4, <1>5, <1>6, <1>7

\* A container of that name is in the list, and it is of no service before s.
NameListed(s, n) ==
  /\ \E k \in DOMAIN given : given[k].name = ContainerName(s, n)
  /\ \A k \in DOMAIN given : given[k].name = ContainerName(s, n) =>
       \A t \in given[k].service : Position(s) <= Position(t)

\* What is known of the list of containers.
Listed ==
  /\ given \in Seq(ContainerSet)
  /\ \A s \in Service : \A n \in 1 .. Replicas(s) : NameListed(s, n)
  /\ \A j, k \in DOMAIN given : given[j].name = given[k].name => j = k
  /\ \A j, k \in 1 .. Len(given) : j < k => Number(given[j]) <= Number(given[k])

ListedInv == phase \in {"transform", "done"} => Flattened /\ Listed

LEMMA ListedStep ==
  FormInv /\ ListedInv /\ DoneInv /\ [FileNext]_<<fileVars, depsVars>> => ListedInv' /\ DoneInv'
<1> SUFFICES ASSUME FormInv, ListedInv, DoneInv, [FileNext]_<<fileVars, depsVars>>
             PROVE  ListedInv' /\ DoneInv'
  OBVIOUS
<1>1. file' = file /\ \A t : Position(t)' = Position(t)
  BY FileStays DEF Position
<1>2. ASSUME UNCHANGED <<srv, obj>>, UNCHANGED depsVars, given' = given
      PROVE  (Flattened' <=> Flattened) /\ (Listed' <=> Listed)
  <2>1. /\ ContainerSet' = ContainerSet /\ \A s : Replicas(s)' = Replicas(s)
        /\ \A s, n : ContainerName(s, n)' = ContainerName(s, n)
    BY <1>1, <1>2, ServicesSame
  <2>2. \A c : Number(c)' = Number(c)
    BY <1>2 DEF Number, depsVars
  <2>3. Listed' <=> Listed
    <3>1. (given \in Seq(ContainerSet))' <=> given \in Seq(ContainerSet)
      BY <1>2, <2>1
    <3>2. (\A s \in Service : \A n \in 1 .. Replicas(s) : NameListed(s, n))'
             <=> \A s \in Service : \A n \in 1 .. Replicas(s) : NameListed(s, n)
      <4>1. \A s, n : NameListed(s, n)' <=> NameListed(s, n)
        BY <1>1, <1>2, <2>1 DEF NameListed
      <4> QED
        BY <2>1, <4>1
    <3>3. (\A j, k \in DOMAIN given : given[j].name = given[k].name => j = k)'
             <=> \A j, k \in DOMAIN given : given[j].name = given[k].name => j = k
      BY <1>2
    <3>4. (\A j, k \in 1 .. Len(given) : j < k => Number(given[j]) <= Number(given[k]))'
             <=> \A j, k \in 1 .. Len(given) : j < k => Number(given[j]) <= Number(given[k])
      BY <1>2, <2>2
    <3> QED
      BY <3>1, <3>2, <3>3, <3>4 DEF Listed
  <2> QED
    BY <1>2, <2>3 DEF Flattened, depsVars
<1>3. CASE MakeContainers
  <2>1. PICK l : l = ByDeps(OnePerName(AllContainers))
    OBVIOUS
  <2>2. /\ l \in Seq(ContainerSet)
        /\ \A s \in Service : \A n \in 1 .. Replicas(s) :
             /\ \E k \in DOMAIN l : l[k].name = ContainerName(s, n)
             /\ \A k \in DOMAIN l : l[k].name = ContainerName(s, n) =>
                  \A t \in l[k].service : Position(s) <= Position(t)
        /\ \A j, k \in DOMAIN l : l[j].name = l[k].name => j = k
        /\ \A j, k \in 1 .. Len(l) : j < k => Number(l[j]) <= Number(l[k])
    BY <2>1, Listing
  <2>3. /\ given' = l /\ phase' = "transform" /\ UNCHANGED <<srv, obj>> /\ UNCHANGED depsVars
        /\ Flattened
    BY <1>3, <2>1 DEF MakeContainers
  <2>4. /\ ContainerSet' = ContainerSet /\ \A s : Replicas(s)' = Replicas(s)
        /\ \A s, n : ContainerName(s, n)' = ContainerName(s, n)
    BY <1>1, <2>3, ServicesSame
  <2>5. \A c : Number(c)' = Number(c)
    BY <2>3 DEF Number, depsVars
  <2>6. Listed'
    <3>1. (given \in Seq(ContainerSet))'
      BY <2>2, <2>3, <2>4
    <3>2. (\A s \in Service : \A n \in 1 .. Replicas(s) : NameListed(s, n))'
      <4> SUFFICES ASSUME NEW s \in Service, NEW n \in 1 .. Replicas(s)
                   PROVE  NameListed(s, n)'
        BY <2>4
      <4>1. /\ \E k \in DOMAIN l : l[k].name = ContainerName(s, n)
            /\ \A k \in DOMAIN l : l[k].name = ContainerName(s, n) =>
                 \A t \in l[k].service : Position(s) <= Position(t)
        BY <2>2
      <4> QED
        BY <1>1, <2>3, <2>4, <4>1 DEF NameListed
    <3>3. (\A j, k \in DOMAIN given : given[j].name = given[k].name => j = k)'
      BY <2>2, <2>3
    <3>4. (\A j, k \in 1 .. Len(given) : j < k => Number(given[j]) <= Number(given[k]))'
      BY <2>2, <2>3, <2>5
    <3> QED
      BY <3>1, <3>2, <3>3, <3>4 DEF Listed
  <2>7. Flattened'
    BY <2>3 DEF Flattened, depsVars
  <2> QED
    BY <2>3, <2>6, <2>7 DEF ListedInv, DoneInv
<1>4. CASE \E p \in Policy : Transform(p)
  <2>1. PICK p \in Policy : Transform(p)
    BY <1>4
  <2>2. DoneInv'
    BY <2>1, TransformShows, FilesAssumption
  <2>3. /\ phase = "transform" /\ given' = given
        /\ UNCHANGED <<srv, obj>> /\ UNCHANGED depsVars
    BY <2>1 DEF Transform
  <2> QED
    BY <1>2, <2>2, <2>3 DEF ListedInv
<1>5. CASE UNCHANGED <<fileVars, depsVars>>
  <2>1. DoneInv'
    <3>1. UNCHANGED <<phase, given, pods, containers>>
      BY <1>5 DEF fileVars
    <3>2. /\ AllPorts(pods)' = AllPorts(pods) /\ AllPorts(given)' = AllPorts(given)
          /\ AllPorts(containers)' = AllPorts(containers)
      BY <3>1 DEF AllPorts
    <3>3. (Shown(0)' <=> Shown(0)) /\ (Shown(1)' <=> Shown(1))
      BY <3>1 DEF Shown
    <3> QED
      BY <3>1, <3>2, <3>3 DEF DoneInv
  <2> QED
    BY <1>2, <1>5, <2>1 DEF ListedInv, fileVars
<1>6. CASE Walk \/ WalkRaises \/ SortForExtends \/ Resolve \/ CollectAgain
  <2>1. phase' \notin {"transform", "done"}
    <3>1. Resolve => phase' \in {"raised", "resolve"}
      BY ResolveCases
    <3> QED
      BY <1>6, <3>1 DEF Walk, WalkRaises, SortForExtends, CollectAgain, fileVars
  <2> QED
    BY <2>1 DEF ListedInv, DoneInv
<1> QED
  BY <1>3, <1>4, <1>5, <1>6 DEF FileNext

ListsAlways == DepsInv /\ GraphInv /\ ListedInv /\ DoneInv

LEMMA ListsKnown == FileSpec => []ListsAlways
<1>1. FileInit => ListsAlways
  <2> SUFFICES ASSUME FileInit PROVE ListsAlways
    OBVIOUS
  <2>1. DepsInit /\ direct = ExtendsGraph /\ phase = "extends"
    BY DEF FileInit, ExtendsGraph
  <2> QED
    BY <2>1, DepsInitially DEF ListsAlways, DepsInv, GraphInv, ListedInv, DoneInv
<1>2. FormInv /\ ListsAlways /\ [FileNext]_<<fileVars, depsVars>> => ListsAlways'
  BY DepsInvStep, GraphInvStep, ListedStep DEF ListsAlways
<1> QED
  BY <1>1, <1>2, FormAlways, PTL DEF FileSpec

\* A container of a service, wherever it is shown, is one of those given.
LEMMA ShownWasGiven ==
  ASSUME FormInv, ListsAlways, phase = "done", NEW i \in DOMAIN containers,
         containers[i].service # {}
  PROVE  \E k \in {0, 1} : \E g \in 1 .. Len(given) :
           /\ Shown(k) /\ i = g + k
           /\ given[g] \in ContainerSet
           /\ containers[i].name = given[g].name /\ containers[i].service = given[g].service
<1>1. PICK k \in {0, 1} : Shown(k)
  BY DEF ListsAlways, DoneInv
<1>2. PICK n \in Nat : n = Len(given) /\ DOMAIN given = 1 .. n
  BY ListFacts DEF FormInv, ListsInv
<1>3. i \in 1 .. n + k /\ i \notin 1 .. k
  BY <1>1, <1>2 DEF Shown
<1>4. PICK g \in 1 .. n : i = g + k
  <2>1. i - k \in 1 .. n /\ i = (i - k) + k
    BY <1>2, <1>3
  <2> QED
    BY <2>1
<1>5. given \in Seq(ContainerSet)
  BY DEF ListsAlways, ListedInv, Listed
<1>6. given[g] \in ContainerSet
  BY <1>2, <1>5, ElementOfSeq
<1> QED
  BY <1>1, <1>2, <1>4, <1>6 DEF Shown

\* Containers come after the containers of all their service needs, for every
\* file, under every policy.
THEOREM DependenciesComeFirst == FileSpec => []DependenciesFirst
<1>1. FormInv /\ ListsAlways => DependenciesFirst
  <2> SUFFICES ASSUME FormInv, ListsAlways, phase = "done", Acyclic(NamesNeeded),
                      NEW j \in DOMAIN containers, NEW i \in 1 .. j - 1,
                      NEW s \in containers[i].service, NEW d \in containers[j].service,
                      d \in Needs(NamesNeeded, s)
               PROVE  FALSE
    BY DEF DependenciesFirst
  <2>1. PICK n \in Nat : n = Len(given) /\ DOMAIN given = 1 .. n
    BY ListFacts DEF FormInv, ListsInv
  <2>2. i \in DOMAIN containers /\ i < j
    <3>1. containers \in Seq(Container)
      BY DEF FormInv, ListsInv
    <3>2. DOMAIN containers = 1 .. Len(containers) /\ Len(containers) \in Nat
      BY <3>1, ListFacts
    <3> QED
      BY <3>2
  <2>3. PICK k \in {0, 1}, g \in 1 .. n :
          /\ Shown(k) /\ i = g + k
          /\ given[g] \in ContainerSet /\ containers[i].service = given[g].service
    BY <2>1, <2>2, ShownWasGiven
  <2>4. PICK l \in {0, 1}, h \in 1 .. n :
          /\ Shown(l) /\ j = h + l
          /\ given[h] \in ContainerSet /\ containers[j].service = given[h].service
    BY <2>1, ShownWasGiven
  <2>5. k = l
    BY <2>1, <2>3, <2>4 DEF Shown
  <2>6. g < h
    BY <2>1, <2>2, <2>3, <2>4, <2>5
  <2>7. /\ s \in Service /\ Number(given[g]) = Cardinality(deps[s])
        /\ d \in Service /\ Number(given[h]) = Cardinality(deps[d])
    BY <2>3, <2>4, MemberFacts
  <2>8. Number(given[g]) <= Number(given[h])
    BY <2>1, <2>6 DEF ListsAlways, ListedInv, Listed
  <2>9. direct = NamesNeeded /\ Flattened
    BY DEF ListsAlways, GraphInv, ListedInv
  <2>10. deps[s] = Needs(NamesNeeded, s) /\ deps[d] = Needs(NamesNeeded, d)
    BY <2>7, <2>9, CompleteInTheEnd DEF ListsAlways, DepsInv, DepsComplete
  <2>11. /\ Cardinality(deps[d]) \in Nat /\ Cardinality(deps[s]) \in Nat
         /\ Cardinality(deps[d]) < Cardinality(deps[s])
    BY <2>7, <2>10, NamesNeededType, NeededNeedsLess
  <2> QED
    BY <2>7, <2>8, <2>11
<1> QED
  BY <1>1, FormAlways, ListsKnown, PTL

LEMMA NoPortIsLost == FormInv /\ ListsAlways => PortsPublished
<1> SUFFICES ASSUME FormInv, ListsAlways, phase = "done"
             PROVE  AllPorts(given)
                      = UNION {Items(s, "ports") : s \in UNION {given[i].service : i \in DOMAIN given}}
  BY DEF PortsPublished, ListsAlways, DoneInv
<1>1. ASSUME NEW i \in DOMAIN given
      PROVE  \E s \in Service : given[i].service = {s} /\ given[i].ports = Items(s, "ports")
  <2>1. given \in Seq(ContainerSet)
    BY DEF ListsAlways, ListedInv, Listed
  <2>2. given[i] \in ContainerSet
    BY <2>1, LenProperties, ElementOfSeq
  <2> QED
    BY <2>2, MemberFacts
<1>2. PICK of : of = [i \in DOMAIN given |-> CHOOSE s \in Service :
                        given[i].service = {s} /\ given[i].ports = Items(s, "ports")]
  OBVIOUS
<1>3. \A i \in DOMAIN given : given[i].service = {of[i]} /\ given[i].ports = Items(of[i], "ports")
  BY <1>1, <1>2
<1>4. UNION {given[i].service : i \in DOMAIN given} = {of[i] : i \in DOMAIN given}
  BY <1>3
<1>5. AllPorts(given) = UNION {Items(of[i], "ports") : i \in DOMAIN given}
  BY <1>3 DEF AllPorts
<1> QED
  BY <1>4, <1>5

--------------------------------------------------------------------------------
(* Bases are resolved before the services that extend them. *)

QueueInv ==
  phase = "resolve" /\ Acyclic(ExtendsGraph) =>
    /\ \A i, j \in DOMAIN pending : i < j =>
         pending[i] # pending[j] /\ pending[j] \notin Needs(ExtendsGraph, pending[i])
    /\ \A s \in Service \ Unresolved : \A t \in Unresolved : t \notin Needs(ExtendsGraph, s)

(* A service has what its chain says as soon as it is resolved. *)

\* What a service says or inherits under a key.
Expected(s, k) ==
  IF Givers(s, k) # {} THEN {Own(t) : t \in Nearest(s, k)}
                       ELSE IF k = "image" THEN FarEnd(s) ELSE {}

Wanted(s, k) ==
  IF k = "ports" THEN {Own(t) : t \in Givers(s, "ports")} \cup FarEnd(s)
                 ELSE UNION {file[t].depends : t \in Chain(s)}

\* No string is among what a service says or inherits under a key.
AsList(s, k) == \A t \in Givers(s, k) : k \notin file[t].text

\* An own list keeps what was said, whoever shares it.
OwnKept ==
  \A s \in Service : /\ Own(s) \in obj["ports"][Own(s)]
                     /\ file[s].depends \subseteq obj["depends_on"][Own(s)]

\* A service that is not resolved is as the file has it.
AsRead ==
  \A s \in Unresolved : \A k \in Keys \ {"deploy"} :
    srv[s][k] = IF Says(s, k) THEN {Own(s)} ELSE {}

\* The list of the other file is read when the service is resolved.
ReadOnce ==
  \A s \in Service : \A t \in Unresolved : FromFile(t) \notin srv[s]["ports"]

Inherited ==
  \A s \in Service \ Unresolved :
    /\ \A k \in Scalars : srv[s][k] = Expected(s, k) /\ (Givers(s, k) # {} => srv[s][k] # {})
    /\ \A k \in Lists : /\ AsList(s, k) => Wanted(s, k) \subseteq Items(s, k)
                       /\ \A t \in Nearest(s, k) : k \in file[t].text => srv[s][k] = {Own(t)}

ChainInv ==
  phase # "raised" /\ Acyclic(ExtendsGraph) => OwnKept /\ AsRead /\ ReadOnce /\ Inherited

\* The service that is resolved leaves the queue, and all it needs has left
\* it before.
LEMMA HeadIsNext ==
  ASSUME FormInv, QueueInv, Resolve, phase' = "resolve", Acyclic(ExtendsGraph),
         NEW s \in Service, s = Head(pending)
  PROVE  /\ Unresolved = {s} \cup Unresolved' /\ s \notin Unresolved'
         /\ \A t \in Unresolved : t \notin Needs(ExtendsGraph, s)
<1>1. /\ pending \in Seq(Service) /\ pending # <<>> /\ pending' = Tail(pending)
      /\ phase = "resolve"
  BY DEF Resolve, FormInv
<1>2. PICK n \in Nat \ {0} : n = Len(pending)
  BY <1>1, QueueTail
<1>3. /\ DOMAIN pending = 1 .. n /\ DOMAIN pending' = 1 .. n - 1
      /\ s = pending[1]
      /\ \A i \in 1 .. n - 1 : i + 1 \in 1 .. n /\ pending'[i] = pending[i + 1]
  BY <1>1, <1>2, QueueTail
<1>4. \A i, j \in 1 .. n : i < j =>
        pending[i] # pending[j] /\ pending[j] \notin Needs(ExtendsGraph, pending[i])
  BY <1>1, <1>3 DEF QueueInv
<1>5. /\ Unresolved = {s} \cup Unresolved'
      /\ Unresolved' = {pending'[i] : i \in DOMAIN pending'}
  <2>1. Unresolved' = {pending'[i] : i \in DOMAIN pending'}
    BY DEF Unresolved
  <2>2. Unresolved = {pending[i] : i \in DOMAIN pending}
    BY <1>1 DEF Unresolved
  <2>3. {pending[i] : i \in DOMAIN pending}
          = {Head(pending)} \cup {Tail(pending)[i] : i \in DOMAIN Tail(pending)}
    <3>1. \A q \in Seq(Service) : q # <<>> =>
            {q[i] : i \in DOMAIN q} = {Head(q)} \cup {Tail(q)[i] : i \in DOMAIN Tail(q)}
      BY QueueTail
    <3> QED
      BY <1>1, <3>1
  <2>4. {Tail(pending)[i] : i \in DOMAIN Tail(pending)} = {pending'[i] : i \in DOMAIN pending'}
    BY <1>1
  <2> QED
    BY <2>1, <2>2, <2>3, <2>4
<1>6. ASSUME NEW t \in Unresolved'
      PROVE  t # s /\ t \notin Needs(ExtendsGraph, s)
  <2>1. PICK j \in 1 .. n - 1 : t = pending[j + 1]
    BY <1>3, <1>5
  <2>2. 1 \in 1 .. n /\ j + 1 \in 1 .. n /\ 1 < j + 1
    BY <1>2
  <2> QED
    BY <1>3, <1>4, <2>1, <2>2
<1>7. s \notin Needs(ExtendsGraph, s)
  BY DEF Acyclic
<1> QED
  BY <1>5, <1>6, <1>7

LEMMA QueueInvStep ==
  FormInv /\ ListsAlways /\ QueueInv /\ [FileNext]_<<fileVars, depsVars>> => QueueInv'
<1> SUFFICES ASSUME FormInv, ListsAlways, QueueInv, [FileNext]_<<fileVars, depsVars>>
             PROVE  QueueInv'
  OBVIOUS
<1>1. ExtendsGraph' = ExtendsGraph
  BY FileStays, GraphSame
<1> SUFFICES ASSUME phase' = "resolve", Acyclic(ExtendsGraph)
             PROVE  /\ \A i, j \in DOMAIN pending' : i < j =>
                         /\ pending'[i] # pending'[j]
                         /\ pending'[j] \notin Needs(ExtendsGraph, pending'[i])
                    /\ \A s \in Service \ Unresolved' : \A t \in Unresolved' :
                         t \notin Needs(ExtendsGraph, s)
  BY <1>1 DEF QueueInv
<1>2. /\ ExtendsGraph \in [Service -> SUBSET Name]
      /\ Unresolved' = {pending'[i] : i \in DOMAIN pending'}
  BY GraphTypes DEF FormInv, Unresolved
<1>3. CASE SortForExtends
  <2>1. /\ pending' \in Seq(Service)
        /\ \A s \in Service : \E i \in DOMAIN pending' : pending'[i] = s
        /\ \A i, j \in DOMAIN pending' : pending'[i] = pending'[j] => i = j
        /\ \A i, j \in DOMAIN pending' : i < j =>
             Cardinality(deps[pending'[i]]) <= Cardinality(deps[pending'[j]])
    BY <1>3, QueueSorted
  <2>2. PICK n \in Nat : DOMAIN pending' = 1 .. n
    BY <2>1, LenProperties
  <2>3. \A i \in 1 .. n : pending'[i] \in Service
    BY <2>1, <2>2, LenProperties, ElementOfSeq
  <2>4. \A s \in Service : deps[s] = Needs(ExtendsGraph, s)
    <3>1. Flattened /\ direct = ExtendsGraph
      BY <1>3 DEF SortForExtends, ListsAlways, GraphInv
    <3> QED
      BY <1>2, <3>1, CompleteInTheEnd DEF ListsAlways, DepsInv, DepsComplete
  <2>5. ASSUME NEW i \in 1 .. n, NEW j \in 1 .. n, i < j
        PROVE  /\ pending'[i] # pending'[j]
               /\ pending'[j] \notin Needs(ExtendsGraph, pending'[i])
    <3>1. PICK p \in Service, q \in Service : p = pending'[i] /\ q = pending'[j]
      BY <2>3
    <3>2. Cardinality(Needs(ExtendsGraph, p)) <= Cardinality(Needs(ExtendsGraph, q))
      BY <2>1, <2>2, <2>4, <2>5, <3>1
    <3>3. q \notin Needs(ExtendsGraph, p)
      <4> SUFFICES ASSUME q \in Needs(ExtendsGraph, p) PROVE FALSE
        OBVIOUS
      <4>1. /\ Cardinality(Needs(ExtendsGraph, q)) \in Nat
            /\ Cardinality(Needs(ExtendsGraph, p)) \in Nat
            /\ Cardinality(Needs(ExtendsGraph, q)) < Cardinality(Needs(ExtendsGraph, p))
        BY <1>2, NeededNeedsLess
      <4> QED
        BY <3>2, <4>1
    <3>4. i # j
      BY <2>5
    <3> QED
      BY <2>1, <2>2, <3>1, <3>3, <3>4
  <2>6. Service \subseteq Unresolved'
    BY <1>2, <2>1
  <2> QED
    BY <2>2, <2>5, <2>6
<1>4. CASE Resolve
  <2>1. /\ pending \in Seq(Service) /\ pending # <<>> /\ pending' = Tail(pending)
        /\ phase = "resolve"
    BY <1>4 DEF Resolve, FormInv
  <2>2. PICK s \in Service : s = Head(pending)
    BY <2>1, QueueTail
  <2>3. PICK n \in Nat \ {0} : n = Len(pending)
    BY <2>1, QueueTail
  <2>4. /\ DOMAIN pending = 1 .. n /\ DOMAIN pending' = 1 .. n - 1
        /\ s = pending[1]
        /\ \A i \in 1 .. n - 1 : i + 1 \in 1 .. n /\ pending'[i] = pending[i + 1]
    BY <2>1, <2>2, <2>3, QueueTail
  <2>5. /\ \A i, j \in 1 .. n : i < j =>
             pending[i] # pending[j] /\ pending[j] \notin Needs(ExtendsGraph, pending[i])
        /\ \A r \in Service \ Unresolved : \A t \in Unresolved : t \notin Needs(ExtendsGraph, r)
    BY <1>2, <2>1, <2>4 DEF QueueInv
  <2>6. Unresolved = {s} \cup Unresolved' /\ \A t \in Unresolved : t \notin Needs(ExtendsGraph, s)
    BY <1>4, <2>2, HeadIsNext
  <2>7. ASSUME NEW i \in 1 .. n - 1, NEW j \in 1 .. n - 1, i < j
        PROVE  /\ pending'[i] # pending'[j]
               /\ pending'[j] \notin Needs(ExtendsGraph, pending'[i])
    <3>1. i + 1 \in 1 .. n /\ j + 1 \in 1 .. n /\ i + 1 < j + 1
      BY <2>3, <2>7
    <3> QED
      BY <2>4, <2>5, <3>1
  <2>9. \A r \in Service \ Unresolved' : \A t \in Unresolved' : t \notin Needs(ExtendsGraph, r)
    BY <2>5, <2>6
  <2> QED
    BY <2>4, <2>7, <2>9
<1>5. CASE UNCHANGED <<pending, phase>>
  <2>1. Unresolved' = Unresolved
    BY <1>5 DEF Unresolved
  <2> QED
    BY <1>2, <1>5, <2>1 DEF QueueInv
<1> QED
  BY <1>3, <1>4, <1>5 DEF FileNext, fileVars, Walk, WalkRaises, CollectAgain, MakeContainers, Transform

LEMMA QueueAlways == FileSpec => []QueueInv
<1>1. FileInit => QueueInv
  BY DEF FileInit, QueueInv
<1> QED
  BY <1>1, QueueInvStep, FormAlways, ListsKnown, PTL DEF FileSpec

LEMMA FarEndFacts ==
  ASSUME file \in Files, NEW s \in Service, Bases[s] \subseteq {s}
  PROVE  /\ Chain(s) = {s}
         /\ \A k : Givers(s, k) = IF Says(s, k) THEN {s} ELSE {}
         /\ \A k : Nearest(s, k) = IF Says(s, k) THEN {s} ELSE {}
         /\ FarEnd(s) = {FromFile(e.service) : e \in {x \in file[s].extends :
                                                 x.file /\ x.service \in Elsewhere}}
         /\ \A k : Expected(s, k) = IF Says(s, k) THEN {Own(s)}
                                    ELSE IF k = "image" THEN FarEnd(s) ELSE {}
         /\ Wanted(s, "ports")
              = (IF "ports" \in file[s].gives THEN {Own(s)} ELSE {}) \cup FarEnd(s)
         /\ Wanted(s, "depends_on") = file[s].depends
<1>1. Chain(s) = {s}
  <2>1. CASE Bases[s] = {}
    BY <2>1, ChainEnds
  <2>2. CASE Bases[s] = {s}
    <3>1. {s} \in SUBSET Name /\ Bases[s] \subseteq {s} /\ Closed(Bases, {s})
      BY <2>2, ServiceAssumption DEF Closed
    <3>2. Needs(Bases, s) \subseteq {s}
      BY <3>1, GraphTypes, NeedsIsLeast
    <3> QED
      BY <3>2 DEF Chain
  <2> QED
    BY <2>1, <2>2
<1>2. \A k : Givers(s, k) = IF Says(s, k) THEN {s} ELSE {}
  BY <1>1 DEF Givers
<1>3. FarEnd(s) = {FromFile(e.service) : e \in {x \in file[s].extends :
                                            x.file /\ x.service \in Elsewhere}}
  <2>1. UNION {file[t].extends : t \in Chain(s)} = file[s].extends
    BY <1>1
  <2> QED
    BY <2>1 DEF FarEnd
<1>4. \A k : Nearest(s, k) = IF Says(s, k) THEN {s} ELSE {}
  BY <1>1, <1>2 DEF Nearest
<1>5. \A k : Expected(s, k) = IF Says(s, k) THEN {Own(s)}
                             ELSE IF k = "image" THEN FarEnd(s) ELSE {}
  BY <1>2, <1>4 DEF Expected
<1>6. Wanted(s, "ports") = (IF "ports" \in file[s].gives THEN {Own(s)} ELSE {}) \cup FarEnd(s)
  BY <1>2 DEF Wanted, Says
<1>7. Wanted(s, "depends_on") = file[s].depends
  BY <1>1 DEF Wanted
<1> QED
  BY <1>1, <1>2, <1>3, <1>4, <1>5, <1>6, <1>7

\* A service of this file that extends another adds what it says itself.
LEMMA BaseFacts ==
  ASSUME file \in Files, Acyclic(ExtendsGraph), NEW s \in Service, NEW b \in Service,
         b # s, Bases[s] = {b}, NEW e, file[s].extends = {e}, ~e.file
  PROVE  /\ \A k : Givers(s, k) = (IF Says(s, k) THEN {s} ELSE {}) \cup Givers(b, k)
         /\ \A k : Nearest(s, k) = IF Says(s, k) THEN {s} ELSE Nearest(b, k)
         /\ \A k : Expected(s, k) = IF Says(s, k) THEN {Own(s)} ELSE Expected(b, k)
         /\ Wanted(s, "ports")
              = (IF "ports" \in file[s].gives THEN {Own(s)} ELSE {}) \cup Wanted(b, "ports")
         /\ Wanted(s, "depends_on") = file[s].depends \cup Wanted(b, "depends_on")
<1>1. Chain(s) = {s} \cup Chain(b) /\ Chain(b) \subseteq Service
  BY ChainGoesOn, ChainFacts
<1>2. s \notin Chain(b) /\ \A x \in Chain(b) : s \notin Chain(x)
  BY ChainLeavesStart, ChainFacts
<1>3. \A k : Givers(s, k) = (IF Says(s, k) THEN {s} ELSE {}) \cup Givers(b, k)
  BY <1>1 DEF Givers
<1>4. FarEnd(s) = FarEnd(b)
  <2>1. UNION {file[t].extends : t \in Chain(s)}
          = {e} \cup UNION {file[t].extends : t \in Chain(b)}
    BY <1>1
  <2> QED
    BY <2>1 DEF FarEnd
<1>5. ASSUME NEW k
      PROVE  Nearest(s, k) = IF Says(s, k) THEN {s} ELSE Nearest(b, k)
  <2>1. CASE Says(s, k)
    <3>1. s \in Givers(s, k) /\ Givers(s, k) \subseteq Chain(s)
      BY <1>3, <2>1 DEF Givers
    <3>2. \A x \in Givers(s, k) : x = s \/ s \notin Chain(x)
      BY <1>1, <1>2, <3>1
    <3> QED
      BY <2>1, <3>1, <3>2 DEF Nearest
  <2>2. CASE ~Says(s, k)
    BY <1>3, <2>2 DEF Nearest
  <2> QED
    BY <2>1, <2>2
<1>6. \A k : Expected(s, k) = IF Says(s, k) THEN {Own(s)} ELSE Expected(b, k)
  BY <1>3, <1>4, <1>5 DEF Expected
<1>7. Wanted(s, "ports")
        = (IF "ports" \in file[s].gives THEN {Own(s)} ELSE {}) \cup Wanted(b, "ports")
  <2>1. {Own(t) : t \in Givers(s, "ports")}
          = (IF "ports" \in file[s].gives THEN {Own(s)} ELSE {}) \cup {Own(t) : t \in Givers(b, "ports")}
    BY <1>3 DEF Says
  <2> QED
    BY <1>4, <2>1 DEF Wanted
<1>8. Wanted(s, "depends_on") = file[s].depends \cup Wanted(b, "depends_on")
  BY <1>1 DEF Wanted
<1> QED
  BY <1>3, <1>5, <1>6, <1>7, <1>8

\* After a merge a service has the items of its base and its own; the lists of
\* the others have what they had.
LEMMA MergeItems ==
  ASSUME FormInv, NEW s \in Service, NEW base, NEW heap, Held(base), Heap(heap),
         MergeWith(s, base, heap), NEW k \in Lists
  PROVE  /\ ~Replaces(s, k) => UNION {heap[k][o] : o \in base[k]} \subseteq Items(s, k)'
         /\ UNION {heap[k][o] : o \in srv[s][k]} \subseteq Items(s, k)'
         /\ \A t \in Service : t # s => UNION {heap[k][o] : o \in srv[t][k]} \subseteq Items(t, k)'
<1>1. /\ srv \in [Service -> [Keys -> SUBSET (Place \cup Object)]]
      /\ \A t \in Service : Held(srv[t])
  BY DEF FormInv, ServicesInv
<1>2. k \in Refs
  BY KeyFacts
<1>3. /\ \A t \in Service : t # s => srv'[t] = srv[t]
      /\ srv'[s][k] = IF Replaces(s, k) \/ base[k] = {} THEN srv[s][k] ELSE base[k]
      /\ \A o \in Object : heap[k][o] \subseteq obj'[k][o]
      /\ ~Replaces(s, k) => \A o \in base[k], p \in srv[s][k] : heap[k][p] \subseteq obj'[k][o]
  BY <1>1, <1>2, MergeFacts
<1>4. base[k] \subseteq Object /\ \A t \in Service : srv[t][k] \subseteq Object
  BY <1>1, <1>2 DEF Held
<1>5. \A t \in Service : \A o \in srv'[t][k] : obj'[k][o] \subseteq Items(t, k)'
  BY DEF Items
<1>6. ASSUME ~Replaces(s, k), NEW o \in base[k]
      PROVE  heap[k][o] \subseteq Items(s, k)'
  BY <1>3, <1>4, <1>5, <1>6
<1>7. ASSUME NEW p \in srv[s][k]
      PROVE  heap[k][p] \subseteq Items(s, k)'
  <2>1. CASE Replaces(s, k) \/ base[k] = {}
    BY <1>3, <1>4, <1>5, <2>1
  <2>2. CASE ~Replaces(s, k) /\ base[k] # {}
    <3>1. PICK o \in base[k] : TRUE
      BY <2>2
    <3> QED
      BY <1>3, <1>5, <2>2, <3>1
  <2> QED
    BY <2>1, <2>2
<1>8. ASSUME NEW t \in Service, t # s, NEW o \in srv[t][k]
      PROVE  heap[k][o] \subseteq Items(t, k)'
  BY <1>3, <1>4, <1>5, <1>8
<1> QED
  BY <1>6, <1>7, <1>8

\* What a service says itself under a key with a list.
OwnItems(s, k) ==
  IF k = "ports" THEN IF "ports" \in file[s].gives THEN {Own(s)} ELSE {}
                 ELSE file[s].depends

LEMMA UnresolvedType == FormInv => Unresolved \subseteq Service
<1>1. \A q \in Seq(Service) : \A i \in DOMAIN q : q[i] \in Service
  BY LenProperties, ElementOfSeq
<1> QED
  BY <1>1 DEF FormInv, Unresolved

\* As long as a service is not resolved its lists hold what it says.
LEMMA OwnItemsHeld ==
  ASSUME FormInv, OwnKept, AsRead, NEW s \in Service, s \in Unresolved, NEW k \in Lists
  PROVE  OwnItems(s, k) = {} \/ (Own(s) \in srv[s][k] /\ OwnItems(s, k) \subseteq obj[k][Own(s)])
<1>1. k \in {"ports", "depends_on"} /\ k \in Keys \ {"deploy"}
  BY KeyFacts
<1>2. srv[s][k] = IF Says(s, k) THEN {Own(s)} ELSE {}
  BY <1>1 DEF AsRead
<1>3. Own(s) \in obj["ports"][Own(s)] /\ file[s].depends \subseteq obj["depends_on"][Own(s)]
  BY DEF OwnKept
<1> QED
  BY <1>1, <1>2, <1>3 DEF Says, OwnItems

\* What a chain says is in the file.
LEMMA SaysSame ==
  ASSUME file' = file
  PROVE  /\ \A r, k : Expected(r, k)' = Expected(r, k)
         /\ \A r, k : Wanted(r, k)' = Wanted(r, k) /\ AsList(r, k)' = AsList(r, k)
         /\ \A r, k : Givers(r, k)' = Givers(r, k) /\ Nearest(r, k)' = Nearest(r, k)
         /\ UNCHANGED <<srv, obj>> => \A r, k : Items(r, k)' = Items(r, k)
<1>1. /\ \A r : Chain(r)' = Chain(r) /\ FarEnd(r)' = FarEnd(r)
      /\ \A r, k : Givers(r, k)' = Givers(r, k) /\ Nearest(r, k)' = Nearest(r, k)
  BY GraphSame
<1>2. ASSUME NEW r, NEW k
      PROVE  Expected(r, k)' = Expected(r, k)
  BY <1>1 DEF Expected
<1>3. ASSUME NEW r, NEW k
      PROVE  Wanted(r, k)' = Wanted(r, k)
  <2>1. UNION {file[t].depends : t \in Chain(r)}' = UNION {file[t].depends : t \in Chain(r)}
    BY <1>1
  <2>2. {Own(t) : t \in Givers(r, "ports")}' = {Own(t) : t \in Givers(r, "ports")}
    BY <1>1
  <2> QED
    BY <1>1, <2>1, <2>2 DEF Wanted
<1>4. UNCHANGED <<srv, obj>> => \A r, k : Items(r, k)' = Items(r, k)
  BY DEF Items
<1>5. \A r, k : AsList(r, k)' = AsList(r, k)
  BY <1>1 DEF AsList
<1> QED
  BY <1>1, <1>2, <1>3, <1>4, <1>5

\* A merge with a base that has all it will have makes a service that has.
LEMMA MergeInherits ==
  ASSUME FormInv, OwnKept, AsRead, ReadOnce, Inherited, file' = file,
         NEW s \in Service, Unresolved = {s} \cup Unresolved', s \notin Unresolved',
         Unresolved \subseteq Service,
         NEW base, NEW heap, Held(base), Heap(heap), MergeWith(s, base, heap),
         \A k \in Lists : \A o \in Object :
           o # FromFile(s) \/ k # "ports" => heap[k][o] = obj[k][o],
         \A t \in Unresolved' : FromFile(t) \notin base["ports"],
         \A k \in Scalars : /\ Expected(s, k) = IF Says(s, k) THEN {Own(s)} ELSE base[k]
                            /\ Givers(s, k) # {} => Says(s, k) \/ base[k] # {},
         \A k \in Lists :
           /\ AsList(s, k) => Wanted(s, k) \subseteq OwnItems(s, k) \cup UNION {heap[k][o] : o \in base[k]}
           /\ \A t \in Nearest(s, k) : k \in file[t].text =>
                IF Says(s, k) THEN t = s ELSE base[k] = {Own(t)}
  PROVE  (OwnKept /\ AsRead /\ ReadOnce /\ Inherited)'
<1>1. /\ srv \in [Service -> [Keys -> SUBSET (Place \cup Object)]]
      /\ \A t \in Service : Held(srv[t])
  BY DEF FormInv, ServicesInv
<1>2. /\ \A t \in Service : t # s => srv'[t] = srv[t]
      /\ \A k \in Scalars : srv'[s][k] = IF srv[s][k] # {} THEN srv[s][k] ELSE base[k]
      /\ \A k \in Refs : srv'[s][k] = IF Replaces(s, k) \/ base[k] = {} THEN srv[s][k] ELSE base[k]
      /\ \A k \in Lists : \A o \in Object : heap[k][o] \subseteq obj'[k][o]
  BY <1>1, MergeFacts
<1>3. \A k \in Lists : \A t \in Service : heap[k][Own(t)] = obj[k][Own(t)]
  BY KeyFacts
<1>4. s \in Unresolved /\ \A t \in Unresolved' : t \in Unresolved /\ t # s /\ t \in Service
  OBVIOUS
<1>5. OwnKept'
  <2>1. ASSUME NEW t \in Service
        PROVE  /\ obj["ports"][Own(t)] \subseteq obj'["ports"][Own(t)]
               /\ obj["depends_on"][Own(t)] \subseteq obj'["depends_on"][Own(t)]
    BY <1>2, <1>3, KeyFacts
  <2> QED
    BY <2>1 DEF OwnKept
<1>6. AsRead'
  <2>1. ASSUME NEW t \in Unresolved', NEW k \in Keys \ {"deploy"}
        PROVE  srv'[t][k] = IF Says(t, k) THEN {Own(t)} ELSE {}
    <3>1. srv'[t] = srv[t] /\ t \in Unresolved
      BY <1>2, <1>4
    <3>2. srv[t][k] = IF Says(t, k) THEN {Own(t)} ELSE {}
      BY <3>1 DEF AsRead
    <3> QED
      BY <3>1, <3>2
  <2> QED
    BY <2>1 DEF AsRead, Says
<1>7. ReadOnce'
  <2>1. srv'[s]["ports"] = base["ports"] \/ srv'[s]["ports"] = srv[s]["ports"]
    BY <1>2, KeyFacts
  <2> QED
    BY <1>2, <1>4, <2>1 DEF ReadOnce
<1>8. /\ \A r, k : Expected(r, k)' = Expected(r, k)
      /\ \A r, k : Wanted(r, k)' = Wanted(r, k) /\ AsList(r, k)' = AsList(r, k)
      /\ \A r, k : Givers(r, k)' = Givers(r, k) /\ Nearest(r, k)' = Nearest(r, k)
  BY SaysSame
<1>9. ASSUME NEW r \in Service \ Unresolved', r # s
      PROVE  /\ \A k \in Scalars : srv'[r][k] = Expected(r, k) /\ (Givers(r, k) # {} => srv'[r][k] # {})
             /\ \A k \in Lists :
                  /\ AsList(r, k) => Wanted(r, k) \subseteq Items(r, k)'
                  /\ \A t \in Nearest(r, k) : k \in file[t].text => srv'[r][k] = {Own(t)}
  <2>1. r \in Service \ Unresolved /\ srv'[r] = srv[r]
    BY <1>2, <1>9
  <2>2. /\ \A k \in Scalars : srv'[r][k] = Expected(r, k) /\ (Givers(r, k) # {} => srv'[r][k] # {})
        /\ \A k \in Lists : \A t \in Nearest(r, k) : k \in file[t].text => srv'[r][k] = {Own(t)}
    BY <2>1 DEF Inherited
  <2>3. ASSUME NEW k \in Lists, AsList(r, k)
        PROVE  Wanted(r, k) \subseteq Items(r, k)'
    <3>1. \A o \in srv[r][k] : o \in Object /\ (o # FromFile(s) \/ k # "ports")
      <4>1. \A o \in srv[r][k] : o \in Object
        BY <1>1, KeyFacts DEF Held
      <4>2. FromFile(s) \notin srv[r]["ports"]
        BY <1>4 DEF ReadOnce
      <4> QED
        BY <4>1, <4>2
    <3>2. \A o \in srv[r][k] : heap[k][o] = obj[k][o]
      BY <3>1
    <3>3. Items(r, k) = UNION {heap[k][o] : o \in srv[r][k]}
      BY <3>2 DEF Items
    <3>4. UNION {heap[k][o] : o \in srv[r][k]} \subseteq Items(r, k)'
      BY <1>9, MergeItems
    <3>5. Wanted(r, k) \subseteq Items(r, k)
      BY <2>1, <2>3 DEF Inherited
    <3> QED
      BY <3>3, <3>4, <3>5
  <2> QED
    BY <2>2, <2>3
\* What the service held before is what it says.
<1>10. \A k \in Keys \ {"deploy"} : srv[s][k] = IF Says(s, k) THEN {Own(s)} ELSE {}
  BY <1>4 DEF AsRead
<1>11. \A k \in Lists : Replaces(s, k) <=> Says(s, k) /\ k \in file[s].text
  <2>1. \A k \in Lists : k \in Keys \ {"deploy"} /\ k \notin Scalars
    BY KeyFacts
  <2>2. Own(s)[1] = s /\ Own(s)[2] = "own"
    BY DEF Own
  <2> QED
    BY <1>10, <2>1, <2>2 DEF Replaces, IsText
<1>12. \A k \in Scalars : srv'[s][k] = Expected(s, k) /\ (Givers(s, k) # {} => srv'[s][k] # {})
  <2> TAKE k \in Scalars
  <2>1. k \in Keys \ {"deploy"}
    BY KeyFacts
  <2>2. srv'[s][k] = IF srv[s][k] # {} THEN srv[s][k] ELSE base[k]
    BY <1>2
  <2>3. srv[s][k] = IF Says(s, k) THEN {Own(s)} ELSE {}
    BY <1>10, <2>1
  <2>4. /\ Expected(s, k) = IF Says(s, k) THEN {Own(s)} ELSE base[k]
        /\ Givers(s, k) # {} => Says(s, k) \/ base[k] # {}
    OBVIOUS
  <2> QED
    BY ONLY <2>2, <2>3, <2>4
<1>13. ASSUME NEW k \in Lists, AsList(s, k)
       PROVE  Wanted(s, k) \subseteq Items(s, k)'
  <2>1. ~Replaces(s, k)
    <3>1. Says(s, k) => s \in Givers(s, k)
      BY ChainFacts DEF Givers, FormInv
    <3> QED
      BY <1>11, <1>13, <3>1 DEF AsList
  <2>2. /\ UNION {heap[k][o] : o \in base[k]} \subseteq Items(s, k)'
        /\ UNION {heap[k][o] : o \in srv[s][k]} \subseteq Items(s, k)'
    BY <2>1, MergeItems
  <2>3. OwnItems(s, k) \subseteq Items(s, k)'
    BY <1>3, <1>4, <2>2, OwnItemsHeld
  <2> QED
    BY <1>13, <2>2, <2>3
<1>14. ASSUME NEW k \in Lists, NEW t \in Nearest(s, k), k \in file[t].text
       PROVE  srv'[s][k] = {Own(t)}
  <2>1. k \in Refs /\ k \in Keys \ {"deploy"}
    BY KeyFacts
  <2>2. CASE Says(s, k)
    <3>1. t = s /\ Replaces(s, k)
      BY <1>11, <1>14, <2>2
    <3> QED
      BY <1>2, <1>10, <2>1, <2>2, <3>1
  <2>3. CASE ~Says(s, k)
    <3>1. base[k] = {Own(t)} /\ ~Replaces(s, k)
      BY <1>11, <1>14, <2>3
    <3> QED
      BY <1>2, <2>1, <3>1
  <2> QED
    BY <2>2, <2>3
<1>15. Inherited'
  BY <1>8, <1>9, <1>12, <1>13, <1>14 DEF Inherited
<1> QED
  BY <1>5, <1>6, <1>7, <1>15

Resolving == OwnKept /\ AsRead /\ ReadOnce /\ Inherited

\* Each way to resolve a service leaves it with what its chain says.
LEMMA ResolveInherits ==
  ASSUME FormInv, QueueInv, Resolving, Acyclic(ExtendsGraph), Resolve, phase' = "resolve",
         file' = file
  PROVE  Resolving'
<1>1. PICK s \in Service :
        /\ pending # <<>> /\ s = Head(pending) /\ pending' = Tail(pending)
        /\ \/ /\ UNCHANGED <<srv, obj>>
              /\ file[s].extends = {} /\ Bases[s] = {}
           \/ /\ Bases[s] = {}
              /\ \E e \in [service : Name, file : BOOLEAN] :
                   /\ file[s].extends = {e} /\ e.file
                   /\ MergeWith(s, Loaded(s, e.service), Reading(s, e.service))
           \/ \E b \in Service :
                /\ Bases[s] = {b} /\ \E e : file[s].extends = {e} /\ ~e.file
                /\ MergeWith(s, srv[b], obj)
  <2>1. phase' # "raised"
    OBVIOUS
  <2> QED
    BY <2>1, ResolveCases
<1>2. /\ Unresolved = {s} \cup Unresolved' /\ s \notin Unresolved'
      /\ \A t \in Unresolved : t \notin Needs(ExtendsGraph, s)
      /\ Unresolved \subseteq Service
  BY <1>1, HeadIsNext, UnresolvedType
<1>3. /\ OwnKept /\ AsRead /\ ReadOnce /\ Inherited /\ file \in Files
      /\ s \in Unresolved
  BY <1>2 DEF Resolving, FormInv
<1>4. /\ \A t \in Service : Held(srv[t])
      /\ Heap(obj)
  BY DEF FormInv, ServicesInv
\* It extends nothing.
<1>5. CASE UNCHANGED <<srv, obj>> /\ file[s].extends = {} /\ Bases[s] = {}
  <2>1. OwnKept'
    BY <1>3, <1>5 DEF OwnKept
  <2>2. AsRead'
    <3>1. ASSUME NEW t \in Unresolved', NEW k \in Keys \ {"deploy"}
          PROVE  srv'[t][k] = IF Says(t, k) THEN {Own(t)} ELSE {}
      BY <1>2, <1>3, <1>5 DEF AsRead
    <3> QED
      BY <3>1 DEF AsRead, Says
  <2>3. ReadOnce'
    BY <1>2, <1>3, <1>5 DEF ReadOnce
  <2>4. FarEnd(s) = {}
    BY <1>3, <1>5, FarEndFacts
  <2>5. /\ \A k : Expected(s, k) = IF Says(s, k) THEN {Own(s)} ELSE {}
        /\ \A k : Givers(s, k) = IF Says(s, k) THEN {s} ELSE {}
        /\ \A k : Nearest(s, k) = IF Says(s, k) THEN {s} ELSE {}
    BY <1>3, <1>5, <2>4, FarEndFacts
  <2>6. \A k \in Keys \ {"deploy"} : srv[s][k] = IF Says(s, k) THEN {Own(s)} ELSE {}
    BY <1>3 DEF AsRead
  <2>7. /\ \A k \in Scalars : srv[s][k] = Expected(s, k) /\ (Givers(s, k) # {} => srv[s][k] # {})
        /\ \A k \in Lists : \A t \in Nearest(s, k) : k \in file[t].text => srv[s][k] = {Own(t)}
    <3>1. \A k \in Scalars \cup Lists : k \in Keys \ {"deploy"}
      BY KeyFacts
    <3> QED
      BY <2>5, <2>6, <3>1
  <2>8. ASSUME NEW k \in Lists
        PROVE  Wanted(s, k) \subseteq Items(s, k)
    <3>1. Wanted(s, k) = OwnItems(s, k)
      <4>1. /\ Wanted(s, "ports") = (IF "ports" \in file[s].gives THEN {Own(s)} ELSE {})
            /\ Wanted(s, "depends_on") = file[s].depends
        BY <1>3, <1>5, <2>4, FarEndFacts
      <4> QED
        BY <4>1, KeyFacts DEF OwnItems
    <3>2. OwnItems(s, k) = {} \/ (Own(s) \in srv[s][k] /\ OwnItems(s, k) \subseteq obj[k][Own(s)])
      BY <1>3, OwnItemsHeld
    <3> QED
      BY <3>1, <3>2 DEF Items
  <2>9. \A r \in Service \ Unresolved' :
          /\ \A k \in Scalars : srv[r][k] = Expected(r, k) /\ (Givers(r, k) # {} => srv[r][k] # {})
          /\ \A k \in Lists : /\ AsList(r, k) => Wanted(r, k) \subseteq Items(r, k)
                             /\ \A t \in Nearest(r, k) : k \in file[t].text => srv[r][k] = {Own(t)}
    BY <1>2, <1>3, <2>7, <2>8 DEF Inherited
  <2>10. Inherited'
    BY <1>5, <2>9, SaysSame DEF Inherited
  <2> QED
    BY <2>1, <2>2, <2>3, <2>10 DEF Resolving
\* It extends a service of another file.
<1>6. ASSUME NEW e \in [service : Name, file : BOOLEAN], Bases[s] = {},
             file[s].extends = {e}, e.file,
             MergeWith(s, Loaded(s, e.service), Reading(s, e.service))
      PROVE  Resolving'
  <2>1. PICK n \in Name : n = e.service
    OBVIOUS
  <2>2. PICK base, heap : base = Loaded(s, n) /\ heap = Reading(s, n)
    OBVIOUS
  <2>3. /\ Held(base) /\ Heap(heap) /\ MergeWith(s, base, heap)
        /\ base["container_name"] = {}
        /\ base["image"] = IF n \in Elsewhere THEN {FromFile(n)} ELSE {}
        /\ base["ports"] = IF n \in Elsewhere THEN {FromFile(s)} ELSE {}
        /\ heap["ports"][FromFile(s)] = {FromFile(n)}
        /\ \A k \in Lists : \A o \in Object : o # FromFile(s) \/ k # "ports" => heap[k][o] = obj[k][o]
    <3>1. MergeWith(s, base, heap)
      BY <1>6, <2>1, <2>2
    <3>2. /\ Held(base) /\ Heap(heap)
          /\ base["container_name"] = {}
          /\ base["image"] = IF n \in Elsewhere THEN {FromFile(n)} ELSE {}
          /\ base["ports"] = IF n \in Elsewhere THEN {FromFile(s)} ELSE {}
          /\ heap["ports"][FromFile(s)] = {FromFile(n)}
      BY <2>2, ReadingFacts
    <3>3. \A k \in Lists : \A o \in Object : o # FromFile(s) \/ k # "ports" => heap[k][o] = obj[k][o]
      <4>1. \A k \in Lists : \A o \in Object :
              o # FromFile(s) \/ k # "ports" => Reading(s, n)[k][o] = obj[k][o]
        BY ReadingFacts
      <4> QED
        BY <2>2, <4>1
    <3> QED
      BY <3>1, <3>2, <3>3
  <2>4. /\ FarEnd(s) = IF n \in Elsewhere THEN {FromFile(n)} ELSE {}
        /\ \A k : /\ Expected(s, k) = IF Says(s, k) THEN {Own(s)}
                                      ELSE IF k = "image" THEN FarEnd(s) ELSE {}
                  /\ Givers(s, k) = IF Says(s, k) THEN {s} ELSE {}
                  /\ Nearest(s, k) = IF Says(s, k) THEN {s} ELSE {}
        /\ Wanted(s, "ports") = (IF "ports" \in file[s].gives THEN {Own(s)} ELSE {}) \cup FarEnd(s)
        /\ Wanted(s, "depends_on") = file[s].depends
    <3>1. FarEnd(s) = {FromFile(f.service) : f \in {x \in file[s].extends :
                                                x.file /\ x.service \in Elsewhere}}
      BY <1>3, <1>6, FarEndFacts
    <3>2. FarEnd(s) = IF n \in Elsewhere THEN {FromFile(n)} ELSE {}
      BY <1>6, <2>1, <3>1
    <3> QED
      BY <1>3, <1>6, <3>2, FarEndFacts
  <2>5. \A t \in Unresolved' : FromFile(t) \notin base["ports"]
    BY <1>2, <2>3, KeyFacts
  <2>6. \A k \in Scalars : /\ Expected(s, k) = IF Says(s, k) THEN {Own(s)} ELSE base[k]
                           /\ Givers(s, k) # {} => Says(s, k) \/ base[k] # {}
    BY <2>3, <2>4, KeyFacts
  <2>7. ASSUME NEW k \in Lists
        PROVE  Wanted(s, k) \subseteq OwnItems(s, k) \cup UNION {heap[k][o] : o \in base[k]}
    <3>1. CASE k = "ports"
      <4>1. UNION {heap[k][o] : o \in base[k]} = FarEnd(s)
        BY <2>3, <2>4, <3>1
      <4> QED
        BY <2>4, <3>1, <4>1 DEF OwnItems
    <3>2. CASE k = "depends_on"
      BY <2>4, <3>2 DEF OwnItems
    <3> QED
      BY <3>1, <3>2, KeyFacts
  <2>8. \A k \in Lists :
          /\ AsList(s, k) => Wanted(s, k) \subseteq OwnItems(s, k) \cup UNION {heap[k][o] : o \in base[k]}
          /\ \A t \in Nearest(s, k) : k \in file[t].text =>
               IF Says(s, k) THEN t = s ELSE base[k] = {Own(t)}
    BY <2>4, <2>7
  <2> QED
    BY <1>2, <1>3, <2>3, <2>5, <2>6, <2>8, MergeInherits DEF Resolving
\* It extends a service of this file, which is resolved or the service itself.
<1>7. ASSUME NEW b \in Service, Bases[s] = {b}, NEW e, file[s].extends = {e}, ~e.file,
             MergeWith(s, srv[b], obj)
      PROVE  Resolving'
  <2>1. PICK base, heap : base = srv[b] /\ heap = obj
    OBVIOUS
  <2>2. /\ Held(base) /\ Heap(heap) /\ MergeWith(s, base, heap)
        /\ \A k \in Lists : \A o \in Object : o # FromFile(s) \/ k # "ports" => heap[k][o] = obj[k][o]
        /\ \A k \in Lists : UNION {heap[k][o] : o \in base[k]} = Items(b, k)
    BY <1>4, <1>7, <2>1 DEF Items
  <2>3. \A t \in Unresolved' : FromFile(t) \notin base["ports"]
    BY <1>2, <1>3, <2>1 DEF ReadOnce
  <2>4. \A k \in Scalars : /\ Expected(s, k) = IF Says(s, k) THEN {Own(s)} ELSE base[k]
                           /\ Givers(s, k) # {} => Says(s, k) \/ base[k] # {}
    <3>1. CASE b = s
      <4>1. FarEnd(s) = {}
        <5>1. {x \in file[s].extends : x.file /\ x.service \in Elsewhere} = {}
          BY <1>7
        <5> QED
          BY <1>3, <1>7, <3>1, <5>1, FarEndFacts
      <4>2. \A k : /\ Expected(s, k) = IF Says(s, k) THEN {Own(s)} ELSE {}
                   /\ Givers(s, k) = IF Says(s, k) THEN {s} ELSE {}
        BY <1>3, <1>7, <3>1, <4>1, FarEndFacts
      <4>3. \A k \in Scalars : ~Says(s, k) => base[k] = {}
        <5>1. \A k \in Scalars : k \in Keys \ {"deploy"}
          BY KeyFacts
        <5> QED
          BY <1>3, <2>1, <3>1, <5>1 DEF AsRead
      <4> QED
        BY <4>2, <4>3
    <3>2. CASE b # s
      <4>1. \A k : /\ Expected(s, k) = IF Says(s, k) THEN {Own(s)} ELSE Expected(b, k)
                   /\ Givers(s, k) = (IF Says(s, k) THEN {s} ELSE {}) \cup Givers(b, k)
        BY <1>3, <1>7, <3>2, BaseFacts
      <4>2. b \notin Unresolved
        BY <1>2, <1>3, <1>7, <3>2, ChainLeavesStart
      <4> QED
        BY <1>3, <2>1, <4>1, <4>2 DEF Inherited
    <3> QED
      BY <3>1, <3>2
  <2>5. ASSUME NEW k \in Lists, AsList(s, k)
        PROVE  Wanted(s, k) \subseteq OwnItems(s, k) \cup UNION {heap[k][o] : o \in base[k]}
    <3>1. CASE b = s
      <4>1. FarEnd(s) = {}
        <5>1. {x \in file[s].extends : x.file /\ x.service \in Elsewhere} = {}
          BY <1>7
        <5> QED
          BY <1>3, <1>7, <3>1, <5>1, FarEndFacts
      <4>2. /\ Wanted(s, "ports") = (IF "ports" \in file[s].gives THEN {Own(s)} ELSE {})
            /\ Wanted(s, "depends_on") = file[s].depends
        BY <1>3, <1>7, <3>1, <4>1, FarEndFacts
      <4> QED
        BY <4>2, KeyFacts DEF OwnItems
    <3>2. CASE b # s
      <4>1. /\ Wanted(s, "ports")
                 = (IF "ports" \in file[s].gives THEN {Own(s)} ELSE {}) \cup Wanted(b, "ports")
            /\ Wanted(s, "depends_on") = file[s].depends \cup Wanted(b, "depends_on")
            /\ Givers(b, k) \subseteq Givers(s, k)
        BY <1>3, <1>7, <3>2, BaseFacts
      <4>2. b \notin Unresolved
        BY <1>2, <1>3, <1>7, <3>2, ChainLeavesStart
      <4>3. Wanted(b, k) \subseteq UNION {heap[k][o] : o \in base[k]}
        BY <1>3, <2>2, <2>5, <4>1, <4>2 DEF Inherited, AsList
      <4> QED
        BY <4>1, <4>3, KeyFacts DEF OwnItems
    <3> QED
      BY <3>1, <3>2
  <2>6. ASSUME NEW k \in Lists, NEW t \in Nearest(s, k), k \in file[t].text
        PROVE  IF Says(s, k) THEN t = s ELSE base[k] = {Own(t)}
    <3>1. CASE b = s
      <4>1. Nearest(s, k) = IF Says(s, k) THEN {s} ELSE {}
        BY <1>3, <1>7, <3>1, FarEndFacts
      <4> QED
        BY <2>6, <4>1
    <3>2. CASE b # s
      <4>1. Nearest(s, k) = IF Says(s, k) THEN {s} ELSE Nearest(b, k)
        BY <1>3, <1>7, <3>2, BaseFacts
      <4>2. b \notin Unresolved
        BY <1>2, <1>3, <1>7, <3>2, ChainLeavesStart
      <4> QED
        BY <1>3, <2>1, <2>6, <4>1, <4>2 DEF Inherited
    <3> QED
      BY <3>1, <3>2
  <2> QED
    BY <1>2, <1>3, <2>2, <2>3, <2>4, <2>5, <2>6, MergeInherits DEF Resolving
<1> QED
  BY <1>1, <1>5, <1>6, <1>7

LEMMA UnresolvedAgain == FormInv' => (Unresolved \subseteq Service)'
BY UnresolvedType, PTL

LEMMA ChainInvStep ==
  FormInv /\ ListsAlways /\ QueueInv /\ ChainInv /\ [FileNext]_<<fileVars, depsVars>> => ChainInv'
<1> SUFFICES ASSUME FormInv, ListsAlways, QueueInv, ChainInv, [FileNext]_<<fileVars, depsVars>>
             PROVE  ChainInv'
  OBVIOUS
<1>1. /\ file' = file /\ (Acyclic(ExtendsGraph)' <=> Acyclic(ExtendsGraph))
      /\ UNCHANGED <<srv, obj>> \/ Resolve
  <2>1. UNCHANGED <<srv, obj>> \/ Resolve
    BY DEF FileNext, fileVars, Walk, WalkRaises, SortForExtends, CollectAgain,
           MakeContainers, Transform
  <2> QED
    BY <2>1, FileStays, GraphSame
<1> SUFFICES ASSUME phase' # "raised", Acyclic(ExtendsGraph)
             PROVE  Resolving'
  BY <1>1 DEF ChainInv, Resolving
<1>2. phase # "raised"
  BY DEF FileNext, fileVars, Walk, WalkRaises, SortForExtends, Resolve, CollectAgain,
         MakeContainers, Transform
<1>3. Resolving
  BY <1>2 DEF ChainInv, Resolving
<1>4. ASSUME UNCHANGED <<srv, obj>>, Unresolved' = Unresolved
      PROVE  Resolving'
  <2>1. OwnKept' /\ ReadOnce'
    BY <1>1, <1>3, <1>4 DEF Resolving, OwnKept, ReadOnce
  <2>2. AsRead'
    BY <1>1, <1>3, <1>4 DEF Resolving, AsRead, Says
  <2>3. Inherited'
    BY <1>1, <1>3, <1>4, SaysSame DEF Resolving, Inherited
  <2> QED
    BY <2>1, <2>2, <2>3 DEF Resolving
<1>5. CASE Resolve
  <2>1. phase' = "resolve"
    BY <1>5, ResolveCases
  <2> QED
    BY <1>1, <1>3, <1>5, <2>1, ResolveInherits
<1>6. CASE SortForExtends
  <2>1. \A s \in Service : \E i \in DOMAIN pending' : pending'[i] = s
    BY <1>6, QueueSorted
  <2>2. Unresolved = Service /\ Unresolved' = {pending'[i] : i \in DOMAIN pending'}
    BY <1>6 DEF SortForExtends, Unresolved
  <2>3. Unresolved' \subseteq Service
    BY FormStep, UnresolvedAgain
  <2> QED
    BY <1>4, <1>6, <2>1, <2>2, <2>3 DEF SortForExtends
<1>7. CASE UNCHANGED <<srv, obj, pending>> /\ ((phase = "extends") <=> (phase' = "extends"))
  BY <1>4, <1>7 DEF Unresolved
<1> QED
  BY <1>2, <1>5, <1>6, <1>7 DEF FileNext, fileVars, Walk, WalkRaises, CollectAgain, MakeContainers,
     Transform

LEMMA ChainAlways == FileSpec => []ChainInv
<1>1. FileInit => ChainInv
  <2> SUFFICES ASSUME FileInit PROVE OwnKept /\ AsRead /\ ReadOnce /\ Inherited
    BY DEF ChainInv
  <2>1. Unresolved = Service
    BY DEF FileInit, Unresolved
  <2>2. \A s \in Service : srv[s]["ports"] \subseteq {Own(s)}
    <3>1. "ports" \in Keys \ {"deploy"}
      BY KeyFacts
    <3> QED
      BY <3>1, ServicesAtFirst
  <2>3. ReadOnce
    BY <2>2, KeyFacts DEF ReadOnce
  <2>4. OwnKept
    BY ServicesAtFirst DEF OwnKept
  <2>5. AsRead
    BY <2>1, ServicesAtFirst DEF AsRead
  <2> QED
    BY <2>1, <2>3, <2>4, <2>5 DEF Inherited
<1> QED
  BY <1>1, ChainInvStep, QueueAlways, ListsKnown, FormAlways, PTL DEF FileSpec

\* Every service ends with what it says or its chain says, the nearest first; a
\* list that is a string is replaced, and of the others it has all items of the
\* chain's lists, whatever objects the merges share.
THEOREM ServicesInherit == FileSpec => []InheritsAll
<1>1. FormInv /\ ChainInv => InheritsAll
  <2> SUFFICES ASSUME FormInv, ChainInv, phase = "transform", Acyclic(ExtendsGraph), NEW s \in Service
               PROVE  /\ \A k \in Scalars : srv[s][k] = Expected(s, k)
                      /\ \A k \in Lists : \A t \in Nearest(s, k) :
                           k \in file[t].text => srv[s][k] = {Own(t)}
                      /\ AsList(s, "ports") => Wanted(s, "ports") \subseteq Items(s, "ports")
                      /\ AsList(s, "depends_on") => Wanted(s, "depends_on") \subseteq Items(s, "depends_on")
    BY DEF InheritsAll, NearestWins, StringsReplace, NothingLost, Resolved, Expected, Wanted, AsList
  <2>1. Unresolved = {}
    BY DEF FormInv, Unresolved
  <2>2. "ports" \in Lists /\ "depends_on" \in Lists
    BY KeyFacts
  <2> QED
    BY <2>1, <2>2 DEF ChainInv, Inherited
<1> QED
  BY <1>1, FormAlways, ChainAlways, PTL

--------------------------------------------------------------------------------
(* Every container is in the list, or one of its name that comes later. *)

\* What a container is called is what the nearest of the chain says.
LEMMA NamesAreMeant ==
  ASSUME FormInv, ChainInv, phase = "done", Acyclic(ExtendsGraph), NEW s \in Service, NEW n
  PROVE  ContainerName(s, n) = Meant(s, n)
<1> DEFINE key == "container_name"
<1>1. /\ srv[s][key] = IF Givers(s, key) # {} THEN {Own(t) : t \in Nearest(s, key)} ELSE {}
      /\ Givers(s, key) # {} => srv[s][key] # {}
  <2>1. Unresolved = {} /\ key \in Scalars /\ key # "image"
    BY KeyFacts DEF FormInv, Unresolved
  <2> QED
    BY <2>1 DEF ChainInv, Inherited, Expected
<1>2. CASE n = 1 /\ Givers(s, key) # {}
  <2>1. Nearest(s, key) \subseteq Service
    BY ChainFacts DEF Nearest, Givers, FormInv
  <2>2. PICK u \in Nearest(s, key) : TRUE
    BY <1>1, <1>2
  <2>3. srv[s][key] = {Own(u)}
    <3>1. \A o, p \in srv[s][key] : o = p
      BY KeyFacts DEF FormInv, ServicesInv, Held, Keys
    <3> QED
      BY <1>1, <1>2, <2>2, <3>1
  <2>4. \A t \in Service : (t \in Nearest(s, key) <=> t = u) /\ (Own(t) \in srv[s][key] <=> t = u)
    <3>1. \A t : Own(t) = Own(u) => t = u
      BY KeyFacts
    <3>2. \A t \in Nearest(s, key) : Own(t) \in srv[s][key]
      BY <1>1, <1>2
    <3> QED
      BY <2>2, <2>3, <3>1, <3>2
  <2>5. u \in Service
    BY <2>1, <2>2
  <2>6. (CHOOSE t \in Service : t \in Nearest(s, key)) = u
    BY <2>4, <2>5
  <2>7. (CHOOSE t \in Service : Own(t) \in srv[s][key]) = u
    BY <2>4, <2>5
  <2> QED
    <3>1. srv[s][key] # {}
      BY <1>1, <1>2
    <3>2. ContainerName(s, n) = file[CHOOSE t \in Service : Own(t) \in srv[s][key]].called
      BY <1>2, <3>1 DEF ContainerName
    <3>3. Meant(s, n) = file[CHOOSE t \in Service : t \in Nearest(s, key)].called
      BY <1>2 DEF Meant
    <3> QED
      BY <2>6, <2>7, <3>2, <3>3
<1>3. CASE ~(n = 1 /\ Givers(s, key) # {})
  BY <1>1, <1>3 DEF ContainerName, Meant
<1> QED
  BY <1>2, <1>3

LEMMA NoReplicaIsLost == FormInv /\ ListsAlways /\ ChainInv => EveryReplicaListed
<1> SUFFICES ASSUME FormInv, ListsAlways, ChainInv, phase = "done", Acyclic(ExtendsGraph),
                    NEW name, Bearers(name) # {}
             PROVE  \E i \in DOMAIN containers :
                      /\ containers[i].name = name
                      /\ \E s \in Bearers(name) :
                           /\ containers[i].service = {s}
                           /\ \A t \in Bearers(name) : Position(t) <= Position(s)
                      /\ \A j \in DOMAIN containers :
                           containers[j].name = name /\ containers[j].service # {} => j = i
  BY DEF EveryReplicaListed
<1>1. PICK m \in Nat : m = Len(given) /\ DOMAIN given = 1 .. m
  BY ListFacts DEF FormInv, ListsInv
<1>2. PICK k \in {0, 1} : Shown(k)
  BY DEF ListsAlways, DoneInv
<1>3. /\ \A s \in Service : \A n \in 1 .. Replicas(s) :
           /\ \E g \in 1 .. m : given[g].name = ContainerName(s, n)
           /\ \A g \in 1 .. m : given[g].name = ContainerName(s, n) =>
                \A t \in given[g].service : Position(s) <= Position(t)
      /\ \A g, h \in 1 .. m : given[g].name = given[h].name => g = h
      /\ given \in Seq(ContainerSet)
  BY <1>1 DEF ListsAlways, ListedInv, Listed, NameListed
<1>4. \A s \in Service : \A n : ContainerName(s, n) = Meant(s, n)
  BY NamesAreMeant
<1>5. PICK g \in 1 .. m : given[g].name = name
  <2>1. PICK s \in Service : \E n \in 1 .. Replicas(s) : Meant(s, n) = name
    BY DEF Bearers
  <2>2. PICK n \in 1 .. Replicas(s) : Meant(s, n) = name
    BY <2>1
  <2> QED
    BY <1>3, <1>4, <2>2
<1>6. PICK s \in Service : s \in Bearers(name) /\ given[g].service = {s}
  <2>1. given[g] \in ContainerSet
    BY <1>1, <1>3, ElementOfSeq
  <2>2. PICK s \in Service, n \in 1 .. 2 :
          n <= Replicas(s) /\ given[g].name = ContainerName(s, n) /\ given[g].service = {s}
    BY <2>1, MemberFacts
  <2>3. n \in 1 .. Replicas(s)
    BY <2>2, ReplicasType
  <2> QED
    BY <1>4, <1>5, <2>2, <2>3 DEF Bearers
\* The last of those that are called so is the one that stays.
<1>7. ASSUME NEW t \in Bearers(name)
      PROVE  Position(t) <= Position(s)
  <2>1. PICK n \in 1 .. Replicas(t) : Meant(t, n) = name
    BY DEF Bearers
  <2>2. t \in Service
    BY DEF Bearers
  <2> QED
    BY <1>3, <1>4, <1>5, <1>6, <2>1, <2>2
<1>8. /\ g + k \in DOMAIN containers
      /\ containers[g + k].name = name /\ containers[g + k].service = {s}
  <2>1. g + k \in 1 .. m + k
    BY <1>1, <1>2
  <2> QED
    BY <1>1, <1>2, <1>5, <1>6, <2>1 DEF Shown
<1>9. ASSUME NEW j \in DOMAIN containers, containers[j].name = name, containers[j].service # {}
      PROVE  j = g + k
  <2>1. PICK l \in {0, 1}, h \in 1 .. m : Shown(l) /\ j = h + l /\ containers[j].name = given[h].name
    <3>1. PICK d : d \in containers[j].service
      BY <1>9
    <3> QED
      BY <1>1, <3>1, ShownWasGiven
  <2>2. g = h
    BY <1>3, <1>5, <1>9, <2>1
  <2>3. l = k
    BY <1>1, <1>2, <2>1 DEF Shown
  <2> QED
    BY <2>1, <2>2, <2>3
<1> QED
  BY <1>6, <1>7, <1>8, <1>9

\* No container and no port of a service is lost on the way from the services to
\* podman, but for those another container of their name replaces.
THEOREM StackIsComplete == FileSpec => []StackComplete
<1>1. FormInv /\ ListsAlways /\ ChainInv => StackComplete
  BY NoPortIsLost, NoReplicaIsLost DEF StackComplete
<1> QED
  BY <1>1, FormAlways, ListsKnown, ChainAlways, PTL
================================================================================
