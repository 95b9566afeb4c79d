------------------------------ MODULE ComposeDeps ------------------------------
(***************************************************************************)
(* flat_deps and rec_deps of podman-compose: the set "_deps" of every      *)
(* service starts as the names its depends_on and links give and is        *)
(* completed in place by a recursive walk.  The sizes of the finished sets *)
(* are the only thing the start order is computed from.                    *)
(*                                                                         *)
(* The walk is modelled call by call: a frame of rec_deps holds the        *)
(* service it was called for and what is left of its copy of that          *)
(* service's set.  A Python set has no order, so the next name is any of   *)
(* them.                                                                   *)
(***************************************************************************)
EXTENDS Naturals, FiniteSets, Sequences

CONSTANTS Service,    \* the services of the compose file
          Name,       \* the names a service may give: services and unknown ones
          MaxDepth    \* how many calls of rec_deps the interpreter nests

ASSUME ServiceAssumption == Service \subseteq Name /\ IsFiniteSet(Name)
ASSUME DepthAssumption   == MaxDepth \in Nat \ {0}

VARIABLES direct,     \* the names each service gave (first loop of flat_deps)
          deps,       \* srv["_deps"]
          todo,       \* services the second loop of flat_deps has not reached
          stack,      \* the frames of rec_deps, the call of flat_deps first
          overflow    \* RecursionError was raised

depsVars == <<direct, deps, todo, stack, overflow>>

Frame == [srv : Service, left : SUBSET Name]

DepsTypeOK ==
  /\ direct \in [Service -> SUBSET Name]
  /\ deps \in [Service -> SUBSET Name]
  /\ todo \subseteq Service
  /\ stack \in Seq(Frame)
  /\ overflow \in BOOLEAN

--------------------------------------------------------------------------------
(* What flat_deps promises: everything a service needs, however far away.  *)

Closed(g, S) == \A m \in S \cap Service : g[m] \subseteq S

\* The names a service needs in a graph: the least closed set that holds the
\* names it gives.
Needs(g, s) ==
  {n \in Name : \A S \in SUBSET Name : g[s] \subseteq S /\ Closed(g, S) => n \in S}

\* No service needs itself.
Acyclic(g) == \A s \in Service : s \notin Needs(g, s)

\* The graph without one service.
Without(g, s) == [r \in Service |-> IF r = s THEN {} ELSE g[r] \ {s}]

--------------------------------------------------------------------------------
\* The first loop of flat_deps over the names the services gave.
CollectDeps(names) ==
  /\ direct' = names
  /\ deps' = names
  /\ todo' = Service
  /\ stack' = <<>>
  /\ overflow' = FALSE

DepsInit ==
  /\ direct \in [Service -> SUBSET Name]
  /\ deps = direct
  /\ todo = Service
  /\ stack = <<>>
  /\ overflow = FALSE

Top        == stack[Len(stack)]
Caller     == stack[Len(stack) - 1]
StartPoint == stack[1].srv

\* The second loop of flat_deps calls rec_deps for the next service.
Visit(s) ==
  /\ ~overflow /\ stack = <<>>
  /\ s \in todo
  /\ todo' = todo \ {s}
  /\ stack' = << [srv |-> s, left |-> deps[s]] >>
  /\ UNCHANGED <<direct, deps, overflow>>

\* Mutant: there is no test for loops.
FollowedAlways(d) ==
  /\ d # Top.srv
  /\ d \in Service

\* The names rec_deps follows: other services, unless they already need the
\* service the walk began with.
Followed(d) ==
  /\ d # Top.srv
  /\ d \in Service
  /\ StartPoint \notin deps[d]

\* A name leaves the set of the running call.
Drop(d) ==
  [stack EXCEPT ![Len(stack)] = [srv |-> Top.srv, left |-> Top.left \ {d}]]

Skip(d) ==
  /\ ~overflow /\ stack # <<>>
  /\ d \in Top.left /\ ~Followed(d)
  /\ stack' = Drop(d)
  /\ UNCHANGED <<direct, deps, todo, overflow>>

\* Mutant: the name that is followed stays in the set.
FollowKeeps(d) ==
  /\ ~overflow /\ stack # <<>>
  /\ d \in Top.left /\ Followed(d)
  /\ IF Len(stack) < MaxDepth
     THEN /\ stack' = Append(stack, [srv |-> d, left |-> deps[d]])
          /\ UNCHANGED overflow
     ELSE /\ overflow' = TRUE
          /\ UNCHANGED stack
  /\ UNCHANGED <<direct, deps, todo>>

\* rec_deps calls itself, or the interpreter refuses to.
Follow(d) ==
  /\ ~overflow /\ stack # <<>>
  /\ d \in Top.left /\ Followed(d)
  /\ IF Len(stack) < MaxDepth
     THEN /\ stack' = Append(Drop(d), [srv |-> d, left |-> deps[d]])
          /\ UNCHANGED overflow
     ELSE /\ overflow' = TRUE
          /\ UNCHANGED stack
  /\ UNCHANGED <<direct, deps, todo>>

\* Mutant: deps.add instead of deps.update, a set in the set.
ReturnAddsSet ==
  /\ ~overflow /\ stack # <<>>
  /\ Top.left = {}
  /\ stack' = SubSeq(stack, 1, Len(stack) - 1)
  /\ deps' = IF Len(stack) = 1 THEN deps
             ELSE [deps EXCEPT ![Caller.srv] = @ \cup {deps[Top.srv]}]
  /\ UNCHANGED <<direct, todo, overflow>>

\* Mutant: the called service gets the names of its caller.
ReturnSwapped ==
  /\ ~overflow /\ stack # <<>>
  /\ Top.left = {}
  /\ stack' = SubSeq(stack, 1, Len(stack) - 1)
  /\ deps' = IF Len(stack) = 1 THEN deps
             ELSE [deps EXCEPT ![Top.srv] = @ \cup deps[Caller.srv]]
  /\ UNCHANGED <<direct, todo, overflow>>

\* rec_deps returns its set, which the caller adds to its own.
Return ==
  /\ ~overflow /\ stack # <<>>
  /\ Top.left = {}
  /\ stack' = SubSeq(stack, 1, Len(stack) - 1)
  /\ deps' = IF Len(stack) = 1 THEN deps
             ELSE [deps EXCEPT ![Caller.srv] = @ \cup deps[Top.srv]]
  /\ UNCHANGED <<direct, todo, overflow>>

DepsNext ==
  \/ \E s \in Service : Visit(s)
  \/ \E d \in Name : Skip(d) \/ Follow(d)
  \/ Return

DepsSpec == DepsInit /\ [][DepsNext]_depsVars /\ WF_depsVars(DepsNext)

\* flat_deps has returned.
Flattened == ~overflow /\ stack = <<>> /\ todo = {}

--------------------------------------------------------------------------------
\* Nothing is invented and nothing the file says is lost, whatever the graph.
DepsSound ==
  \A s \in Service : /\ direct[s] \subseteq deps[s]
                     /\ deps[s] \subseteq Needs(direct, s)

\* Without a cycle the finished sets are the transitive closure.
DepsComplete ==
  Flattened /\ Acyclic(direct) =>
    \A s \in Service : deps[s] = Needs(direct, s)

\* The finished sets say what the file says, no more and no less.
DepsExact == DepsSound /\ DepsComplete

\* ... and ordering the services by the size of their sets starts a service
\* after everything it needs.
SizeOrdersStart ==
  Flattened /\ Acyclic(direct) =>
    \A s \in Service : \A d \in direct[s] \cap Service :
      Cardinality(deps[d]) < Cardinality(deps[s])

\* The walk runs out of stack only when some cycle does not pass through the
\* service it began with: the test on the start point cuts all others.
OverflowNeedsForeignCycle ==
  overflow => ~Acyclic(Without(direct, StartPoint))

\* flat_deps ends, with its sets or with an exception.
FlatDepsEnds == <>(Flattened \/ overflow)
================================================================================
