---------------------------- MODULE FromGitProofs ----------------------------
(* Proofs about FromGit, for every number of sources, commits and faults. *)
EXTENDS FromGit, TLAPS

-----------------------------------------------------------------------------
(* Inductive invariants *)

\* From the fetch on, the script works on a repository of the configured source,
\* and what it fetched is a commit the branch was at since the run began.
PullInv ==
  /\ pc # "idle" => server[runUrl] \in seen
  /\ pc \in {"cloning", "fetch", "checkout", "reset", "submodule"} =>
       dir = "repo" /\ originUrl = runUrl
  /\ pc \in {"checkout", "reset", "submodule"} =>
       tracking \in seen /\ tracking[1] = runUrl
  /\ pc = "submodule" => head = tracking /\ tree = tracking
  /\ dir # "repo" => originUrl = NoUrl
  /\ pc = "create" => dir = "absent"
  /\ pc = "clone" => dir = "empty"
  /\ PulledIsCurrent

\* When no source comes back, a half-removed repository belongs to a former one, or
\* to the source itself after its origin could not be read.
DamageInv ==
  /\ runUrl <= srcUrl
  /\ originUrl <= runUrl
  /\ ~whole => dir = "repo" /\ (originUrl < runUrl \/ mistaken)
  /\ pc # "idle" => outcome = "none"
  /\ FaultFreePullSucceeds

-----------------------------------------------------------------------------

\* The initial state is well-typed.
LEMMA TypeInit == Init => TypeOK
<1> SUFFICES ASSUME Init PROVE TypeOK
  OBVIOUS
<1>1. server \in [Urls -> Commits] /\ \A u \in Urls : server[u][1] = u
  BY ConstantsAssumption DEF Init, Urls, Commits
<1>2. srcUrl \in Urls /\ runUrl \in Urls
  BY ConstantsAssumption DEF Init, Urls
<1>3. installed \in BOOLEAN /\ whole \in BOOLEAN /\ clean \in BOOLEAN
  BY DEF Init
<1>4. faults \in 0 .. MaxFaults
  BY ConstantsAssumption DEF Init
<1>5. {tracking, head, tree, subs} \subseteq Commits \cup {NoCommit}
  BY DEF Init
<1>6. /\ dir \in {"absent", "empty", "repo"}
      /\ originUrl \in Urls \cup {NoUrl}
      /\ pc \in Labels
      /\ outcome \in Outcomes
      /\ seen \subseteq Commits
  BY DEF Init, Labels, Outcomes
<1>7. mistaken \in BOOLEAN
  BY DEF Init
<1> QED
  BY <1>1, <1>2, <1>3, <1>4, <1>5, <1>6, <1>7 DEF TypeOK

\* Every step keeps the types; a fetch needs to know that there is an origin.
LEMMA TypeStep == TypeOK /\ PullInv /\ [Next]_vars => TypeOK'
<1> SUFFICES ASSUME TypeOK, PullInv, [Next]_vars PROVE TypeOK'
  OBVIOUS
<1> USE ConstantsAssumption DEF TypeOK, outside, repo, files, run, bound, history
<1>1. CASE Push
  <2> PICK u \in Urls, n \in 1 .. LastCommit :
        /\ server' = [server EXCEPT ![u] = <<u, n>>]
        /\ seen' = IF u = runUrl THEN seen \cup {<<u, n>>} ELSE seen
        /\ UNCHANGED <<srcUrl, installed, repo, files, run, mistaken, clean, faults>>
    BY <1>1 DEF Push
  <2>1. <<u, n>> \in Commits
    BY DEF Commits
  <2>2. server' \in [Urls -> Commits] /\ \A w \in Urls : server'[w][1] = w
    BY <2>1
  <2>3. seen' \subseteq Commits
    BY <2>1
  <2> QED
    BY <2>2, <2>3
<1>2. CASE ChangeSource
  BY <1>2 DEF ChangeSource
<1>3. CASE StartByHand
  BY <1>3 DEF StartByHand, Begin, Labels, Outcomes
<1>4. CASE StartByUpdate
  <2>1. seen' \subseteq Commits
    BY <1>4 DEF StartByUpdate, Begin
  <2> QED
    BY <1>4, <2>1 DEF StartByUpdate, Begin, Labels, Outcomes
<1>5. CASE Check
  <2>1. faults' \in 0 .. MaxFaults
    BY <1>5 DEF Check, Fault
  <2>2. clean' \in BOOLEAN /\ seen' \subseteq Commits
    BY <1>5 DEF Check, Fault
  <2> QED
    BY <1>5, <2>1, <2>2 DEF Check, Goto, Labels
<1>6. CASE RemoveBegins
  BY <1>6 DEF RemoveBegins, Goto, Labels
<1>7. CASE RemoveEnds
  BY <1>7 DEF RemoveEnds, Goto, Wiped, NoRepository, Labels
<1>8. CASE CreateDir
  BY <1>8 DEF CreateDir, Goto, Labels
<1>9. CASE CloneBegins
  BY <1>9 DEF CloneBegins, Goto, Labels
<1>10. CASE CloneEnds
  BY <1>10 DEF CloneEnds, Goto, Labels, Urls, NoUrl
<1>11. CASE CloneFails
  <2>1. faults' \in 0 .. MaxFaults
    BY <1>11 DEF CloneFails, Fault
  <2> QED
    BY <1>11, <2>1
    DEF CloneFails, Fault, Exit, Wiped, NoRepository, Labels, Outcomes
<1>12. CASE Fetch
  BY <1>12 DEF Fetch, Usable, Goto, Labels, PullInv
<1>13. CASE Checkout
  BY <1>13 DEF Checkout, Usable, Goto, Labels
<1>14. CASE Reset
  BY <1>14 DEF Reset, Usable, Goto, Labels
<1>15. CASE UpdateSubmodules
  BY <1>15 DEF UpdateSubmodules, Usable, Exit, Labels, Outcomes
<1>16. CASE CommandFails
  <2>1. faults' \in 0 .. MaxFaults
    BY <1>16 DEF CommandFails, Fails, Fault
  <2>2. clean' \in BOOLEAN
    BY <1>16 DEF CommandFails, Fails, Fault
  <2>3. {tree', subs'} \subseteq Commits \cup {NoCommit}
    BY <1>16 DEF CommandFails, TornFiles
  <2>4. seen' \subseteq Commits
    BY <1>16 DEF CommandFails, Fails, Fault
  <2> QED
    BY <1>16, <2>1, <2>2, <2>3, <2>4 DEF CommandFails, Exit, Labels, Outcomes
<1>17. CASE Interrupt
  <2>1. faults' \in 0 .. MaxFaults
    BY <1>17 DEF Interrupt, Fault
  <2>2. clean' \in BOOLEAN /\ seen' \subseteq Commits
    BY <1>17 DEF Interrupt, Fault
  <2>3. {tracking', head', tree', subs'} \subseteq Commits \cup {NoCommit}
    BY <1>17 DEF Interrupt, TornFiles, Wiped, NoRepository
  <2>4. /\ dir' \in {"absent", "empty", "repo"}
        /\ originUrl' \in Urls \cup {NoUrl}
        /\ whole' \in BOOLEAN /\ mistaken' \in BOOLEAN
    BY <1>17 DEF Interrupt, TornFiles, Wiped, NoRepository
  <2> QED
    BY <1>17, <2>1, <2>2, <2>3, <2>4 DEF Interrupt, Exit, Labels, Outcomes
<1>18. CASE UNCHANGED vars
  BY <1>18 DEF vars
<1> QED
  BY <1>1, <1>2, <1>3, <1>4, <1>5, <1>6, <1>7, <1>8, <1>9, <1>10, <1>11,
     <1>12, <1>13, <1>14, <1>15, <1>16, <1>17, <1>18
  DEF Next, Environment, Script

-----------------------------------------------------------------------------
(* What a successful pull delivers *)

\* Each step leaves the pull on the configured source.
LEMMA PullStep == TypeOK /\ PullInv /\ [Next]_vars => PullInv'
<1> SUFFICES ASSUME TypeOK, PullInv, [Next]_vars PROVE PullInv'
  OBVIOUS
<1> USE DEF PullInv, PulledIsCurrent, outside, repo, files, run, bound, history
<1>1. CASE Push
  <2> PICK u \in Urls, n \in 1 .. LastCommit :
        /\ server' = [server EXCEPT ![u] = <<u, n>>]
        /\ seen' = IF u = runUrl THEN seen \cup {<<u, n>>} ELSE seen
        /\ UNCHANGED <<srcUrl, installed, repo, files, run, mistaken, clean, faults>>
    BY <1>1 DEF Push
  <2>1. runUrl \in Urls /\ server \in [Urls -> Commits]
    BY DEF TypeOK
  <2>2. server[runUrl] \in seen => server'[runUrl] \in seen'
    BY <2>1
  <2> QED
    BY <2>2
<1>2. CASE ChangeSource
  BY <1>2 DEF ChangeSource, TypeOK
<1>3. CASE StartByHand
  BY <1>3 DEF StartByHand, Begin, TypeOK
<1>4. CASE StartByUpdate
  BY <1>4 DEF StartByUpdate, Begin, TypeOK
<1>5. CASE Check
  BY <1>5 DEF Check, Goto, Fault, TypeOK, Urls, NoUrl
<1>6. CASE RemoveBegins
  BY <1>6 DEF RemoveBegins, Goto
<1>7. CASE RemoveEnds
  BY <1>7 DEF RemoveEnds, Goto, Wiped, NoRepository
<1>8. CASE CreateDir
  BY <1>8 DEF CreateDir, Goto
<1>9. CASE CloneBegins
  BY <1>9 DEF CloneBegins, Goto
<1>10. CASE CloneEnds
  BY <1>10 DEF CloneEnds, Goto, TypeOK
<1>11. CASE CloneFails
  BY <1>11 DEF CloneFails, Fault, Exit, Wiped, NoRepository
<1>12. CASE Fetch
  BY <1>12 DEF Fetch, Usable, Goto, TypeOK
<1>13. CASE Checkout
  BY <1>13 DEF Checkout, Usable, Goto
<1>14. CASE Reset
  BY <1>14 DEF Reset, Usable, Goto
<1>15. CASE UpdateSubmodules
  BY <1>15 DEF UpdateSubmodules, Usable, Exit
<1>16. CASE CommandFails
  BY <1>16 DEF CommandFails, Fails, Usable, Fault, Exit, TornFiles
<1>17. CASE Interrupt
  BY <1>17 DEF Interrupt, Fault, Exit, TornFiles, Wiped, NoRepository
<1>18. CASE UNCHANGED vars
  BY <1>18 DEF vars
<1> QED
  BY <1>1, <1>2, <1>3, <1>4, <1>5, <1>6, <1>7, <1>8, <1>9, <1>10, <1>11,
     <1>12, <1>13, <1>14, <1>15, <1>16, <1>17, <1>18
  DEF Next, Environment, Script

\* The two invariants together are inductive.
LEMMA PullHolds == Spec => [](TypeOK /\ PullInv)
<1>1. Init => PullInv
  BY DEF Init, PullInv, PulledIsCurrent
<1> QED
  BY <1>1, TypeInit, TypeStep, PullStep, PTL DEF Spec

\* Every variable keeps its type.
THEOREM TypeCorrect == Spec => []TypeOK
<1> QED
  BY PullHolds, PTL

\* A successful pull leaves one current commit of the configured source in HEAD,
\* working tree and submodules.
THEOREM PulledCommit == Spec => []PulledIsCurrent
<1>1. PullInv => PulledIsCurrent
  BY DEF PullInv
<1> QED
  BY <1>1, PullHolds, PTL

-----------------------------------------------------------------------------
(* Recovery *)

\* The damage stays behind the source the script works on.
LEMMA DamageStep ==
  ASSUME Returns = FALSE, TypeOK, PullInv, DamageInv, [Next]_vars
  PROVE  DamageInv'
<1> USE ConstantsAssumption
    DEF DamageInv, FaultFreePullSucceeds, outside, repo, files, run,
        bound, history,
        TypeOK, Urls, NoUrl
<1>1. CASE Push
  BY <1>1 DEF Push
<1>2. CASE ChangeSource
  BY <1>2 DEF ChangeSource
<1>3. CASE StartByHand
  BY <1>3 DEF StartByHand, Begin
<1>4. CASE StartByUpdate
  BY <1>4 DEF StartByUpdate, Begin
<1>5. CASE Check
  BY <1>5 DEF Check, Goto, Fault, PullInv
<1>6. CASE RemoveBegins
  BY <1>6 DEF RemoveBegins, Goto
<1>7. CASE RemoveEnds
  BY <1>7 DEF RemoveEnds, Goto, Wiped, NoRepository
<1>8. CASE CreateDir
  BY <1>8 DEF CreateDir, Goto, PullInv
<1>9. CASE CloneBegins
  BY <1>9 DEF CloneBegins, Goto, PullInv
<1>10. CASE CloneEnds
  BY <1>10 DEF CloneEnds, Goto
<1>11. CASE CloneFails
  BY <1>11 DEF CloneFails, Fault, Exit, Wiped, NoRepository
<1>12. CASE Fetch
  BY <1>12 DEF Fetch, Usable, Goto
<1>13. CASE Checkout
  BY <1>13 DEF Checkout, Usable, Goto
<1>14. CASE Reset
  BY <1>14 DEF Reset, Usable, Goto
<1>15. CASE UpdateSubmodules
  BY <1>15 DEF UpdateSubmodules, Usable, Exit
<1>16. CASE CommandFails
  BY <1>16 DEF CommandFails, Fails, Usable, Fault, Exit, TornFiles, PullInv
<1>17. CASE Interrupt
  BY <1>17 DEF Interrupt, Fault, Exit, TornFiles, Wiped, NoRepository
<1>18. CASE UNCHANGED vars
  BY <1>18 DEF vars
<1> QED
  BY <1>1, <1>2, <1>3, <1>4, <1>5, <1>6, <1>7, <1>8, <1>9, <1>10, <1>11,
     <1>12, <1>13, <1>14, <1>15, <1>16, <1>17, <1>18
  DEF Next, Environment, Script

\* When no source comes back, a pull that meets no fault succeeds, whatever the
\* interrupted pulls before it left behind, unless one of them removed a repository
\* of the source itself.
THEOREM PullRecovers ==
  ASSUME Returns = FALSE
  PROVE  Spec => []FaultFreePullSucceeds
<1>1. Init => DamageInv
  BY DEF Init, DamageInv, FaultFreePullSucceeds, NoUrl
<1>2. TypeOK /\ PullInv /\ DamageInv /\ [Next]_vars => DamageInv'
  BY DamageStep
<1>3. DamageInv => FaultFreePullSucceeds
  BY DEF DamageInv
<1> QED
  BY <1>1, <1>2, <1>3, PullHolds, PTL DEF Spec

=============================================================================
