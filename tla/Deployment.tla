----------------------------- MODULE Deployment -----------------------------
(***************************************************************************)
(* What the gitops update system promises, without saying how: the machine *)
(* follows a branch, and its frontend serves the application only while    *)
(* one complete revision is applied.  GitopsUpdate implements this module. *)
(***************************************************************************)
EXTENDS Integers

CONSTANT LastRev   \* a positive number: the newest revision that is ever pushed

Revisions == 1 .. LastRev
Partial   == 0     \* an update was begun and not completed: no revision
NoTag     == 0     \* the tag file does not exist
BlankTag  == -1    \* the tag file exists and is empty

VARIABLES
  wanted,     \* the head of the branch on the git server
  fetched,    \* the revision in the local checkout
  applied,    \* the revision the machine is configured by, or Partial
  reported,   \* the revision the machine says it runs
  serving     \* TRUE while the frontend passes requests to the application

vars == <<wanted, fetched, applied, reported, serving>>

-----------------------------------------------------------------------------

Init ==
  /\ wanted \in Revisions
  /\ fetched = wanted
  /\ applied = wanted
  /\ reported = NoTag
  /\ serving = TRUE

Publish ==
  /\ wanted' \in Revisions
  /\ UNCHANGED <<fetched, applied, reported, serving>>

Fetch ==
  /\ fetched' = wanted
  /\ UNCHANGED <<wanted, applied, reported, serving>>

Close ==
  /\ serving' = FALSE
  /\ UNCHANGED <<wanted, fetched, applied, reported>>

\* An update starts to change the machine: only behind a closed frontend.
Spoil ==
  /\ ~serving
  /\ applied' = Partial
  /\ UNCHANGED <<wanted, fetched, reported, serving>>

Complete ==
  /\ ~serving
  /\ applied = Partial
  /\ applied' = fetched
  /\ UNCHANGED <<wanted, fetched, reported, serving>>

\* The machine reports nothing but the revision that is completely applied.
Report ==
  /\ applied = fetched
  /\ reported' = fetched
  /\ UNCHANGED <<wanted, fetched, applied, serving>>

\* The report can be lost, it is never replaced by a wrong one.
LoseReport ==
  /\ reported' = BlankTag
  /\ UNCHANGED <<wanted, fetched, applied, serving>>

\* The frontend is opened on the fetched revision, applied and reported.
Open ==
  /\ applied = fetched
  /\ reported = fetched
  /\ serving' = TRUE
  /\ UNCHANGED <<wanted, fetched, applied, reported>>

Next ==
  \/ Publish \/ Fetch \/ Close \/ Spoil
  \/ Complete \/ Report \/ LoseReport \/ Open

Spec == Init /\ [][Next]_vars

=============================================================================
