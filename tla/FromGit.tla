------------------------------- MODULE FromGit -------------------------------
(***************************************************************************)
(* from-git.sh, pull_latest_src: one pull after another into one checkout, *)
(* by hand or by gitops-update.sh, which reads HEAD before (line 44) and   *)
(* after (line 47).  The git commands run through setpriv here: where gosu *)
(* is installed, they fail (see GitopsUpdate).                             *)
(*                                                                         *)
(* A commit is a pair of the repository it comes from and a number.        *)
(***************************************************************************)
EXTENDS Integers

CONSTANTS
  LastUrl,      \* the sources that are configured one after another: 1..LastUrl
  LastCommit,   \* the commits of the branch in each source: 1..LastCommit
  MaxFaults,    \* bound: failing commands, kills and crashes of a behaviour
  Returns       \* TRUE: a source that was replaced may be configured again

ASSUME ConstantsAssumption ==
  /\ LastUrl \in Nat \ {0}
  /\ LastCommit \in Nat \ {0}
  /\ MaxFaults \in Nat
  /\ Returns \in BOOLEAN

Urls     == 1 .. LastUrl
NoUrl    == 0              \* git config finds no remote.origin.url
Commits  == Urls \X (1 .. LastCommit)
NoCommit == <<NoUrl, 0>>   \* none, or a mixture of several

Labels ==
  {"idle", "check", "remove", "removing", "create", "clone", "cloning",
   "fetch", "checkout", "reset", "submodule"}

Outcomes == {"none", "ok", "failed", "nohead", "killed"}

VARIABLES
  server,      \* the head of the branch in each source
  srcUrl,      \* src_url in the environment of the unit
  \* on disk
  dir,         \* target_dir: absent, empty or repo
  originUrl,   \* remote.origin.url in the repository
  whole,       \* FALSE: the repository is half removed
  tracking,    \* origin/branch
  head,        \* HEAD
  tree,        \* the commit the files of the working tree are from
  subs,        \* the commit the submodules are checked out for
  installed,   \* the update unit exists: a first pull succeeded
  \* the run
  pc, runUrl,  \* the line the script is at, and its parameter --url
  outcome,     \* how the last run ended
  \* history and bound
  mistaken,    \* rm -r has begun on a repository of the source itself
  seen,        \* the heads of the branch since the run began
  clean,       \* no fault since the run began
  faults

outside == <<server, srcUrl, installed>>
repo    == <<dir, originUrl, whole, tracking, head>>
files   == <<tree, subs>>
run     == <<pc, runUrl, outcome>>
bound   == <<seen, clean, faults>>
history == <<mistaken, bound>>
vars    == <<outside, repo, files, run, history>>

-----------------------------------------------------------------------------
(* Helpers *)

Fault ==
  /\ faults < MaxFaults
  /\ faults' = faults + 1
  /\ clean' = FALSE
  /\ UNCHANGED seen

Usable == dir = "repo" /\ whole

\* A command fails by a fault, or because there is no sound repository.
Fails == IF Usable THEN Fault ELSE UNCHANGED bound

Goto(label) == pc' = label /\ UNCHANGED <<runUrl, outcome>>

Exit(how) == pc' = "idle" /\ outcome' = how /\ UNCHANGED runUrl

\* No repository, in a directory that exists or does not.
NoRepository ==
  /\ originUrl' = NoUrl
  /\ whole' = TRUE
  /\ tracking' = NoCommit
  /\ head' = NoCommit
  /\ mistaken' = FALSE

Wiped == NoRepository /\ tree' = NoCommit /\ subs' = NoCommit

-----------------------------------------------------------------------------

Init ==
  /\ server = [u \in Urls |-> <<u, 1>>]
  /\ srcUrl = 1 /\ installed = FALSE
  /\ dir = "absent" /\ originUrl = NoUrl /\ whole = TRUE
  /\ tracking = NoCommit /\ head = NoCommit
  /\ tree = NoCommit /\ subs = NoCommit
  /\ pc = "idle" /\ runUrl = 1 /\ outcome = "none"
  /\ mistaken = FALSE /\ seen = {} /\ clean = TRUE /\ faults = 0

\* Somebody pushes to a source, by force or not.
Push ==
  \E u \in Urls : \E n \in 1 .. LastCommit :
    /\ <<u, n>> # server[u]
    /\ server' = [server EXCEPT ![u] = <<u, n>>]
    /\ seen' = IF u = runUrl THEN seen \cup {<<u, n>>} ELSE seen
    /\ UNCHANGED <<srcUrl, installed, repo, files, run, mistaken, clean, faults>>

\* A highstate writes another settings.git.source into the environment file.
ChangeSource ==
  /\ \E u \in Urls \ {srcUrl} : (Returns \/ u > srcUrl) /\ srcUrl' = u
  /\ UNCHANGED <<server, installed, repo, files, run, history>>

\* Mutant: the URL is taken from the repository that is there.
BeginOrigin(label, how) ==
  /\ pc' = label
  /\ runUrl' = originUrl
  /\ outcome' = how
  /\ seen' = {server[srcUrl]}
  /\ clean' = TRUE
  /\ UNCHANGED <<mistaken, faults>>

Begin(label, how) ==
  /\ pc' = label
  /\ runUrl' = srcUrl
  /\ outcome' = how
  /\ seen' = {server[srcUrl]}
  /\ clean' = TRUE
  /\ UNCHANGED <<mistaken, faults>>

\* from-git.sh bootstrap or pull, by hand.
StartByHand ==
  /\ pc = "idle"
  /\ Begin("check", "none")
  /\ UNCHANGED <<outside, repo, files>>

\* gitops-update.sh reads HEAD first, and ends when there is none.
StartByUpdate ==
  /\ pc = "idle" /\ installed
  /\ IF head = NoCommit THEN Begin("idle", "nohead") ELSE Begin("check", "none")
  /\ UNCHANGED <<outside, repo, files>>

-----------------------------------------------------------------------------
(* The directory and its origin *)

\* Mutant: a missing origin is taken for the same one.
CheckInvalidIsSame ==
  /\ pc = "check"
  /\ \/ dir = "absent" /\ Goto("create") /\ UNCHANGED bound
     \/ /\ dir # "absent" /\ originUrl \notin {NoUrl, runUrl}
        /\ Goto("remove") /\ UNCHANGED bound
     \/ /\ dir # "absent" /\ originUrl \in {NoUrl, runUrl}
        /\ Goto("fetch") /\ UNCHANGED bound
     \/ dir # "absent" /\ originUrl = runUrl /\ Fault /\ Goto("remove")
  /\ UNCHANGED <<outside, repo, files, mistaken>>

\* A missing origin reads as "invalid", which is no URL, and so does any origin
\* when git config fails.
Check ==
  /\ pc = "check"
  /\ \/ dir = "absent" /\ Goto("create") /\ UNCHANGED bound
     \/ dir # "absent" /\ originUrl # runUrl /\ Goto("remove") /\ UNCHANGED bound
     \/ dir # "absent" /\ originUrl = runUrl /\ Goto("fetch") /\ UNCHANGED bound
     \/ dir # "absent" /\ originUrl = runUrl /\ Fault /\ Goto("remove")
  /\ UNCHANGED <<outside, repo, files, mistaken>>

\* rm -r has removed some files, the configuration and HEAD maybe among them.
RemoveBegins ==
  /\ pc = "remove"
  /\ Goto("removing")
  /\ originUrl' \in {originUrl, NoUrl}
  /\ head' \in {head, NoCommit}
  /\ whole' = (dir # "repo")
  /\ tree' = NoCommit /\ subs' = NoCommit
  /\ mistaken' = (originUrl = runUrl)
  /\ UNCHANGED <<outside, dir, tracking, bound>>

RemoveEnds ==
  /\ pc = "removing"
  /\ Goto("create")
  /\ dir' = "absent"
  /\ Wiped
  /\ UNCHANGED <<outside, bound>>

\* install -d
CreateDir ==
  /\ pc = "create"
  /\ Goto("clone")
  /\ dir' = "empty"
  /\ UNCHANGED <<outside, originUrl, whole, tracking, head, files, history>>

\* git clone writes the configuration first.
CloneBegins ==
  /\ pc = "clone"
  /\ Goto("cloning")
  /\ dir' = "repo"
  /\ originUrl' = runUrl
  /\ UNCHANGED <<outside, whole, tracking, head, files, history>>

CloneEnds ==
  /\ pc = "cloning"
  /\ Goto("fetch")
  /\ tracking' = server[runUrl]
  /\ head' = server[runUrl]
  /\ tree' = server[runUrl]
  /\ UNCHANGED <<outside, dir, originUrl, whole, subs, history>>

\* git removes what it wrote, the directory was there before.
CloneFails ==
  /\ pc = "cloning"
  /\ Fault
  /\ Exit("failed")
  /\ dir' = "empty"
  /\ Wiped
  /\ UNCHANGED outside

-----------------------------------------------------------------------------
(* The branch *)

Fetch ==
  /\ pc = "fetch" /\ Usable
  /\ Goto("checkout")
  /\ tracking' = server[originUrl]
  /\ UNCHANGED <<outside, dir, originUrl, whole, head, files, history>>

\* The local branch, which is created at origin/branch when there is none.
Checkout ==
  /\ pc = "checkout" /\ Usable
  /\ Goto("reset")
  /\ head' = IF head = NoCommit THEN tracking ELSE head
  /\ tree' = head'
  /\ UNCHANGED <<outside, dir, originUrl, whole, tracking, subs, history>>

\* Mutant: the local branch is reset to itself.
ResetLocal ==
  /\ pc = "reset" /\ Usable
  /\ Goto("submodule")
  /\ tree' = head
  /\ UNCHANGED <<outside, repo, subs, history>>

Reset ==
  /\ pc = "reset" /\ Usable
  /\ Goto("submodule")
  /\ head' = tracking
  /\ tree' = tracking
  /\ UNCHANGED <<outside, dir, originUrl, whole, tracking, subs, history>>

UpdateSubmodules ==
  /\ pc = "submodule" /\ Usable
  /\ Exit("ok")
  /\ subs' = head
  /\ installed' = TRUE
  /\ UNCHANGED <<server, srcUrl, repo, tree, history>>

\* What is on the disk when a git command stops half-way.
TornFiles ==
  /\ tree' \in IF pc \in {"checkout", "reset"} THEN {tree, NoCommit} ELSE {tree}
  /\ subs' \in IF pc = "submodule" THEN {subs, NoCommit} ELSE {subs}

CommandFails ==
  /\ pc \in {"fetch", "checkout", "reset", "submodule"}
  /\ Fails
  /\ Exit("failed")
  /\ TornFiles
  /\ UNCHANGED <<outside, repo, mistaken>>

\* The unit is killed or the machine crashes; git cleans up an interrupted clone
\* unless it had no time to.
Interrupt ==
  /\ pc # "idle"
  /\ Fault
  /\ Exit("killed")
  /\ \/ TornFiles /\ UNCHANGED <<repo, mistaken>>
     \/ pc = "cloning" /\ dir' = "empty" /\ Wiped
  /\ UNCHANGED outside

-----------------------------------------------------------------------------

Environment == Push \/ ChangeSource \/ StartByHand \/ StartByUpdate

Script ==
  \/ Check \/ RemoveBegins \/ RemoveEnds \/ CreateDir
  \/ CloneBegins \/ CloneEnds \/ CloneFails
  \/ Fetch \/ Checkout \/ Reset \/ UpdateSubmodules \/ CommandFails

Next == Environment \/ Script \/ Interrupt

Spec == Init /\ [][Next]_vars

-----------------------------------------------------------------------------
(* Properties *)

\* The types of the variables: HEAD, origin/branch and the tree are commits of
\* a source or none.
TypeOK ==
  /\ server \in [Urls -> Commits]
  /\ \A u \in Urls : server[u][1] = u
  /\ srcUrl \in Urls
  /\ installed \in BOOLEAN
  /\ dir \in {"absent", "empty", "repo"}
  /\ originUrl \in Urls \cup {NoUrl}
  /\ whole \in BOOLEAN
  /\ {tracking, head, tree, subs} \subseteq Commits \cup {NoCommit}
  /\ pc \in Labels
  /\ runUrl \in Urls
  /\ outcome \in Outcomes
  /\ mistaken \in BOOLEAN
  /\ seen \subseteq Commits
  /\ clean \in BOOLEAN
  /\ faults \in 0 .. MaxFaults

\* A pull that succeeds leaves one commit in HEAD, working tree and submodules: one
\* that the branch of the configured source was at since the pull began, and not
\* one of a former source or of a former pull.
PulledIsCurrent ==
  pc = "idle" /\ outcome = "ok" =>
    head \in seen /\ head[1] = runUrl /\ tree = head /\ subs = head

\* Whatever the runs before it left behind, a pull that meets no fault succeeds,
\* but for one case: git config failed once on the repository of the source itself,
\* which line 125 takes for another source, and the removal was interrupted while
\* the configuration was still there.
FaultFreePullSucceeds == outcome = "failed" => ~clean \/ mistaken

-----------------------------------------------------------------------------
(* What a text of the repository says and the code does not do *)

\* from-git.sh:127 "Warning: new/different upstream source, will re-clone.": an
\* update run that meets no fault pulls, also from a new source.
FaultFreeUpdateSucceeds == outcome \in {"failed", "nohead"} => ~clean

\* The same without the case that FaultFreePullSucceeds excepts: from-git.sh:125
\* means "invalid" for a directory that is no repository of the source.
FaultFreePullAlwaysSucceeds == outcome = "failed" => ~clean

=============================================================================
