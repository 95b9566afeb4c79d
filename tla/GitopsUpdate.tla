---------------------------- MODULE GitopsUpdate ----------------------------
(***************************************************************************)
(* One run after another of app/gitops/gitops-update.sh, with the helpers  *)
(* of gitops-library.sh that it calls, the systemd unit, timer and webhook *)
(* that start it, the git server it pulls from and the administrator.      *)
(*                                                                         *)
(* The script runs with "set -eo pipefail": a command that fails outside   *)
(* of a condition ends the run at once.  Commands fail, the unit is killed *)
(* (TimeoutStartSec) and the machine crashes only while the fault budget   *)
(* MaxFaults lasts.                                                        *)
(***************************************************************************)
EXTENDS Integers

CONSTANTS
  LastRev,           \* revisions are 1..LastRev, in the order of the history
  MaxFaults,         \* bound: failures, kills and crashes of a behaviour
  Rewinds,           \* TRUE: the branch may be force-pushed to an older revision
  AttendedRevs,      \* revisions whose pillar sets update.unattended_reboot: false
  TimerEnabled,      \* settings.timer.enabled
  WebhookEnabled,    \* settings.webhook.enabled
  DsnConfigured,     \* FALSE: no usable sentry DSN, each call of sentrycat.py fails
  RebootsNeeded,     \* TRUE: packages may create /run/reboot-required
  GosuInstalled,     \* TRUE: "which gosu" finds the program
  AdminFlags         \* the flags the administrator sets and deletes

ASSUME ConstantsAssumption ==
  /\ LastRev \in Nat \ {0}
  /\ MaxFaults \in Nat
  /\ AttendedRevs \subseteq 1 .. LastRev
  /\ {Rewinds, TimerEnabled, WebhookEnabled, DsnConfigured, RebootsNeeded,
      GosuInstalled} \subseteq BOOLEAN
  /\ AdminFlags \subseteq {"failed", "force", "disabled"}

Revisions == 1 .. LastRev
Partial   == 0     \* applied: an update_cmd ran and did not succeed
NoTag     == 0     \* get_tag finds no file and returns its default
BlankTag  == -1    \* the file exists and is empty

Steps == {"validate", "before", "update", "after", "finish"}

\* gitops.update.failed, .force, .disabled, and reboot.unattended.disabled.
Flags == {"failed", "force", "disabled", "attended"}

Labels ==
  {"idle", "flags", "pull", "decide", "validate", "maintenance", "before",
   "update", "updating", "tag", "tag_failed", "after", "error", "report",
   "reboot", "slot", "finish", "clear", "ready", "exit"}

ExitCodes ==
  {"none", "ok", "refused", "disabled", "pull", "render", "sentry", "step",
   "killed"}

VARIABLES
  \* outside of the machine
  remote,          \* head of the branch at the git server
  hook,            \* TRUE while a webhook request is on its way
  \* on disk
  head,            \* HEAD of src_dir
  currentRev,      \* tag gitops_current_rev
  failedRev,       \* tag gitops_failed_rev
  flags,           \* the files in var_dir/flags
  page,            \* the maintenance page: none, blank, maintenance or error
  applied,         \* the revision the machine is configured by, or Partial
  \* volatile
  rebootRequired,  \* /run/reboot-required exists
  stopped,         \* services that before_cmd stopped are down
  rebooting,       \* systemctl reboot was called
  \* the run
  pc,              \* the line the script is at
  origin,          \* current_origin_rev
  result,          \* the step whose status is in $result, or ok
  restart,         \* need_service_restart
  exitCode,        \* how the last run ended
  \* history and bound
  redo,            \* a run began again on a revision that was tagged as current
  faults

outside  == <<remote, hook>>
disk     == <<head, currentRev, failedRev, flags, page, applied>>
volatile == <<rebootRequired, stopped, rebooting>>
run      == <<pc, origin, result, restart, exitCode>>
vars     == <<outside, disk, volatile, run, redo, faults>>

-----------------------------------------------------------------------------
(* Helpers *)

Fault == faults < MaxFaults /\ faults' = faults + 1

\* sentry_entry under set -e: its status is the status of sentrycat.py.
SentryDelivers == DsnConfigured /\ UNCHANGED faults
SentryFails    == IF DsnConfigured THEN Fault ELSE UNCHANGED faults

\* The shell function gosu calls itself where it means the program, without end.
GitFails == IF GosuInstalled THEN UNCHANGED faults ELSE Fault

\* The end of the process: the shell variables are gone.
Exit(code) ==
  /\ pc' = "idle"
  /\ exitCode' = code
  /\ origin' = NoTag
  /\ result' = "ok"
  /\ restart' = FALSE

Goto(label) == pc' = label /\ UNCHANGED <<origin, result, restart, exitCode>>

\* {{ cmd }} && result=$? || result=$?
CmdSucceeds(label) == Goto(label) /\ UNCHANGED faults
\* Mutant: the status of the command is not kept.
CmdFailsUnseen(step, label) ==
  /\ Fault
  /\ pc' = label
  /\ UNCHANGED <<origin, result, restart, exitCode>>

CmdFails(step, label) ==
  /\ Fault
  /\ result' = step
  /\ pc' = label
  /\ UNCHANGED <<origin, restart, exitCode>>

\* The highstate of rev manages flags/reboot.unattended.disabled.
FlagsOf(rev) ==
  IF rev \in AttendedRevs THEN flags \cup {"attended"} ELSE flags \ {"attended"}

-----------------------------------------------------------------------------
(* The bootstrapped machine: revision 1 was applied by hand, without tags. *)

Init ==
  /\ remote = 1 /\ head = 1 /\ applied = 1
  /\ hook = FALSE
  /\ currentRev = NoTag /\ failedRev = NoTag
  /\ flags = IF 1 \in AttendedRevs THEN {"attended"} ELSE {}
  /\ page = "none"
  /\ rebootRequired = FALSE /\ stopped = FALSE /\ rebooting = FALSE
  /\ pc = "idle" /\ origin = NoTag /\ result = "ok" /\ restart = FALSE
  /\ exitCode = "none"
  /\ redo = FALSE
  /\ faults = 0

-----------------------------------------------------------------------------
(* Environment: git server, triggers, administrator, packages *)

Push ==
  /\ \E r \in Revisions \ {remote} : (Rewinds \/ r > remote) /\ remote' = r
  /\ hook' = WebhookEnabled
  /\ UNCHANGED <<disk, volatile, run, redo, faults>>

\* systemctl start: a job for an inactive unit begins a run; a job for a unit
\* that is activating is merged into the running one; while the machine goes
\* down the job is refused.
StartJob ==
  IF pc = "idle" /\ ~rebooting
  THEN Goto("flags")
  ELSE UNCHANGED run

WebhookStarts ==
  /\ hook
  /\ hook' = FALSE
  /\ StartJob
  /\ UNCHANGED <<remote, disk, volatile, redo, faults>>

TimerFires ==
  /\ TimerEnabled
  /\ StartJob
  /\ UNCHANGED <<outside, disk, volatile, redo, faults>>

AdminStarts ==
  /\ StartJob
  /\ UNCHANGED <<outside, disk, volatile, redo, faults>>

AdminSetsFlag ==
  /\ \E f \in AdminFlags \ flags : flags' = flags \cup {f}
  /\ UNCHANGED <<outside, head, currentRev, failedRev, page, applied, volatile,
                 run, redo, faults>>

AdminClearsFlag ==
  /\ \E f \in AdminFlags \cap flags : flags' = flags \ {f}
  /\ UNCHANGED <<outside, head, currentRev, failedRev, page, applied, volatile,
                 run, redo, faults>>

PackageNeedsReboot ==
  /\ RebootsNeeded /\ ~rebootRequired
  /\ rebootRequired' = TRUE
  /\ UNCHANGED <<outside, disk, stopped, rebooting, run, redo, faults>>

-----------------------------------------------------------------------------
(* gitops-update.sh: flags, source and the decision to update *)

RefuseFailed ==
  /\ pc = "flags"
  /\ "failed" \in flags /\ "force" \notin flags
  /\ Exit("refused")
  /\ UNCHANGED <<outside, disk, volatile, redo, faults>>

\* failed is deleted when force is set, and only then disabled is looked at.
CheckFlags ==
  /\ pc = "flags"
  /\ "failed" \in flags => "force" \in flags
  /\ flags' = flags \ {"failed"}
  /\ IF "disabled" \in flags THEN Exit("disabled") ELSE Goto("pull")
  /\ UNCHANGED <<outside, head, currentRev, failedRev, page, applied, volatile,
                 redo, faults>>

\* Mutant: the revision before the pull is kept as the latest one.
PullKeepsOrigin ==
  /\ pc = "pull" /\ ~GosuInstalled
  /\ pc' = "decide"
  /\ origin' = head
  /\ head' = origin
  /\ UNCHANGED <<outside, currentRev, failedRev, flags, page, applied, volatile,
                 result, restart, exitCode, redo, faults>>

\* from-git.sh pull: fetch, checkout, reset --hard, submodule update.
Pull ==
  /\ pc = "pull" /\ ~GosuInstalled
  /\ pc' = "decide"
  /\ origin' = head
  /\ head' = remote
  /\ UNCHANGED <<outside, currentRev, failedRev, flags, page, applied, volatile,
                 result, restart, exitCode, redo, faults>>

\* A failed submodule update leaves the new HEAD behind, a failed fetch or a
\* rev-parse through gosu does not.
PullFails ==
  /\ pc = "pull"
  /\ GitFails
  /\ head' \in IF GosuInstalled THEN {head} ELSE {head, remote}
  /\ Exit("pull")
  /\ UNCHANGED <<outside, currentRev, failedRev, flags, page, applied, volatile,
                 redo>>

\* Mutants: the tag, or the force flag, is not looked at.
UpdateWantedNewHead == head # origin \/ "force" \in flags
UpdateWantedNoForce == head # origin \/ head # currentRev

UpdateWanted == head # origin \/ head # currentRev \/ "force" \in flags

NothingToDo ==
  /\ pc = "decide"
  /\ ~UpdateWanted
  /\ Goto("reboot")
  /\ UNCHANGED <<outside, disk, volatile, redo, faults>>

\* The force request is gone from here on, whatever becomes of the run.
BeginUpdate ==
  /\ pc = "decide"
  /\ UpdateWanted
  /\ flags' = flags \ {"force"}
  /\ redo' = (redo \/ head = currentRev)
  /\ Goto("validate")
  /\ UNCHANGED <<outside, head, currentRev, failedRev, page, applied, volatile,
                 faults>>

-----------------------------------------------------------------------------
(* gitops-update.sh: validate, before, update, after *)

Validate ==
  /\ pc = "validate"
  /\ CmdSucceeds("maintenance") \/ CmdFails("validate", "error")
  /\ UNCHANGED <<outside, disk, volatile, redo>>

ShowMaintenance ==
  /\ pc = "maintenance"
  /\ page' = "maintenance"
  /\ restart' = TRUE
  /\ pc' = "before"
  /\ UNCHANGED <<outside, head, currentRev, failedRev, flags, applied, volatile,
                 origin, result, exitCode, redo, faults>>

\* jinja2 ... > resultfile: the shell empties the file before jinja2 fails.
RenderFails ==
  /\ pc \in {"maintenance", "error"}
  /\ Fault
  /\ page' = "blank"
  /\ Exit("render")
  /\ UNCHANGED <<outside, head, currentRev, failedRev, flags, applied, volatile,
                 redo>>

RunBefore ==
  /\ pc = "before"
  /\ stopped' \in {stopped, TRUE}
  /\ CmdSucceeds("update") \/ CmdFails("before", "error")
  /\ UNCHANGED <<outside, disk, rebootRequired, rebooting, redo>>

\* Mutant: the revision is tagged as current before the update is run.
UpdateBeginsTagged ==
  /\ pc = "update"
  /\ applied' = Partial
  /\ currentRev' = head
  /\ Goto("updating")
  /\ UNCHANGED <<outside, head, failedRev, flags, page, volatile, redo, faults>>

UpdateBegins ==
  /\ pc = "update"
  /\ applied' = Partial
  /\ Goto("updating")
  /\ UNCHANGED <<outside, head, currentRev, failedRev, flags, page, volatile,
                 redo, faults>>

\* Mutant: the reboot flag of the old revision stays.
UpdateKeepsFlags ==
  /\ pc = "updating"
  /\ applied' = head
  /\ CmdSucceeds("tag")
  /\ UNCHANGED <<outside, head, currentRev, failedRev, flags, page, volatile, redo>>

UpdateSucceeds ==
  /\ pc = "updating"
  /\ applied' = head
  /\ flags' = FlagsOf(head)
  /\ CmdSucceeds("tag")
  /\ UNCHANGED <<outside, head, currentRev, failedRev, page, volatile, redo>>

\* Mutant: a failed update is tagged as current.
UpdateFailsTagged ==
  /\ pc = "updating"
  /\ flags' \in {flags, FlagsOf(head)}
  /\ CmdFails("update", "tag")
  /\ UNCHANGED <<outside, head, currentRev, failedRev, page, applied, volatile,
                 redo>>

UpdateFails ==
  /\ pc = "updating"
  /\ flags' \in {flags, FlagsOf(head)}
  /\ CmdFails("update", "tag_failed")
  /\ UNCHANGED <<outside, head, currentRev, failedRev, page, applied, volatile,
                 redo>>

TagFailed ==
  /\ pc = "tag_failed"
  /\ failedRev' = head
  /\ Goto("error")
  /\ UNCHANGED <<outside, head, currentRev, flags, page, applied, volatile,
                 redo, faults>>

\* Mutant: the tag is asked from the server again.
TagRemote ==
  /\ pc = "tag"
  /\ currentRev' = remote
  /\ redo' = FALSE
  /\ Goto("after")
  /\ UNCHANGED <<outside, head, failedRev, flags, page, applied, volatile,
                 faults>>

TagCurrent ==
  /\ pc = "tag"
  /\ currentRev' = head
  /\ redo' = FALSE
  /\ Goto("after")
  /\ UNCHANGED <<outside, head, failedRev, flags, page, applied, volatile,
                 faults>>

RunAfter ==
  /\ pc = "after"
  /\ CmdSucceeds("reboot") \/ CmdFails("after", "error")
  /\ UNCHANGED <<outside, disk, volatile, redo>>

-----------------------------------------------------------------------------
(* gitops-library.sh: system_error *)

\* Mutant: the error is reported, the page stays as it is.
ShowErrorNowhere ==
  /\ pc = "error"
  /\ Goto("report")
  /\ UNCHANGED <<outside, disk, volatile, redo, faults>>

ShowError ==
  /\ pc = "error"
  /\ page' = "error"
  /\ Goto("report")
  /\ UNCHANGED <<outside, head, currentRev, failedRev, flags, applied, volatile,
                 redo, faults>>

\* sentry_entry error: back to the script, or the end of it.
ReportError ==
  /\ pc = "report"
  /\ \/ /\ SentryDelivers
        /\ Goto(IF result = "finish" THEN "exit" ELSE "reboot")
     \/ SentryFails /\ Exit("sentry")
  /\ UNCHANGED <<outside, disk, volatile, redo>>

-----------------------------------------------------------------------------
(* gitops-update.sh: reboot handling, finish *)

\* Mutant: finish_cmd is run after a failed step, too.
AfterRebootAlways == IF restart THEN "finish" ELSE "exit"

\* The condition in front of finish_cmd.
AfterReboot == IF restart /\ result = "ok" THEN "finish" ELSE "exit"

NoRebootNeeded ==
  /\ pc = "reboot"
  /\ ~rebootRequired
  /\ Goto(AfterReboot)
  /\ UNCHANGED <<outside, disk, volatile, redo, faults>>

\* systemctl --no-block reboot; exit 0
Reboot ==
  /\ rebooting' = TRUE
  /\ Exit("ok")
  /\ UNCHANGED <<outside, disk, rebootRequired, stopped, redo, faults>>

RebootUnattended ==
  /\ pc = "reboot"
  /\ rebootRequired /\ "attended" \notin flags
  /\ Reboot

\* clevis is installed, the next boot is unlocked without a human; then
\* sentry_entry info.
SetClevisSlot ==
  /\ pc = "reboot"
  /\ rebootRequired /\ "attended" \in flags
  /\ \/ SentryDelivers /\ Goto("slot")
     \/ SentryFails /\ Exit("sentry")
  /\ UNCHANGED <<outside, disk, volatile, redo>>

RebootByClevis == pc = "slot" /\ Reboot

\* No clevis, or it failed: one or two sentry entries, and the script goes on.
AskAdmin ==
  /\ pc = "reboot"
  /\ rebootRequired /\ "attended" \in flags
  /\ \/ SentryDelivers /\ Goto(AfterReboot)
     \/ SentryFails /\ Exit("sentry")
  /\ UNCHANGED <<outside, disk, volatile, redo>>

RunFinish ==
  /\ pc = "finish"
  /\ \/ stopped' = FALSE /\ CmdSucceeds("clear")
     \/ stopped' \in {stopped, FALSE} /\ CmdFails("finish", "error")
  /\ UNCHANGED <<outside, disk, rebootRequired, rebooting, redo>>

\* system_maintenance --clear, then sentry_entry info "Frontend Ready".
ClearPage ==
  /\ pc = "clear"
  /\ page' = "none"
  /\ Goto(IF page = "none" THEN "exit" ELSE "ready")
  /\ UNCHANGED <<outside, head, currentRev, failedRev, flags, applied, volatile,
                 redo, faults>>

ReportReady ==
  /\ pc = "ready"
  /\ \/ SentryDelivers /\ Goto("exit")
     \/ SentryFails /\ Exit("sentry")
  /\ UNCHANGED <<outside, disk, volatile, redo>>

ExitResult ==
  /\ pc = "exit"
  /\ Exit(IF result = "ok" THEN "ok" ELSE "step")
  /\ UNCHANGED <<outside, disk, volatile, redo, faults>>

-----------------------------------------------------------------------------
(* Kill, crash and boot *)

\* What an interrupted "echo > file", "jinja2 > file" or update_cmd leaves on the
\* disk.
TornWrites ==
  /\ currentRev' \in IF pc = "tag" THEN {currentRev, BlankTag} ELSE {currentRev}
  /\ failedRev' \in
       IF pc = "tag_failed" THEN {failedRev, BlankTag} ELSE {failedRev}
  /\ page' \in IF pc \in {"maintenance", "error"} THEN {page, "blank"} ELSE {page}
  /\ flags' \in IF pc = "updating" THEN {flags, FlagsOf(head)} ELSE {flags}
  /\ UNCHANGED <<head, applied>>

\* TimeoutStartSec, or the unit is stopped: the whole control group is killed,
\* before_cmd or finish_cmd among it.
Kill ==
  /\ pc # "idle"
  /\ Fault
  /\ TornWrites
  /\ stopped' \in
       {stopped} \cup (IF pc = "before" THEN {TRUE} ELSE {})
                 \cup (IF pc = "finish" THEN {FALSE} ELSE {})
  /\ Exit("killed")
  /\ UNCHANGED <<outside, rebootRequired, rebooting, redo>>

\* /run is empty after a boot, and systemd starts the enabled services.
BootState ==
  /\ rebootRequired' = FALSE
  /\ stopped' = FALSE
  /\ rebooting' = FALSE

Boot ==
  /\ rebooting
  /\ BootState
  /\ UNCHANGED <<outside, disk, run, redo, faults>>

Crash ==
  /\ Fault
  /\ TornWrites
  /\ Exit("killed")
  /\ BootState
  /\ UNCHANGED <<outside, redo>>

-----------------------------------------------------------------------------

Environment ==
  \/ Push \/ WebhookStarts \/ TimerFires \/ AdminStarts
  \/ AdminSetsFlag \/ AdminClearsFlag \/ PackageNeedsReboot

Decision ==
  \/ RefuseFailed \/ CheckFlags \/ Pull \/ PullFails
  \/ NothingToDo \/ BeginUpdate

Update ==
  \/ Validate \/ ShowMaintenance \/ RenderFails \/ RunBefore
  \/ UpdateBegins \/ UpdateSucceeds \/ UpdateFails
  \/ TagFailed \/ TagCurrent \/ RunAfter \/ ShowError \/ ReportError

Completion ==
  \/ NoRebootNeeded \/ RebootUnattended \/ SetClevisSlot \/ RebootByClevis
  \/ AskAdmin \/ RunFinish \/ ClearPage \/ ReportReady \/ ExitResult

Script == Decision \/ Update \/ Completion

Next == Environment \/ Script \/ Kill \/ Boot \/ Crash

Spec == Init /\ [][Next]_vars

\* The script runs on, a reboot comes back, a request arrives and the timer
\* keeps firing.  Nothing makes the administrator or the git server act.
Fairness ==
  /\ WF_vars(Script)
  /\ WF_vars(Boot)
  /\ WF_vars(WebhookStarts)
  /\ WF_vars(TimerFires)

FairSpec == Spec /\ Fairness

-----------------------------------------------------------------------------
(* Properties *)

OutsideOK == remote \in Revisions /\ hook \in BOOLEAN

DiskOK ==
  /\ head \in Revisions
  /\ currentRev \in Revisions \cup {NoTag, BlankTag}
  /\ failedRev \in Revisions \cup {NoTag, BlankTag}
  /\ flags \subseteq Flags
  /\ page \in {"none", "blank", "maintenance", "error"}
  /\ applied \in Revisions \cup {Partial}

VolatileOK ==
  rebootRequired \in BOOLEAN /\ stopped \in BOOLEAN /\ rebooting \in BOOLEAN

RunOK ==
  /\ pc \in Labels
  /\ origin \in Revisions \cup {NoTag}
  /\ result \in Steps \cup {"ok"}
  /\ restart \in BOOLEAN
  /\ exitCode \in ExitCodes

HistoryOK == redo \in BOOLEAN /\ faults \in 0 .. MaxFaults

\* The types of the variables, and the ranges the tags and pages stay in: no tag
\* ever names something that is not a revision of the branch.
TypeOK == OutsideOK /\ DiskOK /\ VolatileOK /\ RunOK /\ HistoryOK

\* While nginx finds no maintenance page it serves the application: then the
\* machine is completely configured by one revision and no service is down that
\* before_cmd stopped, whatever failed, was killed or crashed before.
ServedSystemIsComplete ==
  page = "none" => applied # Partial /\ ~stopped

\* A pulled revision that the machine is not configured by is not forgotten: the
\* test in front of the update holds in the next run, because the tag of the
\* current revision differs.  The exception is a forced run over a revision that
\* is tagged already: when it is cut short, nothing on the disk says so.
PendingWorkRemembered ==
  pc = "idle" /\ applied # head /\ currentRev = head => redo

\* Without force-pushes the machine never goes back: what is tagged as current
\* or as failed was pulled, and what was pulled was pushed.
HistoryOrder ==
  /\ currentRev <= head
  /\ failedRev <= head
  /\ head <= remote

\* README "any step that fails stops executing later steps": no later step of the
\* same run starts, on whatever way the run comes to it.
FailureStopsLaterSteps ==
  pc \in {"maintenance", "before", "update", "updating", "tag", "after", "finish",
          "clear"}
    => result = "ok"

\* A run that ended with the status of a failed step leaves the error page for the
\* users to see, although reporting, reboot handling and exit came in between.
FailureIsShown ==
  pc = "idle" /\ exitCode = "step" => page = "error"

\* The setting update.unattended_reboot of the applied revision decides about a
\* reboot, not the setting of the revision that was replaced by this run; only
\* clevis may overrule it, and an incomplete update may have changed it already.
UnattendedRebootIsAllowed ==
  [][~rebooting /\ rebooting' =>
       \/ applied \notin AttendedRevs
       \/ pc = "slot"]_vars

Abstract ==
  INSTANCE Deployment WITH
    wanted <- remote, fetched <- head, applied <- applied,
    reported <- currentRev, serving <- (page = "none")

\* The update system implements what Deployment promises.
ImplementsDeployment == Abstract!Spec

\* With the timer, and when the administrator's flags do not stop the updates for
\* good, a pushed revision is applied and tagged unless a newer one replaces it.
PushEventuallyDeployed ==
  <>[](flags \cap {"disabled", "failed"} = {}) =>
    \A r \in Revisions : remote = r ~> (currentRev = r \/ remote # r)

\* With the timer, a force request is taken up, also over the failed flag, unless
\* updates are disabled.
ForceEventuallyTaken ==
  <>[]("disabled" \notin flags) => ("force" \in flags ~> "force" \notin flags)

-----------------------------------------------------------------------------
(* What a text of the repository says and the code does not do *)

\* gitops-update.sh:135 "all done, enable access to frontend service": once a run
\* put the maintenance page up, and no command ever fails, the page comes down (a
\* machine that is asked to reboot over and over again is left out).
FrontendReopens ==
  <>[]~rebootRequired => (page # "none" ~> page = "none")

\* webhook-lib.sls:3 "webhooks to execute on repository pushes to selected
\* branch": with the webhook alone, a pushed revision is pulled.
PushEventuallyPulled ==
  \A r \in Revisions : remote = r ~> (head = r \/ remote # r)

\* gitops-library.sh:216 "skipped sentry sending, missing SENTRY_DSN or
\* sentrycat.py": a run on a
\* machine without a DSN does not end because of the report.
MissingDsnIsSkipped == exitCode = "sentry" => DsnConfigured

\* from-git.sh:309 "manjaro is missing gosu, will be replaced by setpriv in bash
\* function gosu": where gosu is not missing, its function works as well, and a
\* pull fails only by a fault of network, disk or git server.
PullFailsOnlyByFault == exitCode = "pull" => faults > 0

\* README.md:124 "finish is executed after after was sucessful and machine does not
\* need a reboot": no run that saw the need of a reboot comes to finish_cmd.
FinishNeedsNoReboot == [][pc = "reboot" /\ pc' = "finish" => ~rebootRequired]_vars

=============================================================================
