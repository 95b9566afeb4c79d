# Verification of salt-shared

TLA+ specifications of the programs in this repository that keep state and can
fail half-way, the TLC configurations that check them on small instances, and
TLAPS proofs of what matters most for every instance.  `PROJECT.json` lists
components, runs, mutants, theorems and the source lines of each definition.

## 1. Inventory

The repository is a collection of salt states.  Most of them are declarative:
they name packages, files and services, and salt reconciles them.  The logic of
its own is in shell and Python programs that those states install.

| component | state it keeps | operations | interacts with |
|---|---|---|---|
| gitops update service (`app/gitops`) | checkout `src_dir`, tags, flags, maintenance page, the configuration of the machine, `/run/reboot-required` | check flags, pull, validate, before, update, tag, after, reboot, finish, clear, report | git server (pull), webhook and timer (`systemctl start`), salt (runs it), nginx (reads the page), sentry (reports), clevis and systemd (reboot), administrator (flags) |
| git checkout (`from-git.sh`) | clone, its origin URL, working tree, submodules, keys in the home directory | bootstrap, pull, re-clone, export, write revision files | called by the update service, by hand and at installation |
| certificate expiry check (`cert-check`) | watch list, metric files | add, remove, check all | timer; certificate deployment adds its host |
| http frontend: certificates (`ssl`, `acme`) | issued and installed key, chain and certificate; reload flag | issue, renew, install, run hooks | acme.sh, nginx and the other users of the certificate |
| http frontend: PKI (`pki`) | CA index, serials, revocation list | create host, create client, revoke, renew, publish | nginx (client authentication) |
| http frontend: nginx | maintenance page (read only) | serve, deny | the update service writes the page |
| backup (`app/backup`) | restic repository, tag with its id, metrics, service hooks | check, initialise, back up, prune, report | timer, hooks of the services, sentry |
| containers (`app/containers`: units) | images, `image.digest` of each service, environment files | refresh the image, remove the old container, init command, change command, record the digest, run | systemd units and scripts from templates, podman, registries |
| podman-compose (`app/containers/tools`) | none of its own: dicts in memory, podman's containers, pods, images, volumes | read the file, resolve extends, order, transform, up, down, run, build, pull, push, start, stop | systemd unit of a compose project, administrator, podman |
| device tracker (`embedded/openwrt/...`) | marker files of seen devices | connect, disconnect, start | hostapd events, MQTT broker |
| android tools | tap devices | create, delete | network manager |
| tools, `_modules` | none (sentrycat: a mailbox) | filter a calendar, compute with networks, read, send, delete mail | everything above, sentry, mail server |
| zfs | counter of scrubs | scrub, snapshot | cron |

### What is hard

* **One program, killed anywhere.**  Every program is a shell script under
  `set -e`, started by systemd, that changes files one after another.
  `TimeoutStartSec`, a crash or one failing report ends it between any two lines.
* **State that outlives the run.**  Tags, flags, the maintenance page and
  half-applied configurations stay on the disk; the next run decides from them
  what to do.  `/run` is gone after a boot.
* **Triggers that race.**  Webhook, timer and administrator start the same unit;
  systemd merges a start into the run that is active.
* **Self-modification.**  The update runs salt, which rewrites the flags, the
  environment and the scripts of the update service itself.
* **Shared objects.**  podman-compose keeps services, volumes and health checks in
  Python dicts and lists that it changes while it goes through the containers;
  what one container is made of depends on those before it.
* **Commands without a lock.**  Two podman-compose commands of one project run at
  once: the unit's and the administrator's.
* **Reboots in the middle.**  A run ends with a reboot before its last steps.

### What makes each component correct

* Update service: users are served only by a completely configured machine; no
  pulled revision is forgotten; a failed step stops the run and is shown; the tag
  names what was applied; the machine reboots only when it may; a push is deployed
  in the end.  (modelled, see below)
* Git checkout: after a successful pull the tree, the submodules and HEAD are one
  revision of the configured source; a crash never needs more than another pull,
  with one exception (section 4).  (modelled)
* Certificate check: every added certificate is checked; a concurrent add is not
  lost.
* Certificates: key and certificate that are in use belong together; after a
  renewal every hook has run; a failed renewal keeps the old pair.
* PKI: serials are unique; a revoked certificate is in the published list.
* Backup: the repository that is pruned is the one that was backed up to; a
  failed hook is reported; metrics tell of the last run.
* Containers: a container runs an image of this start, on data that its init or
  change command made ready for that image; a start fails only by a fault.
  (modelled) User namespaces do not overlap.
* podman-compose: the walk over dependencies ends with what each service needs; no
  value, replica or port gets lost between the file and podman; shared volumes are
  the same volume, others are not; a down leaves nothing, an up starts everything;
  the unit comes up again.  (modelled)
* Tools: an entry is in the range of its local day also when clocks change; the
  formats of a network agree with each other; a mail is sent and then removed.
  (modelled)
* Device tracker: the retained state follows the last event.
* Android: a failed creation leaves nothing behind.

## 2. Modules

| module | what it is | source |
|---|---|---|
| `Deployment` | abstract: what the update service promises | README of `app/gitops`, `gitops-update.sh` |
| `GitopsUpdate` | detailed: one action per step of the service | `gitops-update.sh`, `gitops-library.sh`, units, timer, webhook |
| `MCGitopsUpdate` | values of the constants for TLC | |
| `GitopsUpdateProofs` | theorems about `GitopsUpdate` and their proofs | |
| `FromGit` | one action per step of a pull | `pull_latest_src` of `from-git.sh`, `gitops-update.sh:43-48` |
| `FromGitProofs` | theorems about `FromGit` | |
| `ContainerService` | one action per command of a container service | `containers/template/container.service` |
| `MCContainerService` | services and images for TLC | |
| `ContainerServiceProofs` | theorems about `ContainerService` | |
| `ComposeDeps` | the walk over dependencies, call by call | `podman_compose.py`: `flat_deps`, `rec_deps` |
| `MCComposeDeps` | values for TLC | |
| `ComposeFile` | from the services of a file to the list of containers; EXTENDS `ComposeDeps`, whose walk it runs twice | `_parse_compose_file`, `rec_merge`, `resolve_extends`, `tr_*` |
| `MCComposeFile`, `ComposeFileProofs` | compose files for TLC; theorems about `ComposeDeps` and `ComposeFile` | |
| `ComposeArgs` | from a container to the arguments of podman, with the volumes it creates | `container_to_args` and what it calls |
| `MCComposeArgs`, `ComposeArgsProofs` | mounts, volumes, secrets ... for TLC; theorems | |
| `ComposeService` | the commands as calls of podman, and the unit that runs them | `compose_*`, `containers/template/compose.service` |
| `MCComposeService`, `ComposeServiceProofs` | a stack and commands for TLC; theorems | |
| `Ranking`, `RankingProofs` | the members of a finite set in an order, and what a list holds at chosen places; lemmas about both | comprehensions with a condition, `sort` |
| `Sentrycat` | the loop over a mailbox | `sentrycat.py` |
| `FilterIcal` | local days against moments of UTC, as operators | `filter-ical.py` |
| `ExtIPv4` | address arithmetic, as operators | `_modules/extipv4.py` |
| `Tools`, `MCTools` | calls of `FilterIcal` and `ExtIPv4`; their reference definitions; values | |
| `ToolsProofs` | theorems about both | |

### GitopsUpdate

**State.**  `head` is HEAD of `src_dir`, `currentRev` and `failedRev` the two tag
files (`NoTag` when missing, `BlankTag` when an interrupted `echo >` left them
empty), `flags` the flag files, `page` the maintenance page as nginx and the users
see it, `applied` the revision the machine is configured by, or `Partial`.
`rebootRequired`, `stopped` and `rebooting` are lost at a boot.  `pc` is the line
the script is at, `origin`, `result` and `restart` its shell variables
(`latest_origin_rev` is always `head` here), `exitCode` says how the last run
ended.  `redo` is a history variable: a run began again on a revision that was
tagged.  Revisions are numbers in the order of the branch.

**Steps.**  One action per command that changes state or can fail.  A configured
command succeeds or fails (`CmdSucceeds`, `CmdFails`); `update_cmd` is two
actions, because the machine is between two revisions while it runs.
`system_error` is `ShowError` then `ReportError`, because a failing report ends
the script in between.  `Kill` and `Crash` interrupt any line and leave what the
interrupted command may have written (`TornWrites`).  The flag file
`reboot.unattended.disabled` is changed by the update itself (`FlagsOf`).

**Environment.**  The git server pushes, by force where `Rewinds` says so.  A start
of the unit while it is active is merged (`StartJob`).  The administrator sets and
deletes flags between any two steps, packages ask for a reboot at any time.

**Faults.**  `MaxFaults` bounds the failing commands, kills and crashes of a
behaviour; everything else is unbounded.  A sentry report that fails because no
DSN is configured, and the `gosu` function calling itself, are no faults but what
the code does.

**Abstractions.**  The pull is one step.  Metric files, message texts and the JSON
of the reports are left out.  The test and the removal of the force flag
(`gitops-update.sh:52` and `58`) are one step, as are the two flag tests of lines
29-41.  A boot starts the services that `before_cmd` stopped (enabled services).
The passing runs take `GosuInstalled = FALSE`: the machines that fall back to
`setpriv`; with gosu no run passes its first git command (see findings).

### FromGit

Refines nothing and is composed with nothing yet: it looks into the one step that
`Pull` is in `GitopsUpdate`.

**State.**  `dir`, `originUrl`, `whole`, `tracking` and `head` are the repository on
the disk, `tree` and `subs` the commits that the working tree and the submodules
are from (`NoCommit` for a mixture).  `pc` is the line of `pull_latest_src`,
`runUrl` its parameter, `outcome` how the last run ended.  A commit is a pair of a
source and a number; branches may be force-pushed.  `seen`, `clean` and `mistaken` are
history: the heads of the branch and whether a fault happened since the run began,
and whether the repository of the source itself is being removed.

**Steps.**  `Check` decides between a clone, a re-clone and a fetch; a `git config` that
fails reads as "invalid" (line 125), so a sound repository may be removed, too;
`RemoveBegins`, `RemoveEnds`, `CreateDir`, `CloneBegins`, `CloneEnds` are the
re-clone, and `Fetch`, `Checkout`, `Reset`, `UpdateSubmodules` what follows.
`CommandFails` and `Interrupt` leave the files of the interrupted command mixed
(`TornFiles`, `Wiped`).  A run is started by hand (`StartByHand`) or by the update
service, which reads HEAD before it pulls (`StartByUpdate`).

**Environment.**  Pushes to any source at any time, and a highstate that configures
another source (`ChangeSource`).  What git does to the repository is assumed: each
command either does its work or stops half-way, a clone sets the origin first, a
half-removed repository may keep its configuration.

**Left out.**  A second puller at the same time (needs git's lock files), stale lock
files of an interrupted git, `export_src`, keys.  With the program gosu installed
nothing works (finding 5), so the git commands run through setpriv.

### ContainerService

**State.**  For each image the version that the registry offers (`registry`) and the
one in the local storage (`stored`).  For each service the `digest` file (`NoFile`,
`Blank`, "null", or a version), the `container` of its name, running or not, the
version its `data` is ready for, and `pc`, the command it is at.  Services share
images.  `ran`, `seen` and `clean` are history.

**Steps.**  One action for each `ExecStartPre` line and `ExecStart`, and one for its
failure: `Refresh`, `Remove`, `RunInit`, `CreateDigest`, `Compare` and `RunChange`,
`RecordDigest`, `RunContainer`.  A redirection empties `image.digest` before podman
and jq fill it; `Torn` says what a stop, kill or crash leaves of the command it
interrupts.  A failing `podman image list` in front of the pipe is a fault that
the script does not see (`ListFails`).

**Environment.**  `Publish`: the registry offers another version at any time, in
order unless `Rewinds`.  `Start`: the administrator or `Restart=on-failure`; `Stop`,
`Kill` (`TimeoutStartSec`, a container that ends with an error) and `Crash` happen
at any command of any service.

**Left out.**  `refresh: false`, the start limit of systemd (`MaxFaults` is below
its default of five starts), desktop and command containers.

### ComposeDeps

**State.**  `direct` are the names a service gives, `deps` its set `_deps`, `stack` the
frames of `rec_deps`: the service a call is for and what is left of its copy of the
set.  `overflow` is RecursionError.

**Steps.**  `Visit` is the loop of `flat_deps`; `Skip`, `Follow` and `Return` are one
name of a set each, in any order, because a Python set has none.  Other frames
change the set a frame goes through only by what it copied: the copy is in
`left`.  `Needs` is the reference: the least set closed under the graph.

### ComposeFile

**State.**  `srv` says which object a service holds under a key, `obj` what is in it:
`rec_merge` copies the outermost dict and shares everything below, so a list that
is extended for one service grows for its base.  `pending` are the services
`resolve_extends` has still to visit, `given` the containers before and `containers`
after the transformation.

**Steps.**  `Walk` runs `ComposeDeps` in the order of the file; `SortForExtends`,
`Resolve` (one service), `CollectAgain`, `MakeContainers`, `Transform`.  There are three
ways to fail: `WalkRaises`, the last disjunct of `Resolve` (a service that is not there)
and `Differ` (ValueError: a list to be merged with a string).

**Abstractions.**  Scalars stand for all keys whose value replaces, `ports` and
`depends_on` for all lists; a list may be written as a string (`text`), which replaces.
`called` is what a `container_name` spells: a word of its own or what any other container
is called.  A value is the place that wrote it.  Reading YAML,
several `-f` files and the substitution of variables come before the model.
`list.sort` keeps what is equal in place, as `Sorted` of `Ranking` does.

**Assumptions.**  `FilesAssumption`: the orders a file is read in list every service once.

### ComposeArgs

**State.**  `disk` says who made each volume; `name` is `name` in the dicts of volumes
and of long mounts, `tests` the lists of health checks; both are memory of one
command and shared by its containers.  `holds` is the service whose health check a
service has: `rec_merge` hands the dict and its list on, so a service that extends
another, and its siblings, have that one.  `pc`, `todo`, `at`, `opts` are where a command
is, `started` is what `podman run` was given.

**Steps.**  `NextContainer` is the loop of up, `FixMount` a mount up to the first
podman call, `InspectVolume`, `CreateVolume`, `VerifyVolume` the three calls of
`assert_volume`, `Finish` the rest of `container_to_args` and `podman run`.
`MountRaises`, `Parse` and branches of the others are the exceptions.

**Abstractions.**  A short mount is the split of its string at colons and commas.  The
options that only repeat a key (`PlainFirst`, `PlainLast`) are one option each.
`_prefer_volume_over_mount` is always true (line 1005), so `mount_desc_to_mount_args` is
never called and not modelled.

**Assumptions.**  `FilesAssumption` says what a value of the file may be after `normalize` and
`resolve_extends`:
a list, an optional name, a health check.  Names that the file gives and names that
podman-compose makes of services and targets are kept apart (`ArgsAssumption`): a file
that spells `<project>_<service>_<target>` itself is left out.

### ComposeService

**State.**  `podman` is what podman keeps: pod, containers with the version they were
made from, images, a one-off container.  `proc` are three processes: ExecStart (with
its ExecStartPre), ExecStop, and the administrator's command, each with its calls
still to make, and for up the threads that wait in `podman start -a`.  `unit` is what
systemd does.  `quiet`, `settled` are history.

**Steps.**  `CallsOf` turns the arguments of a command into its list of calls; `Step`
makes one, which podman refuses (`Possible`) or does (`After`).  Only the result of
`run` is looked at (`Rest`).  `Join` is the loop over threads, with
`--abort-on-container-exit`.  `BeginPre`, `BeginUp`, `UpEnds`, `UpKilled`, `StopUnit`,
`StopEnds` are the unit.  No ExecStartPre ends a start: podman-compose ignores the
result of its pulls, and the other command has a `-`.

**Faults.**  A call that could succeed fails, a process is killed, a container exits,
the machine reboots; `MaxFaults` together.

**Assumptions.**  `StackAssumption`: names of containers differ (`_parse_compose_file` makes a
dict of them, line 1194), and the replicas of a service differ in nothing else (lines
1157-1192 copy one dict).  `shares` is the service whose list a health check is, which
services joined by `extends` have in common.  `Picked` is the comprehension with a condition, over `Ranking`.

**Left out.**  `ps`, `logs`, `exec`, which change nothing here; `--dry-run` (in
`ComposeArgs`), `--timeout`, `--remove-orphans` and other options that are parsed and
used by nothing.

### Sentrycat, FilterIcal, ExtIPv4, Tools

`Sentrycat` has one action for each thing that happens to the mailbox: lock and
read, one mail, one event, discard, unlock, write.  Mail arrives between them
where no lock keeps it out.  `keys` are those of the dict that main takes keys from.

`FilterIcal` counts time in units of which `Day` make a day; `Utc` is what dateutil
makes of a time of the wall clock, `Today` what the wall clock shows.  `IcalAssumption`
is datetime's own rule: offset and summer time are less than a day, together too.
`ExtIPv4` has octets of `Width` bits; a number is the sum of the octets by `Weight`.
`Tools` makes one call per behaviour.  `NoChangeAtMidnight` says that the clock is not
changed from just before the moment a midnight has in summer time to the one it has
in winter time; `MCTools` has TLC evaluate it for the clocks of the run.

### Deployment and the refinement

`Deployment` has five variables: `wanted`, `fetched`, `applied`, `reported`,
`serving`.  It allows an update to begin only behind a closed frontend, a report
only of the revision that is applied and fetched, and the frontend to open only
when the fetched revision is applied and reported.  `GitopsUpdate` maps `remote`,
`head`, `applied`, `currentRev` and `page = "none"` to them.

| GitopsUpdate | Deployment |
|---|---|
| Push | Publish |
| Pull, PullFails | Fetch, or no change |
| ShowMaintenance, RenderFails, ShowError | Close, or no change |
| UpdateBegins | Spoil |
| UpdateSucceeds | Complete |
| TagCurrent | Report |
| ClearPage | Open |
| Kill, Crash | LoseReport, Close, or no change |
| all others | no change |

## 3. Runs

| run | bounds | shows |
|---|---|---|
| `gitops_safety` | 3 revisions, 2 faults, any flag by hand | all invariants, the reboot rule and the refinement |
| `gitops_liveness` | 2 revisions, 1 fault, timer and webhook | pushes and force requests are taken up |
| `gitops_page_stuck` | no fault | finding: the page stays up after a reboot |
| `from_git` | 2 sources, 3 commits, 2 faults | a successful pull delivers one current commit; a pull without a fault succeeds, but for a misread origin |
| `container_service` | 1 service, 4 versions in order, 3 faults | the right image on the right data, over faults; a failed service comes up again |
| `compose_deps` | every graph of 3 services and 1 unknown name, 5 frames | the sets are exact, in every order; only loops that avoid the start overflow; the walk ends |
| `compose_file` | 3 services, all ways to extend and to depend, lists as strings, equal names, 2 orders, 6 policies | nothing is lost on the way from the file to the containers, needed ones come first |
| `compose_args` | 2 commands, 2 services (one with 2 replicas), one thing varied at a time, 1 removal | volumes are shared exactly where the file says, are there when used; the reasons to fail, a health check shared through `extends` among them |
| `compose_service` | 2 containers in a pod, 10 commands, 1 by hand, 2 faults, 2 versions | down leaves nothing, up and run start what is needed, the unit recovers |
| `compose_dry_run` | 1 command | finding: `--dry-run` creates volumes |
| `tools` | 5 days of 4 units with both clock changes, octets of 2 bits | days and all formats of a network against their reference definitions |
| `sentrycat_mailbox` | 2 mails, 1 fault | finding: no mail is ever sent |

Eleven more configurations are kept and can be given to `tlc` by hand:
`container_shared.cfg` passes; the others each show one remark of section 4 or a
finding: `gitops_webhook_lost`, `gitops_no_dsn`, `gitops_finish_reboot`, `gitops_gosu`,
`from_git_reclone`, `from_git_misread`, `container_change_skipped`, `compose_extends`,
`compose_names`, `compose_refresh_build`.

**Why the bounds are enough.**  Three revisions are a deployed one, one being
deployed and one that is pushed meanwhile.  Two faults are a failure and a second
one in the run that repairs it; a third would start from a state one of the two
already reaches, since a fault leaves only the page, the tags and `applied`
behind.  For `FromGit` two sources are the old and the new one, and the second fault
hits the run that repairs the first.  For `ContainerService` four versions are the
recorded one, the one an interrupted start worked for, the stored one and one that
is published meanwhile.  Three services are the fewest with a loop that does not
lead back to the start, and a chain of two extensions.  In `ComposeArgs` two
services share volumes with each other and two replicas share their service's
lists; two commands are all that inspect and create tell apart.  In
`ComposeService` two containers, one needing the other, show every order of calls;
two faults are one that leaves debris and one during the recovery.  The clock of
`tools` is put forward on the second and back on the fourth day, so days before,
between, after and with a change are all there; octets of two bits have masks
that end within each octet and at its borders.  The proofs below do without any bound, and
those of `ServedSystemIsComplete` and `ImplementsDeployment` for force-pushes
(`Rewinds = TRUE`), too.

**Safety properties.**
`ServedSystemIsComplete`: no page means one complete revision and no stopped
service.  `PendingWorkRemembered`: between runs, a pulled revision that is not
applied is not tagged as current, except after a forced run that was cut short.
`HistoryOrder`: tags follow the checkout, the checkout the branch.
`FailureStopsLaterSteps`: README "any step that fails stops executing later steps", on
every way through the script.  `FailureIsShown`: a run that ends with the status of a
failed step leaves the error page; a report that fails is not a step.
`UnattendedRebootIsAllowed`: the reboot obeys the revision that is applied.
`ImplementsDeployment`: the refinement.
`PulledIsCurrent`: HEAD, tree and submodules of a successful pull are one commit of
the configured source that the branch was at since the pull began.
`FaultFreePullSucceeds`: no debris of earlier runs makes a pull fail, unless one of them
took the repository of the source itself for another's (`mistaken`).
`ChangedBeforeRun`: what runs is the version the data is ready for.
`RefreshIsRun`: what runs was offered since the start began.
`FailsOnlyByFault`: no debris of earlier starts makes a start fail.
`InitOnlyBeforeFirstStart`: once the container has run, init never runs again.
`DepsExact`: at every moment only needed names, and in the end, without a loop, all.
`OverflowNeedsForeignCycle`: the test against loops cuts all that pass the start.
`InheritsAll`: the nearest value of the chain wins, a list written as a string included;
of lists no item of the chain is missing.
`DependenciesFirst`: every container comes after what it needs, under every policy.
`StackComplete`: each name the file gives is the name of one container; where several
have it, that of the last service stays; no other container and no port is lost.
`VolumesToldApart`: mounts get one volume if and only if they mean the same one.
`VolumesExist`, `FailsForAReason`: what is used is there; what fails has one of the reasons
listed, which include what other containers and commands did before.
`ReplicasAlike`: replicas get the same arguments, but for health checks in a list.
`DownLeavesNothing`, `StartsWhatIsNeeded`: what an undisturbed command ends with; of the
unit and a command at once, `UnitRecovers` tells what becomes of them in the end.
`RunsStoredImage`: after crashes the unit runs containers of the image it stored.
`OthersUntouched`: a command for some services leaves the others alone.
`DaysExact`, `NetsExact`: agreement with the reference definitions in `Tools`.

**Liveness and fairness.**  `WF(Script)`: a running script goes on.  `WF(Boot)`: a
machine that reboots comes back.  `WF(WebhookStarts)`: a sent request arrives.
`WF(TimerFires)`: an enabled systemd timer elapses again and again; this is a
start request, which has no effect while a run is active.  None is assumed of
the administrator, the git server or the packages.  `PushEventuallyDeployed` excludes
behaviours in which the flags `disabled` or `failed` come back for ever, as these
are requests not to update; `ForceEventuallyTaken` those with `disabled`.
`container_service` assumes that systemd goes on with a start and, by
`Restart=on-failure`, starts again what failed; the administrator may stop it.
`FlatDepsEnds` assumes that the interpreter goes on (`WF(DepsNext)`).  `UnitRecovers`
assumes that processes go on, that systemd does what is due (up exits with -1 when
a container has ended, which is a failure for systemd), and that the command of
`podman-compose run` ends; faults are bounded, so "once nothing more goes wrong" is
part of every behaviour.

## 4. Findings

1. **The page stays after a reboot** (`gitops_page_stuck`).
   `gitops-update.sh:123-124` reboots and exits before `finish_cmd` and
   `system_maintenance --clear`; the page is on the disk, and after the boot
   nothing is left to do, so no run clears it.
2. **A dry run changes podman** (`compose_dry_run`).  `Podman.output` does not look at
   `--dry-run`; `assert_volume` creates the volumes that are missing.
3. **No mail of a mailbox is sent** (`sentrycat_mailbox`).  `sentrycat.py:339` takes
   `extra` from the dict that line 193 writes to.  Without that, the mails of an mbox
   would be flushed after the unlock (line 211): mail that arrives in between makes
   flush raise, and all are sent again.  The text of the error of an event that is
   not taken (`margs.message` of a dict) raises, too.

Shown by a configuration that is no run of the project:

* **A push during a run is lost** (`gitops_webhook_lost`).  The webhook's start is
  merged into the active run, which has pulled already.
* **Without a DSN the report ends the run** (`gitops_no_dsn`).
  `gitops-library.sh:205` tests a constant string; a `$` is missing.
* **finish_cmd on a machine that needs a reboot** (`gitops_finish_reboot`), against
  README.md:124.
* **gosu calls itself** (`gitops_gosu`).  The shell function has the name of the
  program and runs itself where the program is installed, as `service.sls` asks.
* **An interrupted re-clone stops the updates** (`from_git_reclone`).
  `gitops-update.sh:44` reads HEAD under `set -e`; when `from-git.sh` was ended
  between the removal (line 129) and the end of the clone, there is none, and no
  later run comes to the pull that would repair it.
* **A repository taken for another's** (`from_git_misread`).  `|| echo "invalid"`
  (`from-git.sh:125`) hides why `git config` failed; the sound repository is removed.
  A kill during `rm -r` can leave half of it with its configuration: the URL is right
  again, nothing is cloned, and every later pull fails at the fetch.
* **Containers of one name** (`compose_names`).  A `container_name` may be what another
  container is called, `project_b_1` or another `container_name`; the dict of line 1194
  keeps the one of the service that comes last and drops the other without a word.
* **Services that share an image** (`container_change_skipped`).  The commands read
  the image by its name again and again; a pull of another service in between
  skips the change command.
* **Extending changes the base** (`compose_extends`).  `rec_merge` shares lists and
  dicts: ports and replicas of an extension appear in its base and in its siblings.
* **Images that are built are not refreshed** (`compose_refresh_build`).  `refresh` is
  to pull or build on every start; the unit runs `pull` and `up --no-build`.

Four more faults of `container.service` show when a constant is changed in
`container_service.cfg`; no run of its own is kept for them:

* `ListFails = TRUE` violates `ChangedBeforeRun`: a failing `podman image list` in
  front of a pipe leaves an empty digest, and two of them compare as equal.
  `container-run.sh:3` has `pipefail`.
* `Source = "localhost"` violates `FailsOnlyByFault`: `${registry%*/}` at line 46 does
  not cut the name at its first slash, as `container-run.sh:19` does.
* `Source = "build"` violates `RefreshIsRun`: `--tag` at line 36 lacks the name of the
  image, which `lib.sls:350` gives, so the image that is built is not the one that
  runs.
* `Ephemeral = FALSE` violates `FailsOnlyByFault`: the second `podman run --name`
  fails.

Not counted as findings, as no text promises otherwise: after a force-push back
to the tagged revision a half-applied update looks like no work; a forced run
over the tagged revision that is cut short is forgotten (`redo`); an update that
is cut short keeps the page up until the next successful update.  An older image
that comes back under its tag between an interrupted start and the next hides that
the change command has run for the newer one; `ChangedBeforeRun` is claimed for
versions in their order.  Init and change commands run at least once, not exactly
once.  One thing met on the way is outside the models: `lib.sls:413-418` takes the
branch of `not entry['update']`, a key no default sets, and calls the macro `image`
with `require_in`, which it does not have.

Met in `podman_compose.py`, and modelled as the code does it:

* `run` of a stack with a build section raises, as `no_cache` is missing from the
  arguments (`RunCalls`); `run` of a service that needs nothing starts the whole
  stack, though the help of `--no-deps` (line 1671) speaks of linked services.
* `--abort-on-container-exit` "Stops all containers" (line 1645), but only exits: it is
  ExecStop that stops them.
* A health check in list form loses an item per container that has it, replicas and
  services that extend one another alike (lines 787, 940, 956-962): the second container
  raises, or with `["NONE"]` silently keeps the check of the image.  So a service that
  extends another one with `test: ["CMD", ...]` cannot be started with it.
* A list that is a string in one service and a list in the one it extends raises
  ValueError (line 947); as a string in both, it is replaced and not extended.
* Loops that do not pass the start raise RecursionError, against "avoid creating
  loops" (line 842).
* Of two propagation options of a short mount the last one counts (line 127).  A
  volume that no section declares is created, against the comment of lines 133-135.
  An anonymous volume in long form that a service inherits is named after the
  service that is converted first.
* A down during the start of up can leave a running container, to which the next
  start attaches.
* With the policy `cntnet`, up and down raise KeyError for the infra container, which
  has no `_service`; `ComposeService` has the other policies.
* `${VAR:-default}` and `${VAR:?err}` do not treat an empty variable as unset (lines 172,
  174 and 203-208); substitution is not modelled.

Met in the tools: the default of `filter-ical.py --to` overflows west of Greenwich
(line 196); a clock change at midnight loses or repeats an hour of entries; a field
that is given twice raises; of recurring events only the first date counts.
`calc_ip_from_net` with an offset beyond the network returns an address outside it;
/0 as CIDR is refused.  `imei-calc.py` passes None for a serial that is left out and
raises, though its help promises a random one.

## 5. Proofs

`GitopsUpdateProofs` holds for every number of revisions and faults and every
value of the other constants, from `ConstantsAssumption` alone.

* `TypeCorrect`: `Spec => []TypeOK`, one step per action; what an action leaves alone
  is covered by `Frames`, what a jump or the end of the script does by `GotoType`,
  `CmdType` and `ExitType`.
* `IInv == TypeOK /\ ResultInv /\ PageInv` is inductive (`IInvHolds`).
  `ServedSystemIsComplete` is not: that the page is up from `ShowMaintenance` to
  `ClearPage`, and that a run which comes to `finish` through the reboot handling
  has applied and tagged its revision, follows from `restart` and `result`, so
  these are part of it.  `ServedIsComplete` and `FailureStops` follow.
* `FailureShown` adds `ShownInv`: from `ShowError` on the error page stays.
* `RebootAllowed` adds `FlagInv`: an applied revision that forbids reboots has its
  flag file.
* `HistoryIsOrdered`, `PendingWorkIsRemembered`: from `TagInv`, for a branch that only
  moves forward (`Rewinds = FALSE`).
* `Implementation`: `Spec => ImplementsDeployment`, from `IInv`, for all branches.

`FromGitProofs`, for any number of sources, commits and faults:

* `PulledCommit` from `PullInv`: from the fetch on, the repository is one of the
  configured source, and what was fetched is a head since the run began.
* `PullRecovers`, for sources that do not come back (`Returns = FALSE`), from
  `DamageInv`: a half-removed repository belongs to a former source, so the next
  run removes it, or it was `mistaken`.  With `Returns` this fails: the configuration of
  a half-removed repository may name the right source again.

`ContainerServiceProofs`, for any number of services, images, versions, faults:

* `InitRunsOnce` from `DigestInv`: from the comparison on there is a digest file,
  and no interrupted command removes one.
* `RefreshedImageRuns` for images of a registry, from `SeenInv`: what is stored is
  never older than the start, also when another service pulls.
* `StartsFailOnlyByFault`, for images that are not of localhost and containers that
  are removed, from `CleanInv`: only a failing `podman rm` leaves a container in
  the way.
* `ChangeRunsBeforeImage`, from `ReadyInv`: the digest file is older than the stored
  image, or names the version the data is ready for.  It needs all that the
  findings take away, stated as its assumptions: an image of its own (`Exclusive`),
  `~ListFails`, and versions in their order (`~Rewinds`).
  `TornReady` shows that no interrupted command breaks it.

`ComposeFileProofs`, first about `ComposeDeps`, for every graph, any number of services and
every depth:

* `DepsAreSound` from `SoundInv`: a frame's set holds only what its service needs.
* `DepsAreComplete` from an invariant over the stack: a service that is finished, or a
  frame, misses only what is still in `left` of its frame, or what the caller has
  still to receive; a name that the test against loops skips cannot be missing,
  as the graph has no loop (`AcyclicFollows`).
* `DepsAreExact` combines both; `SizesOrderStart` is what `_parse_compose_file` relies on
  when it sorts by the number of names.
* `OverflowOnlyByForeignCycle`, if the interpreter nests at least as many calls as there are
  services (its limit is 1000): `OverflowNeedsForeignCycle` from `OverflowInv`.  `PathInv`
  says that each frame is needed by the one below without the start, `AvoidInv` that a set
  which still lacks the start was collected without it.  So more frames than
  services are two frames of one service (pigeonhole), and it needs itself.

`RankingProofs` shows that `InOrder` lists every member of a finite set once, the earlier
before the later, and from that the least and the greatest member.  `SortedLists` says that `Sorted`
is a permutation of a list along which no key falls; what it sorts by, the key and then the
place, is a total order (`LexicographicOrders`, `ByKeyOrders`).  `ChosenLists` and `ChosenMembers`
say what a list keeps where a comprehension has a condition.  They stand where `SelectSeq` and the sorts would need
an induction over lists.

`ComposeServiceProofs`, for every stack, all commands, any number of faults and commands by
hand, from the three assumptions of the module:

* `ServiceInvariant`: `ServiceInv` is inductive.  Every property of the run speaks of the end of
  a command, so the invariant says what is still ahead: the calls that are left are
  such as the command makes (`May`) and in turn (`InTurn`: stop, rm, pod rm, pod create,
  create or run, start), and whatever is not as the command leaves it has a call
  ahead that will see to it.
* `FullDownLeavesNothing` from `DownInv`: of a container that still runs the stop is ahead, of
  one that is there the rm, of the pod the pod rm, unless a fault came in between.
* `StoredImageRuns` from `SettledInv` and `UnitInv`, while only the service touches the stack: when
  it starts nothing runs, while ExecStartPre is under way the pod rm is ahead or there
  is no container, and so a container that up finds was made from the stored image.
* `WhatIsNeededStarts` from `StartsInv`: a container that is wanted and does not run has a
  `run` or `start` ahead, and before that the pod and the container it needs.
* `OthersStayUntouched`, an action property, from `CallsInv` and `AliveInv`: no call for another
  service is ahead, and no thread waits for one.

`ComposeArgsProofs`, for every compose file, any number of commands and containers:

* `ArgsInvariant`: `ArgsInv` is inductive.  Names are written into dicts that containers share,
  so `NameInv` says that each name written is the one the file means (`MeantBy`),
  however often it is written and by whom; `OptsInv` and `StartedInv` that what was
  converted before is still what it means now; `TestsInv` that the list of a health
  check is whole until a container that has it has started, whichever service is its; `WaitInv` what a
  command knows between two calls of podman, `FailInv` why one has raised.
* `FailuresHaveReasons` and `ReplicasStartAlike` need no more.
* `VolumesAreThere` needs `ExternalsApart`, a volume that is external at one key is not declared
  as its own at another, and adds `ExternalsKept`: who created a volume may.
* `VolumesApart` needs `NamesAgree`, a volume does not give two names, and `PlacesDiffer`, a
  container has one volume without a name at a place; podman refuses the
  contrary.  TLC checks the three on the files of the run (`MCFilesAgree`).

`ComposeFileProofs`, then about `ComposeFile`, for every set of compose files, any number of
services, every order they are listed in and every policy, from the assumptions of `ComposeDeps` and `FilesAssumption`:

* `FileTypeCorrect` from `FormInv`, which adds that a service holds at most one value or object
  under a key, and that a `container_name` is one its chain gives.
* `DependenciesComeFirst` from `DepsInv`, the soundness and completeness of the walk, here over
  both its runs, `GraphInv`, the second run is over what services inherited, and `ListedInv`, the
  list is sorted by the number of names found.  A service needs strictly more names
  than one it needs, as the graph has no loop, so it is listed later.
* `StackIsComplete` from `DoneInv`: a policy changes ports and hosts, not which containers there
  are, and what it takes from a container the pod publishes.  By `ChainInv` a container is
  called what the chain of its service says (`NamesAreMeant`), the dict by name keeps the last
  container of each name (`NameListed`), and nothing is assumed about which names are equal.
* `ServicesInherit`, where `extends` has no loop.  `QueueInv`: the queue of `resolve_extends` has bases
  before the services that extend them, for the walk found fewer names for them.
  `ChainInv` then says of each merge what it reads and leaves: a service that is still in
  the queue has only what it says itself (`AsRead`), in objects of its own (`OwnKept`); nothing
  of the other file reached it (`ReadOnce`); one that has left the queue has all its chain
  says, the nearest first (`Inherited`).  A string takes the place of what was there (`StringsReplace`).  That a later merge extends a list which a resolved
  service shares takes nothing from that service, as lists only grow.

`InheritsExactly` is false, for just that list (see the findings).

`ToolsProofs`, for every calendar, address and mask, from `IcalAssumption`, `WidthAssumption` and
`ToolsAssumption`, which types the calls.  `CallsAnswer`: an output is the one of the call;
so both theorems are about what a call computes.

* `DaysAreExact`, for days of every length and every clock that is `NoChangeAtMidnight`.  A day
  begins at one moment, and it is the one that `Utc` gives (`DayBegins`); so the latest
  midnight before a moment is that of its day (`LatestMidnight`), and a moment is between
  the boundaries if and only if its day is in the range (`BoundariesHoldDays`).
  `CheckedFields` is the loop that stops at the first usable field, `FilterKeeps` what the two
  lists hold that are written.  The hypothesis is needed: a clock that skips a
  midnight (`Summer` from 3 to 8 in `MCTools`) or shows one twice (from 5 to 9), as in some time
  zones, makes TLC find `DaysExact` violated by an entry within the hour that is changed.
* `NetsAreExact`, for octets of every width.  The laws of powers need an induction, which the
  prover does not do; here 2 ^ n is the number of subsets of a set of n members
  (`PowersAreCounts`), and two sets that are apart give the product (`PowerSum`).
  A network is a block of numbers whose size divides the range (`Blocks`, `FirstNumbers`),
  so its last number is still packed and an offset leads out of it exactly when it
  is too large (`OffsetsLead`).  An octet that the mask does not cover is inside the block
  (`BlocksCover`), so the start has nothing but zeros there, and the octets of the name tell
  the networks apart (`NamesTell`); this needs that a mask has no hole.  The number of bits
  beside an address stands for the mask again, as a mask without a hole is the one of its size.

Only model-checked: the liveness properties (`PushEventuallyDeployed`, `ForceEventuallyTaken`,
`RestartSucceeds`, `FlatDepsEnds`, `UnitRecovers`: fairness and ENABLED are out of the
prover's reach), and the runs that expect a violation.  Every other property of a passing
run is stated by a theorem.

## 6. Not modelled, and what is left

Not modelled:

* PKI (`app/http_frontend/pki`): the index and the serials are files of easyrsa, which is
  not in the repository; a revocation that is cut short between
  `revoke-certificate.sh:25` and the new list stays unpublished.
* Certificates and their expiry (`ssl`, `acme`, `cert-check`): the sequence is that of
  acme.sh; the watch list of `gitops-add-cert-check.sh:24` is written without a lock.
* Backup: locks, snapshots and retries are restic's.
* Device tracker, android tools, `passgen.py`, `gpgutils.py`, `flatyaml.py`: the result is
  that of a broker, of network commands, of random numbers, of gpg, or a plain walk.
* `app/email/sisimai_transform.py`, `grok-to-regex.py`, `extutils.py`: text conversion.
* Declarative states, copies of other projects (`x11docker`, `zfs-auto-snapshot.sh`), the
  archive `old/`.

Left, in this order:

1. Several `-f` files and the substitution of variables before `ComposeFile`.
2. A second puller and edits by hand beside the update service; `FromGit` as what
   `Pull` of `GitopsUpdate` stands for.
3. The user namespaces of `lib.sls:45-46` as a function, with a theorem that the
   ranges of two names are equal or disjoint.
