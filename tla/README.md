# Verification of HA Config Sync

TLA+ specifications of the two Home Assistant add-ons of this repository, the
TLC configurations that model-check them, and machine-checked proofs. Every
definition is translated from the code under `src/`; line numbers refer to it.

## The system

| Part | State it keeps | Operations | Where |
|---|---|---|---|
| Import: dashboards | the checkout (`REPO_LOCK`), the user's open form | review, adopt, Apply, Request Export | `import/app.py`, `dashboard_logic.py`, `git_source.py` |
| Provenance | `/homeassistant/.config-sync/live-dashboards.json`, a guard marker beside it, Import's `/data/dashboard-provenance.json`, Export's cache and its marker | record, adopt, heal, arm the guard, decide about a dashboard | `deployment_provenance.py` (one copy in each add-on) |
| Export | a LIVE snapshot and a clone, both for one run | collect, clone, publish (three-way sync), push | `export/export_status.py`, `dashboard_exporter.py`, `sync_dashboards.py`, `push_to_git.sh` |
| Project deployments | per project `job.json`, a recovery checkpoint, a worker thread, `Deployments.lock`; for all `owner.json` and `Coordinator.lock` | review, approve, resume, cancel, the stages of a job, recovery at startup | `import/project_deployment.py`, `dashboard_sync.py`, `project_executor.py`, `project_recovery.py`, `project_ui.py` |
| Managed files and resources | files below the HA configuration, `/data/managed-file-bases.json`, journals, backups | review, initialise bases, Apply with rollback | `import/managed_files.py` |
| Inventory, analysis, managed configuration | files of one Export run | pure transformations | `export/exporter.py`, `inventory.py`, `analyze.py`, ... |
| Review UI, profiles, scanning, packaging | none over time | rendering, validation | `review_ui.py`, `project_profiles.py`, `security.py`, ... |

The add-ons never call each other. Import writes dashboards into HA and
provenance into a shared directory; Export reads both and pushes to `main`;
Import reads Git. Users edit HA and developers commit to Git at any time, so
everything either add-on has read may be old when it acts on it. Project
deployments run in Import's process, one thread per project, and use the
dashboard Apply while they own HA.

What is hard here: two one-way paths that close a loop through four
unsynchronised stores; provenance in three files written one after the other;
stale snapshots; rollbacks that may fail themselves; jobs that survive restarts
of Import in the middle of any step, next to HTTP requests that look at the
same files without the worker's knowledge. `PROJECT.json` lists the hazards at
their lines with the properties that cover them.

## Modules

| Module | Models |
|---|---|
| `Provenance` | what a provenance store says and what Import and Export conclude from it (values only) |
| `DashboardLogic` | the three-way classification of Import, the three-way sync decision of Export (values only) |
| `DashboardSync` | both add-ons, HA, Git and the provenance files as one state machine |
| `DashboardSyncProofs` | theorems about `DashboardSync`: types, bases, what Export pushes |
| `DashboardApplyProofs` | theorems about `DashboardSync`: what an Apply replaces, records and undoes |
| `FeatureGuardProofs` | theorems about `DashboardSync`: no feature deployment reaches `main` |
| `Deployments` | the Coordinator, jobs, requests, workers, startup recovery, HA and the executor |
| `HaReservation` | the abstract promise of the Coordinator |
| `DeploymentsProofs` | theorems about `Deployments`: the reservation |
| `DeployJobProofs` | theorems about `Deployments`: what a job promises |
| `ReservationProofs` | theorems about `Deployments`: what HA is reserved for, and how long |
| `Installer` | how a deployment replaces the code of an integration, directory operation by directory operation |
| `AtomicInstall` | the abstract promise of the installer: one step |
| `InstallerProofs` | theorems about `Installer` |
| `ManagedApply` | the Apply of managed files and Lovelace resources, with every failure path |
| `ManagedApplyProofs` | theorems about `ManagedApply` |
| `MCDashboardSync`, `MCDeployments` | the symmetry sets for TLC |

### DashboardSync

`imp` is Import's request in progress (there is at most one: `REPO_LOCK`), with
`imp.pc` the external call that comes next; `exp` is Export's run in progress.

| Actions | Code |
|---|---|
| `Review`, `HealShared`, `CollectChanges` | `render_review`, `review_stream`, `collect_changes` and the adoption of LIVE that equals `main` |
| `Apply`, `ApplyManaged`, `Reload`, `SkipDashboard`, `StartDashboard`, `LastReadRaises` | `_apply_plan` up to the last read of LIVE, which ends the whole Apply if it raises; before the dashboards, a successful Apply of managed files saves the provenance once (`app.py:834-846`) |
| `CreateDashboard` .. `VerifyRaises` | create, save, read-back and their exception path |
| `PersistShared`, `PersistMarker`, `PersistLocal`, `PersistFails`, `PersistUnverified` | `persist_provenance` and `save_store` |
| `Restore`, `RestoreFails`, `ArmGuard`, `ArmFails` | `restore_dashboard`, `arm_fail_closed_guard` |
| `ExportCollect`, `ExportClone`, `ExportPublish`, `ExportPush`, `ExportEnds`, `ExportFails` | `run.sh`: `export_status.py` (collect), `push_to_git.sh` with `export_status.py` (publish) |
| `HaEdit`, `GitCommit`, `GitRebase`, `LoseShared`, `LoseLocal`, `CrashImport` | the environment |

Abstractions. A configuration is a member of `Contents`, and SHA-256 is taken to
be injective, so a hash is the content. A Git source is `main`, a feature
branch or a commit; a revision has one file per dashboard and the base file. A
project job applies the commit of `main` it was approved with, however far
`main` has moved (`git_source.py:227-235`): its review is `pinned`. A new review
replaces the form before it. After an Apply the page shows a new
review: that is `Review` again. The snapshot of several dashboards is taken in
one step. The request for an Export after an Apply is an event HA hands to an
automation outside this repository; the model lets Export start at any time.
A push of Export that changes the inventory only is not an action: for the
dashboards it means that another clone is outdated, as a commit of a developer
does (`GitCommit`). A shared file damaged in the instant between its rewrite and
the reading back of it in `load_import_store` ends that request with an error;
in the model the file is damaged after a request and healed by the next.
`lineage`, `seen` and `armed` are history variables; no guard reads them, except
that the export and import records carry a copy of `lineage` along.

`Faults` names what may fail in a run, one name per kind (see `FaultKinds`), so
that each run says which failures its property is about. `Activities` adds the
project jobs (`jobs`) and the Applies of managed files (`managed`).

### Deployments

`request[p]` is the HTTP request that holds project `p`'s lock, `worker[p]` its
thread with its own copy of the job, `boot[p]` the `recover_approved` calls
startup has left to do (two: `get_manager`, then the registration loop). The
Coordinator's lock is held across steps by an ordinary Apply (`lock =
Ordinary`) and by a worker applying dashboards.

| Actions | Code |
|---|---|
| `Review`, `Approve`, `Resume`, `ResumeChecks`, `Cancel` | the requests, up to their first write |
| `RequestClaims`, `RequestSaves`, `RequestLaunches`, `CancelFrees` | the writes they go on to make, with the order of the code |
| `RequestRaises`, `CancelRaises` | any of these accesses to disk raising: the request is over, and what it has written stays |
| `Reads`, `Claims`, `Backup`, `DeployBackend`, `Install`, `RequestRestart`, `WaitsForHa`, `EntersOperation`, `ApplyDashboards`, `FinalCheck` | `_run`, stage by stage |
| `Saves`, `SaveRaises`, `DiskRaises`, `CallRaises`, `Frees`, `Fails`, `Ends` | `_advance`, the saves of the last stage, the first reading, claim and release, and the `except` and `finally` of `_run` |
| `Recover`, `RecoverRaises`, `Crash` | startup, and Import stopping anywhere |

Abstractions. A release number identifies the backend and the integration files
of a release; a project's dashboards, bundles and resources are one value. The
HA backup policy is the profile's "targeted" one. `Installer.install` is one
step; module `Installer` shows what that leaves out. The dashboard set of a
project is applied in one step, which `DashboardSync` and `ManagedApply` take
apart for an ordinary Apply. The 360 polls of the executor and the 120 polls of
HA are one step that succeeds or raises. `Repeats` allows Start and Resume for a job that is already
running: the page offers Start for a review and Resume for a failed job only,
but a second tab or a double click sends them, and `approve` and `resume`
accept them. `MaxInterrupts` bounds what cuts the code off anywhere: stops of
Import and failing accesses to its files, together. `atomic_json` syncs the
directory after the rename, so a write that raises may have been done: each has
both outcomes. A review refuses an older release only where the executor
reports the latest one, as the code does.

### Installer

One approved job at a time (the Coordinator sees to that), between the stages
"integration" and "verify". `target` is `custom_components/<domain>`, `stage`
and `previous` are the two private directories, `pc` is the directory operation
the worker performs next, `saw` the code it noted before HACS gave it up.

| Actions | Code |
|---|---|
| `Approve`, `Recover`, `Resume` | `approve`, `recover_approved`, `resume`, as far as the installation depends on them |
| `TakeOver`, `ConfirmTakeover` | `takeover`: HACS is asked to remove the repository, and the code must be the same afterwards |
| `AlreadyInstalled`, `CompletesInterrupted`, `StartsReplacing`, `Refuses` | the four ways `install` begins, from what the three directories hold |
| `WriteFile`, `SetAside`, `MoveIn`, `MoveInRaises`, `MoveBack`, `Advance` | the stage written file by file, both renames, the second one undone if it raises |
| `Finish`, `RemoveFile`, `RemoveDirectory`, `Succeed` | `finish` and the save of "success" |
| `CallRaises`, `Crash` | any operation raising before its effect; Import stopping anywhere, a file it was writing torn |
| `HacsUpdates`, `UserEdits` | the environment |

Abstractions. `Names` has the managed files and one unmanaged file that stands
for any other; a hash is the content; a missing directory and an empty one have
the same snapshot, as in `snapshot`. Permissions, links and `fsync` are left
out, except that a file torn by a stop may hold anything: what is renamed has
been synced before.

`AtomicInstall` says what `Deployments` assumes: the code changes from the
reviewed to the approved one in one step or not at all. Its `Install` needs an
earlier `Look` and not the reviewed code at that very moment: the comparison
(`project_deployment.py:178`) and the rename (203) are two system calls, and an
edit in between is replaced by the deployment and deleted with the previous
directory when the job finishes. No other step of the installer loses a change.

### ManagedApply

`job` is the Apply in progress, `job.pc` its next step, `job.reported` the files
its page has an "Applied" line for so far, and `job.said` what the page says of
the whole. A line is written when the file is activated, before later files are
activated and before the bases are saved, and stays if the Apply is rolled back
afterwards: the code resets `applied` and not `results`.

| Actions | Code |
|---|---|
| `Review`, `InitializeBases` | `collect_review_context`, `initialize_missing_bases` |
| `Apply`, `WriteFile`, `WriteFails`, `ReadbackFails` | `_apply_plan`, the planning and the writing loop of `apply_managed_files` |
| `ActivatePackages`, `ActivateOther`, `ActivationFails`, `CacheBust`, `SaveBases`, `SaveBasesFails` | activation, packages together and the other files one by one, each with its line on the page; cache bust; the bases file |
| `JournalFails`, `Restore`, `RestoreFails`, `ReloadAgain` | the journal, and the `except` clause of `apply_managed_files` (`Fails`: its own first write may end the request without a rollback) |
| `ListResources`, `CreateResource`, `CreateUnanswered`, `ResourceFails`, `DeleteCreated`, `DeleteFails`, `AllDeleted` | `apply_declared_resources`, `rollback_created_resources` |
| `Dashboards` | the outcome of the dashboard step, which `DashboardSync` models |
| `HaEdit`, `HaResource`, `Crash`, `GitCommit` | the environment: at any moment, but for the commits |

Abstractions. Contents are valid UTF-8 and YAML (otherwise a file is never
selectable); what `check_config` says of them is nondeterministic. The order in
which files are written or restored is any order: the form gives it. The journal
is only a write that may fail, because nothing reads it. Preview staging, the
last-apply record and the provenance of managed files are left out: no decision
depends on them. A commit while an Apply is under way is modelled as one after it, since
the Apply keeps to the checkout made at its start. HA answers a creation with the id of the resource, or not at
all, so the search by URL alone for an answer without an id (1024-1032) is not
reached; the page does not offer a resource that is already there, so the line
"already present" (1074-1079) is not either. That a file "is loaded" means that
HA has reloaded it; what some package platforms need a restart for (877-882) is
said on the page and not modelled.

## Runs

Two dashboards or two projects are enough for one to disturb the other; three
contents for Git, LIVE and the base to differ pairwise; one user edit and one
commit in addition to what both add-ons do for every three-way case; three
revisions for a commit and an Export after it; one release beyond the installed
one for a change. Interruptions (a stop of Import, a failed access to disk) come
at every point of a job and a request: two of them in `deploy_faults`, so that
the second can hit the repair of the first, one in `deploy_overlap` and
`deploy_live`, none in `deploy_leak`.

| Run | Asks | Outcome |
|---|---|---|
| `sync_overlap` | Are the inductive invariants of the proofs true? Is an edit in HA, or a commit on `main`, ever lost? | holds: with failing saves and read-backs, jobs pinned to older commits, both add-ons overlapping |
| `sync_serial` | Is what descends from a feature marked wherever Export may look (`FeatureGuarded`)? Can it reach `main`? | yes and no, if requests and runs do not overlap: with lost or damaged shared files, failing writes, Applies of managed files, edits during an Apply |
| `sync_partial` | Does the request know what it needs at each step (`WorkInOrder`)? Does one failing dashboard of an Apply drop the record of another? Is what failed undone? | yes, no and yes, for failures before the effect: dashboards that are missing, unsaved or empty in HA, or malformed in Git; both add-ons may stop |
| `sync_export_race` | Does `sync_serial` hold with overlap? | **violated**, see findings |
| `sync_armed_guard` | Does the armed guard stop Export? | **violated**, see findings |
| `deploy_overlap` | Does only the owner work on HA? Is the Coordinator the abstract reservation? | holds |
| `deploy_faults` | Is the invariant behind the proofs about jobs one? One restart, a checkpoint before any change, success only when deployed, no way back, no leaked reservation, and what may HA be held for (`HeldForJobs`)? | holds without repeated requests, with up to two interruptions (no leaked reservation: up to one) |
| `deploy_live` | Does every started job end? | yes, under the fairness below |
| `installer` | Is the old code kept, is half a release ever in place, does a resumed job get through, is it one step? | holds with any operation raising, stops and torn files, outside the exceptions each property names |
| `deploy_leak` | Is the reservation leaked by a repeated Start? | **violated**, see findings |
| `managed_apply` | Is the invariant behind the proofs one? What do "applied", "rolled back" and "deleted" mean for files and resources? | holds under every fault, edits anywhere; "applied" means running on a page that reports no rollback |
| `managed_cache` | Does the version of a resource name the file HA serves? | **violated**, see findings |

`DeployOverlap`, `DeployFaults` and `Installer` switch the deadlock check off,
because there the system really may stop: a leaked reservation, or a job that
says "running" although its last write failed, leaves nobody anything to do
within the bounds; `Installer` ends when its jobs have.

Fairness. In `deploy_live`: weak fairness of the worker threads, of requests
that have started, of startup recovery and of the end of an ordinary Apply:
these are running threads of one process. Users, HA and stops of Import owe
nothing. All polling loops of the code are bounded, so a stage ends whether or
not HA or the executor answers. In `installer`: the worker, startup, and a user
who presses Resume after a failure (`Resume` also takes up a job whose failure
could not be saved; the page offers that only through a restart of Import).
That Resume is pressed is not the code's doing; the property asks what happens
if it is.

`sync_partial` starts with two dashboards Git has and HA does not hold, so that
one Apply can select both. `installer` has two managed files, so that a stage
can be half written, two contents, two jobs in a row, for what one leaves
behind, one edit, and two faults, for a fault during the repair of the first. `managed_apply` has one file of each profile, one edit, one
commit and one Apply; an earlier Apply is represented by a resource it created
and by bases of any age. Its file properties name their exceptions: a file a
user touched since the last read, a failed restore that is reported, and a
failed read-back.

`sync_partial` starts with Git files that are no empty shells (`InitialGit`).

What the runs leave out, on purpose: `cache` (Export cannot write its cache) in
`sync_serial`, which TLC would not finish in five minutes, and which the
theorems of `FeatureGuardProofs` allow; `edit_race` (an edit of the very dashboard
between the last read and the save; HA has no compare-and-set) outside
`sync_serial`; `lost_ack` and `readback` in `sync_partial`, where the code does
leave LIVE changed (restores that raise and stops of Import are in, and excused
by `FailedApplyRestoresLive`: nothing runs that could restore); a stop of Import between save and record in `sync_serial`;
`replace` in `deploy_faults`, where a file replaced between the last check and
the write of "success" is beyond any program.

## Findings

1. `sync_export_race` - Apply saves a feature branch's dashboard (`app.py:902`)
   and records it afterwards (937). Export does not wait for it: a run that
   collects LIVE, reads the provenance (`export_status.py:93`) and pushes between
   the two finds no record and publishes the feature's content to `main`,
   against README line 40. In the trace it is the first deployment of all, so
   there is neither a shared file nor the marker, and Export treats the
   dashboard as older versions did.
2. `sync_armed_guard` - `arm_fail_closed_guard` writes a marker that
   `load_export_store` looks at only when the shared file is missing or
   unreadable; with an older readable file Export is not blocked, against the
   function's docstring and the message Apply shows.
3. `deploy_leak` - `approve` of a running job claims HA after the worker
   released it (`project_deployment.py:560`).
4. `managed_cache` - a resource Apply creates gets the hash of the file in Git
   even if that file is not applied, or was rolled back a moment before
   (`managed_files.py:1111`): browsers cache the old file under the new version,
   and the later Apply of the file skips the update it finds already made.

Not stated as findings, because no run of its own shows them, but seen while
modelling:

* With a stop of Import between the writes of the shared and the local
  provenance file, `NoFeatureExport` fails: a feature
  branch is applied to two dashboards, the local file misses the second record,
  the next review of `main` adopts the first dashboard from that file
  (`load_import_store` prefers it) and saves it over the shared one, and Export
  publishes the second dashboard. Add "crash" to `SyncSerial.cfg`, with two
  dashboards and the stop restricted to `p_marker` and `p_local`.
* `DashboardSync.verify` (`dashboard_sync.py:49-59`) asks of every managed file a
  deployment changed for a record with the deployment's commit. It is written
  only by the Apply that wrote the file (`app.py:834-846`); a resumed job skips
  what LIVE already holds (`dashboard_sync.py:79`), and only dashboards are ever
  adopted. If Import stops between the two, or the record cannot be saved, each
  Resume fails there, and HA stays reserved for a job nobody can cancel.
* A stage torn by a stop of Import has to be removed by hand (`Damaged` in
  `Installer`); so does one left behind by such a repair before the next job.
* `DashboardAccess.read` and `snapshot` (`app.py:1159-1190`) read the checkout
  without `REPO_LOCK`, so a review of another revision may change it meanwhile.
* With two interruptions, one of approve after its claim (a stop, or a failing
  save at `project_deployment.py:557`) and one of the cancel that follows (a
  stop before 692, or a failing save that wrote), HA stays reserved for a
  cancelled job, which no operation frees. With a release and then the record of
  its failure raising, it stays reserved for a successful job until Import
  starts again. `HeldForJobs` excuses these and no others; one interruption
  leaves nothing behind (`ReservationIsNeeded`).
* The page of an Apply that was rolled back may still say "Applied, verified" of
  files activated before the failure (`managed_files.py:1523-1531`, 1561-1566):
  line 1620 resets `applied`, not `results`. It reports the rollback beside
  them, so `AppliedMeansRunning` speaks of pages that report none.
* With a repeated Resume the copy it read before may be saved over the worker's,
  which takes the job back by stages and can make it restart HA again
  (`Repeats = TRUE` in `DeployFaults.cfg`). The page does not offer it.
* `ReloadAgain`: the reload after a rollback is meant to be reported when it
  fails (`managed_files.py:1608`), but `activate_package` returns failures
  instead of raising them, and what it returns is not looked at.
* `JournalFails`: a journal write that fails after the bases were saved puts the
  files back and leaves the bases at Git's hash ("CHANGED IN HA" from then on);
  one that fails again in the `except` clause leaves everything changed.
* `ReadbackFails`: a file whose read-back fails is not in `written_metas`, so the
  rollback leaves it replaced.
* A managed file that equals Git never gets a new base once it has one, so after
  a stop between write and save the next change in Git is a conflict.

## Proofs

For all values of the constants, from the named ASSUMEs of the modules only
(finite bounds are natural numbers, model values differ from contents, jobs and
owners). Each argument is an inductive invariant, checked by TLC in the run of
the same component, one lemma per group of actions, and the properties from it.

* `DashboardSyncProofs`: `TypeOK` is inductive together with `RequestOK` (what
  Import still has to apply is selectable in the form, and Git has a file for
  it: without that, `SaveDashboard` could write a value that is no
  configuration). `Inductive` adds `LiveWasSeen`, `RunOK` and `BasesWereAgreed`:
  a run's snapshot was LIVE, what it is about to push has bases both sides held,
  and it overwrites only contents that were LIVE. `NoLostGitChange` follows from
  `RunOK` and the fast-forward guard of the push.
* `DashboardApplyProofs`: `WorkInOrder` is inductive together with `Inductive`,
  with Import and Export overlapping and under every fault (`ApplyWorksInOrder`).
  `Positioned` says which dashboard is current, to do or applied at each
  `imp.pc`; `RecordsKept` that the store an Apply writes next has every record it
  has reported, of which `AppliedIsRecorded` is the part on disk: without the
  store in memory, recording the second dashboard could drop the first.
  `CurrentFromGit` says that LIVE of the current dashboard is a content Git has,
  an empty shell or nothing, from the last read to the end of its step. That
  needs `RecordsFromGit` (the hash of every provenance entry is of a file Git
  has) and `PlanFromGit` (an applyable dashboard's LIVE equals the base, `main`
  or its own record). `NoLostHaEdit` follows without the fault `edit_race`.
  `Untouched` says that before its save the current dashboard is as the plan saw
  it, or was created, and gives `FailedApplyRestoresLive`; besides `edit_race`,
  `lost_ack` and `readback` are excluded there, since after them the code
  reports a failure and leaves the new configuration in place.
* `FeatureGuardProofs`: `FeatureGuarded` relates the history variable `lineage`
  to the files. `LineageOK`: LIVE that equals a content of `main` counts as
  canonical. `StoresGuarded`: if LIVE of a dashboard descends from a feature, the
  marker exists, every readable file says so, and at least one of the two files
  is readable; a request in progress carries it in `imp.store` and `imp.next`, or
  is between the save and the record of that dashboard (`Unrecorded`), when a
  serial Export does not run; and no plan made of `main` would take such a
  dashboard for unchanged. `RunGuarded`: what a run of Export found in its
  snapshot is still so marked when it publishes. The hypotheses (`Accountable`)
  allow more than the run does (failing saves, more dashboards, a lost local
  file), and TLC finds `NoFeatureExport` violated without any one of them: with
  `Overlap` Export may run between a save and its record (finding 1); after a stop, a lost answer, a failed
  read-back or a failed restore LIVE descends from a feature and no file says so
  (finding 2 is where that leads); and with two dashboards and both files lost,
  the next Apply writes a file that knows its own dashboard and not the other.
  One of the two files may be lost or damaged at any time and repeatedly,
  creates, saves and provenance writes may fail, and users may edit during an
  Apply.
* `DeploymentsProofs`: `OwnsHa(p)` alone is not inductive: a worker's claim has
  to survive other requests. `WorksOnJob` says that a worker past its first read
  works on the very job of `job.json` and that it is running; `RequestInOrder`
  what a request in progress may still rely on; and an ordinary Apply excludes
  every owner. `ImplementsReservation` maps the abstract user to `Ordinary`
  while an ordinary Apply holds the lock and to the owner otherwise; each step
  is a step of `HaReservation` or a stutter.
* `DeployJobProofs`: `InOrder` adds what the stages have reached. `Reached` says
  which release, evidence and restart a stage implies; `SamePlan` that the
  copies of a job, in a worker or a request, carry its plan; `UpToDate` that the
  copy a request is about to save is not behind `job.json`; `LeftBehind` what an
  earlier job of the project left. From it follow `RestartAtMostOnce`,
  `SuccessMeansDeployed`, `EvidenceFirst` and `JobMovesForward`, under
  `Undisturbed`: no repeated Start or Resume of a running job, and nobody
  replaces installed files during a deployment. Both break these promises:
  a repeated request may save a copy older than the worker's, and a replaced
  file is seen by the next check only.
* `ReservationProofs`: `ReservationIsNeeded` speaks of finished jobs and is not
  inductive: a cancelled job is left with its reservation by what happened to
  its approve, and a reservation of an earlier job would be out of its sight
  once the project has a new one. `HeldFor(p)` says that the owner is the
  project's present job; that a job still in review has it only in the middle of
  approve, or after an interruption; a successful one only until its worker or
  startup releases it; and a cancelled one only until the request that cancels
  it does, which then comes after an interruption. Stops of Import and failing
  accesses to disk count alike: approve's save raising after its claim leaves
  what a stop there leaves. `HeldForJobs` is proved for any number of them, with
  what two can break spelled out in it; `ReservationsEnd` draws
  `ReservationIsNeeded` from it for at most one, both under `Undisturbed` as
  above (`deploy_leak` shows the repeated request).
* `InstallerProofs`: `Positioned` and `Staged` say what the worker's position
  implies for the stage and the previous directory whoever edits the target;
  `Followed` says where the directories are as long as no user does. Without
  `Staged`, a resumed job could complete from a stage that is not the release.
  The refinement takes as abstract code the previous directory while the old
  code is set aside and the new one not in place, and the target otherwise: the
  second rename is the one `Install` step.
* `ManagedApplyProofs`: `Inductive` says which files are still planned, written,
  backed up and restored at each `job.pc`, that bases are contents LIVE has held,
  what the page may say at that point, and for which files. All six properties of
  the run follow.

Every invariant and action property that a passing run checks is proved.
Only model-checked: `RunningEnds` and `ResumedGetsThrough`, which as liveness
properties under fairness are out of the prover's reach. No module of this
project uses a RECURSIVE operator, and nothing is proved by induction over data.

## Not modelled

* Export's inventory, semantic analysis, manifests and managed-configuration
  snapshot: transformations of one run's snapshots that keep no state.
* Project profiles and the managed-file policy: validated constants, here the
  CONSTANTS `Projects`, `Packages`, `Modules` and `Templates`.
* The review page, its scripts, diffs and warnings: rendering. What the user has
  open is the variable `form`.
* Content scans (`security.py`, `validate_export.py`): text searches in values
  that are opaque here.
* Packaging and AppArmor: no behaviour over time.

## What could follow

* The steps of a project's dashboard set inside a deployment (`dashboard_sync.py`
  with `_apply_plan`), to state when a stopped deployment can be resumed there.
* Provenance over several Applies with a stale local file, once the code decides
  which of the two files is to be believed.
* `ReservationsEnd` with files of an integration replaced by others: the part of
  `InOrder` it needs does not depend on them, but is proved together with the
  part that does.
