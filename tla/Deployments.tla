---------------------------- MODULE Deployments -----------------------------
(***************************************************************************)
(* Reviewed project deployments (import/project_deployment.py): for each   *)
(* project a durable job.json, a worker thread that takes the approved job *)
(* through its stages, and HTTP requests that create, approve, resume and  *)
(* cancel jobs.  owner.json reserves HA for one approved job; ordinary     *)
(* Apply only runs while there is no owner.                                *)
(*                                                                         *)
(* Requests of one project hold its Deployments.lock, the worker does not. *)
(* An action is one file replacement, one external call, or one reading of *)
(* state that another thread may change before it is used.  Import may     *)
(* stop at any point; its files and HA stay.                               *)
(***************************************************************************)
EXTENDS Integers, FiniteSets

CONSTANTS
  Projects,     (* The keys of PROJECTS.                                   *)
  Contents,     (* Configurations of a project's dashboard set.            *)
  Ordinary,     (* Ordinary Apply, as a user of HA.                        *)
  None,         (* No file, no thread, nobody.                             *)
  Faults,       (* Which failures may happen (see Fault).                  *)
  Repeats,      (* May Start and Resume arrive while a worker is running?  *)
  MaxJobs,      (* Bound: reviews per project.                             *)
  MaxRelease,   (* Bound: releases of a project, 0 is installed at first.  *)
  MaxEdits,     (* Bound: changes made from outside the deployment.        *)
  MaxInterrupts (* Bound: stops of Import and accesses to disk that fail.  *)

FaultKinds ==
  {"ha",        (* a call to HA, the executor or Export raises             *)
   "lost",      (* HA loses the restart request                            *)
   "disk",      (* a file of Import cannot be read, written or removed     *)
   "replace"}   (* somebody replaces the files of an integration           *)

JobIds == 1..MaxJobs
Releases == 0..MaxRelease

Stages == {"backup", "backend", "integration", "restart", "wait_ha", "dashboard", "verify"}

Jobs == [id : JobIds, status : {"review", "running", "failed", "success", "cancelled"},
         stage : Stages, target : Releases,
         backendBefore : Releases, integrationBefore : Releases, restart : BOOLEAN,
         before : Contents, after : Contents, exported : BOOLEAN]

Owners == [project : Projects, id : JobIds]

ASSUME ConstantsAssumption ==
  /\ Faults \subseteq FaultKinds
  /\ Repeats \in BOOLEAN
  /\ MaxJobs \in Nat /\ MaxRelease \in Nat /\ MaxEdits \in Nat /\ MaxInterrupts \in Nat

ASSUME DistinctAssumption ==
  /\ Ordinary \notin Projects \cup Owners \cup {None}
  /\ None \notin Projects \cup Owners \cup Jobs

VARIABLES
  job,        (* /data/projects/<id>/job.json                              *)
  evidence,   (* /data/projects/<id>/recovery/<job>.json                   *)
  owner,      (* /data/projects/owner.json                                 *)
  lock,       (* Coordinator.lock: who holds it across other steps.        *)
  worker,     (* The thread in Deployments._run: position and its job.     *)
  request,    (* The HTTP request that holds Deployments.lock.             *)
  boot,       (* recover_approved calls left to do at startup.             *)
  backend, installed, loaded,   (* Releases on the executor, in HA's files *)
                                (* and in HA's memory.                     *)
  dash,       (* The LIVE dashboard set of each project.                   *)
  restarting, (* HA has accepted a restart.                                *)
  edits, interrupts,            (* How often the environment acted.        *)
  restarts, last                (* History: restart requests of the job (2 *)
                                (* means more than one), and who changed   *)
                                (* HA last.                                *)

files    == <<job, evidence, owner>>
threads  == <<worker, request, boot, lock>>
ha       == <<backend, installed, loaded, dash, restarting>>
bounds   == <<edits, interrupts>>
history  == <<restarts, last>>
vars     == <<files, threads, ha, bounds, history>>

Fault(kind) == kind \in Faults

Interrupted ==
  /\ interrupts < MaxInterrupts
  /\ interrupts' = interrupts + 1
  /\ UNCHANGED edits

(* An access to a file of Import raises.  atomic_json may raise after the  *)
(* new file is in place (it syncs the directory last): a failed write has  *)
(* been done or not.                                                       *)
DiskFails == Fault("disk") /\ Interrupted

Idle == [pc |-> "idle", job |-> None]

Mine(p, j) == [project |-> p, id |-> j.id]

Init ==
  /\ job = [p \in Projects |-> None]
  /\ evidence = [p \in Projects |-> None]
  /\ owner = None /\ lock = None
  /\ worker = [p \in Projects |-> Idle]
  /\ request = [p \in Projects |-> Idle]
  /\ boot = [p \in Projects |-> 0]
  /\ backend = [p \in Projects |-> 0]
  /\ installed = [p \in Projects |-> 0]
  /\ loaded = [p \in Projects |-> 0]
  /\ dash \in [Projects -> Contents]
  /\ restarting = FALSE
  /\ edits = 0 /\ interrupts = 0
  /\ restarts = [p \in Projects |-> 0]
  /\ last = None

-----------------------------------------------------------------------------
(* The Coordinator.                                                        *)

(* Mutant: a claim replaces whatever owner there is.                       *)
MayClaimAlways(p, j) == TRUE

(* claim: refused while somebody else owns HA.                             *)
MayClaim(p, j) == owner \in {None, Mine(p, j)}

Claim(p, j) ==
  /\ lock = None
  /\ owner' = IF MayClaim(p, j) THEN Mine(p, j) ELSE owner

(* Mutant: ordinary Apply does not look at owner.json.                     *)
MayApplyAnyway == lock = None

(* operation() without a job.                                              *)
MayApply == lock = None /\ owner = None

-----------------------------------------------------------------------------
(* Around the deployments: ordinary Apply, users and HA itself.            *)

Serving == \A p \in Projects : boot[p] = 0

BeginOrdinaryApply ==
  /\ Serving /\ MayApply
  /\ lock' = Ordinary
  /\ UNCHANGED <<files, worker, request, boot, ha, bounds, history>>

OrdinaryApply(p, content) ==
  /\ lock = Ordinary /\ edits < MaxEdits
  /\ dash' = [dash EXCEPT ![p] = content]
  /\ last' = Ordinary
  /\ edits' = edits + 1
  /\ UNCHANGED <<files, threads, backend, installed, loaded, restarting, interrupts, restarts>>

EndOrdinaryApply ==
  /\ lock = Ordinary
  /\ lock' = None
  /\ UNCHANGED <<files, worker, request, boot, ha, bounds, history>>

(* Somebody edits a dashboard in HA.                                       *)
EditDashboard(p, content) ==
  /\ edits < MaxEdits /\ content # dash[p]
  /\ dash' = [dash EXCEPT ![p] = content]
  /\ edits' = edits + 1
  /\ UNCHANGED <<files, threads, backend, installed, loaded, restarting, interrupts, history>>

(* HACS or a user replaces the integration's files.                        *)
ReplaceIntegration(p, release) ==
  /\ Fault("replace") /\ edits < MaxEdits /\ release # installed[p]
  /\ installed' = [installed EXCEPT ![p] = release]
  /\ edits' = edits + 1
  /\ UNCHANGED <<files, threads, backend, loaded, dash, restarting, interrupts, history>>

(* HA starts again, asked by a deployment or by a user: every integration  *)
(* is loaded from its files.                                               *)
HaRestarts ==
  /\ restarting \/ loaded # installed
  /\ loaded' = installed
  /\ restarting' = FALSE
  /\ UNCHANGED <<files, threads, backend, installed, dash, bounds, history>>

-----------------------------------------------------------------------------
(* Requests.  At most one per project is inside its lock.                  *)

Job(p, status) == job[p] # None /\ job[p].status = status

WithoutWorker(p) == worker[p] = Idle

(* prepare and _review: pin a release and the dashboards.  (An older one   *)
(* is refused only where the executor reports its latest release.)         *)
Review(p, target, after) ==
  /\ Serving /\ request[p] = Idle
  /\ WithoutWorker(p)
  /\ job[p] # None => job[p].status \in {"success", "cancelled"}
  /\ LET id == IF job[p] = None THEN 1 ELSE job[p].id + 1
     IN  /\ id \in JobIds
         /\ job' = [job EXCEPT ![p] =
              [id |-> id, status |-> "review", stage |-> "backup", target |-> target,
               backendBefore |-> backend[p], integrationBefore |-> installed[p],
               restart |-> target # installed[p] \/ target # loaded[p],
               before |-> dash[p], after |-> after, exported |-> FALSE]]
  /\ restarts' = [restarts EXCEPT ![p] = 0]
  /\ UNCHANGED <<evidence, owner, threads, ha, bounds, last>>

Requesting(p, pc, j) == request' = [request EXCEPT ![p] = [pc |-> pc, job |-> j]]
RequestEnds(p)       == request' = [request EXCEPT ![p] = Idle]

(* For a running job: the worker may have ended without saving.            *)
MayRepeat(p) == Job(p, "running") /\ (Repeats \/ WithoutWorker(p))

(* approve: the user starts the reviewed plan.  Nothing happens if what    *)
(* it was reviewed against has changed.                                    *)
Approve(p) ==
  /\ Serving /\ request[p] = Idle
  /\ \/ /\ Job(p, "review")
        /\ installed[p] = job[p].integrationBefore /\ backend[p] = job[p].backendBefore
        /\ Requesting(p, "claim_review", job[p])
     \/ MayRepeat(p) /\ Requesting(p, "claim", job[p])
  /\ UNCHANGED <<files, worker, boot, lock, ha, bounds, history>>

(* resume reads job.json, then whether a worker is running.                *)
Resume(p) ==
  /\ Serving /\ request[p] = Idle
  /\ Job(p, "failed") \/ MayRepeat(p)
  /\ Requesting(p, "resume", job[p])
  /\ UNCHANGED <<files, worker, boot, lock, ha, bounds, history>>

ResumeChecks(p) ==
  /\ request[p].pc = "resume"
  /\ IF WithoutWorker(p) THEN Requesting(p, "claim_resume", request[p].job) ELSE RequestEnds(p)
  /\ UNCHANGED <<files, worker, boot, lock, ha, bounds, history>>

RequestClaims(p) ==
  /\ request[p].pc \in {"claim_review", "claim_resume", "claim"}
  /\ Claim(p, request[p].job)
  /\ CASE ~ MayClaim(p, request[p].job) -> RequestEnds(p)
       [] MayClaim(p, request[p].job) /\ request[p].pc = "claim" ->
            Requesting(p, "launch", request[p].job)
       [] OTHER -> Requesting(p, IF request[p].pc = "claim_review" THEN "save_review"
                                 ELSE "save_resume", request[p].job)
  /\ UNCHANGED <<job, evidence, worker, boot, lock, ha, bounds, history>>

(* Mutant: a resumed job starts over.                                      *)
ApprovedFromStart(j) == [j EXCEPT !.status = "running", !.stage = "backup"]

Approved(j) == [j EXCEPT !.status = "running"]

(* The request's own copy of the job replaces job.json; approve then       *)
(* claims a second time.                                                   *)
RequestSaves(p) ==
  /\ request[p].pc \in {"save_review", "save_resume"}
  /\ job' = [job EXCEPT ![p] = Approved(request[p].job)]
  /\ Requesting(p, IF request[p].pc = "save_review" THEN "claim" ELSE "launch", job'[p])
  /\ UNCHANGED <<evidence, owner, worker, boot, lock, ha, bounds, history>>

(* _launch: one worker per project.                                        *)
Launch(p) ==
  worker' = IF WithoutWorker(p) THEN [worker EXCEPT ![p] = [pc |-> "start", job |-> None]]
            ELSE worker

RequestLaunches(p) ==
  /\ request[p].pc = "launch"
  /\ Launch(p)
  /\ RequestEnds(p)
  /\ UNCHANGED <<files, boot, lock, ha, bounds, history>>

(* Mutant: cancel leaves the reservation alone.                            *)
CancelKeepsOwner(p) ==
  /\ Serving /\ request[p] = Idle
  /\ Job(p, "review")
  /\ job' = [job EXCEPT ![p].status = "cancelled"]
  /\ UNCHANGED <<evidence, owner, threads, ha, bounds, history>>

(* cancel: only a review; frees a reservation that an interrupted approve  *)
(* left behind.                                                            *)
Cancel(p) ==
  /\ Serving /\ request[p] = Idle
  /\ Job(p, "review")
  /\ job' = [job EXCEPT ![p].status = "cancelled"]
  /\ IF owner = Mine(p, job[p]) THEN Requesting(p, "free", job'[p]) ELSE UNCHANGED request
  /\ UNCHANGED <<evidence, owner, worker, boot, lock, ha, bounds, history>>

CancelFrees(p) ==
  /\ request[p].pc = "free" /\ lock = None
  /\ owner' = IF owner = Mine(p, request[p].job) THEN None ELSE owner
  /\ RequestEnds(p)
  /\ UNCHANGED <<job, evidence, worker, boot, lock, ha, bounds, history>>

(* A request whose claim, save or release raises is over; what it has      *)
(* written stays.                                                          *)
RequestRaises(p) ==
  /\ DiskFails
  /\ \/ /\ request[p].pc \in {"claim_review", "claim_resume", "claim"} /\ lock = None
        /\ owner' = owner \/ (MayClaim(p, request[p].job) /\ owner' = Mine(p, request[p].job))
        /\ UNCHANGED job
     \/ /\ request[p].pc \in {"save_review", "save_resume"}
        /\ job' \in {job, [job EXCEPT ![p] = Approved(request[p].job)]}
        /\ UNCHANGED owner
     \/ request[p].pc = "free" /\ lock = None /\ UNCHANGED <<job, owner>>
  /\ RequestEnds(p)
  /\ UNCHANGED <<evidence, worker, boot, lock, ha, history>>

(* cancel raises after its write: it never comes to the reservation.       *)
CancelRaises(p) ==
  /\ Serving /\ request[p] = Idle
  /\ Job(p, "review") /\ DiskFails
  /\ job' = [job EXCEPT ![p].status = "cancelled"]
  /\ UNCHANGED <<evidence, owner, threads, ha, history>>

-----------------------------------------------------------------------------
(* The worker: _run.  worker[p].job is its own copy of the job.            *)

At(p, pc)       == worker[p].pc = pc
AtStage(p, s)   == At(p, "work") /\ worker[p].job.stage = s
Goes(p, pc, j)  == worker' = [worker EXCEPT ![p] = [pc |-> pc, job |-> j]]
Continues(p, pc) == Goes(p, pc, worker[p].job)

(* An exception, whatever the stage, ends in "failed".                     *)
Raises(p) == Continues(p, "fail")

(* Who a change in HA or on the executor is due to.                        *)
Changes(p, changed) == last' = IF changed THEN Mine(p, worker[p].job) ELSE last

Reads(p) ==
  /\ At(p, "start")
  /\ IF Job(p, "running") THEN Goes(p, "claim", job[p]) ELSE Goes(p, "end", None)
  /\ UNCHANGED <<files, request, boot, lock, ha, bounds, history>>

Checkpoint(j) == [id |-> j.id, integration |-> j.integrationBefore, dash |-> j.before]

(* The claim, and for a job past its backup the check that the checkpoint  *)
(* is there.                                                               *)
Claims(p) ==
  /\ At(p, "claim")
  /\ Claim(p, worker[p].job)
  /\ IF /\ MayClaim(p, worker[p].job)
        /\ worker[p].job.stage = "backup" \/ evidence[p] = Checkpoint(worker[p].job)
     THEN Continues(p, "work") ELSE Raises(p)
  /\ UNCHANGED <<job, evidence, request, boot, lock, ha, bounds, history>>

HasEvidence(p) == evidence[p] # None /\ evidence[p].id = worker[p].job.id

(* Mutant: the checkpoint is taken of whatever is there.                   *)
MayCaptureAnything(p) == TRUE

(* The dashboards are still those reviewed, and so are the integration's   *)
(* files, unless an earlier attempt captured them.                         *)
MayCapture(p) ==
  /\ dash[p] = worker[p].job.before
  /\ HasEvidence(p) \/ installed[p] = worker[p].job.integrationBefore

Backup(p) ==
  /\ AtStage(p, "backup")
  /\ IF MayCapture(p)
     THEN /\ evidence' = IF HasEvidence(p) THEN evidence
             ELSE [evidence EXCEPT ![p] =
               [id |-> worker[p].job.id, integration |-> installed[p], dash |-> dash[p]]]
          /\ Continues(p, "advance")
     ELSE Raises(p) /\ UNCHANGED evidence
  /\ UNCHANGED <<job, owner, request, boot, lock, ha, bounds, history>>

(* Executor.deploy, if the release is a new one.                           *)
DeployBackend(p) ==
  /\ AtStage(p, "backend")
  /\ LET changed == worker[p].job.backendBefore # worker[p].job.target
     IN  /\ backend' = IF changed THEN [backend EXCEPT ![p] = worker[p].job.target] ELSE backend
         /\ Changes(p, changed)
  /\ Continues(p, "advance")
  /\ UNCHANGED <<files, request, boot, lock, installed, loaded, dash, restarting, bounds, restarts>>

(* Installer.install: idempotent, and only over the reviewed files.        *)
Install(p) ==
  /\ AtStage(p, "integration")
  /\ IF installed[p] \in {worker[p].job.target, worker[p].job.integrationBefore}
     THEN /\ installed' = [installed EXCEPT ![p] = worker[p].job.target]
          /\ Changes(p, installed' # installed)
          /\ Continues(p, "advance")
     ELSE Raises(p) /\ UNCHANGED <<installed, last>>
  /\ UNCHANGED <<files, request, boot, lock, backend, loaded, dash, restarting, bounds, restarts>>

(* The restart is requested at most once: the next stage is saved before.  *)
RequestRestart(p) ==
  /\ At(p, "restart_ha")
  /\ IF worker[p].job.restart
     THEN /\ restarting' = TRUE \/ (Fault("lost") /\ UNCHANGED restarting)
          /\ restarts' = [restarts EXCEPT ![p] = IF @ = 0 THEN 1 ELSE 2]
          /\ Changes(p, TRUE)
     ELSE UNCHANGED <<restarting, history>>
  /\ Continues(p, "work")
  /\ UNCHANGED <<files, request, boot, lock, backend, installed, loaded, dash, bounds>>

(* Mutant: any loaded release will do.                                     *)
AnyLoaded(p) == TRUE

(* ha("verify"): the integration reports the reviewed version.             *)
IsLoaded(p) == loaded[p] = worker[p].job.target

(* Up to 120 attempts.                                                     *)
WaitsForHa(p) ==
  /\ AtStage(p, "wait_ha")
  /\ IF IsLoaded(p) THEN Continues(p, "advance") ELSE Raises(p)
  /\ UNCHANGED <<files, request, boot, lock, ha, bounds, history>>

(* operation(project, id) around the Apply of the dashboards.              *)
EntersOperation(p) ==
  /\ AtStage(p, "dashboard") /\ lock = None
  /\ IF MayClaim(p, worker[p].job)
     THEN lock' = p /\ Continues(p, "apply")
     ELSE Raises(p) /\ UNCHANGED lock
  /\ UNCHANGED <<files, request, boot, ha, bounds, history>>

ApplyDashboards(p) ==
  /\ At(p, "apply")
  /\ IF dash[p] \in {worker[p].job.before, worker[p].job.after}
     THEN /\ dash' = [dash EXCEPT ![p] = worker[p].job.after]
          /\ Changes(p, dash' # dash)
          /\ Continues(p, "advance")
     ELSE Raises(p) /\ UNCHANGED <<dash, last>>
  /\ lock' = None
  /\ UNCHANGED <<files, request, boot, backend, installed, loaded, restarting, bounds, restarts>>

(* The last verification of all three parts.                               *)
FinalCheck(p) ==
  /\ AtStage(p, "verify")
  /\ LET j == worker[p].job
     IN  IF IsLoaded(p) /\ backend[p] = j.target /\ dash[p] = j.after
         THEN Continues(p, IF j.before # j.after /\ ~ j.exported THEN "export" ELSE "finish")
         ELSE Raises(p)
  /\ UNCHANGED <<files, request, boot, lock, ha, bounds, history>>

-----------------------------------------------------------------------------
(* What the worker saves.                                                  *)

StageAfter ==
  [backup |-> "backend", backend |-> "integration", integration |-> "restart",
   restart |-> "wait_ha", wait_ha |-> "dashboard", dashboard |-> "verify",
   verify |-> "verify"]

SavePoint(p) ==
  At(p, "advance") \/ AtStage(p, "restart") \/ At(p, "export") \/ At(p, "finish")

(* The job the worker is about to save.                                    *)
Saving(p) ==
  LET j == worker[p].job
  IN  CASE At(p, "export") -> [j EXCEPT !.exported = TRUE]
        [] At(p, "finish") -> [j EXCEPT !.status = "success"]
        [] OTHER           -> [j EXCEPT !.stage = StageAfter[j.stage]]

AfterSave(p) ==
  CASE At(p, "export") -> "finish"
    [] At(p, "finish") -> "release"
    [] AtStage(p, "restart") -> "restart_ha"
    [] OTHER -> "work"

(* _advance, the request for an Export (external) with its record, and the *)
(* success.                                                                *)
Saves(p) ==
  /\ SavePoint(p)
  /\ job' = [job EXCEPT ![p] = Saving(p)]
  /\ Goes(p, AfterSave(p), Saving(p))
  /\ UNCHANGED <<evidence, owner, request, boot, lock, ha, bounds, history>>

(* The write raises, after the worker's copy has changed.                  *)
SaveRaises(p) ==
  /\ SavePoint(p) /\ DiskFails
  /\ job' \in {job, [job EXCEPT ![p] = Saving(p)]}
  /\ Goes(p, "fail", Saving(p))
  /\ UNCHANGED <<evidence, owner, request, boot, lock, ha, history>>

(* The first reading of job.json, the claim or the release raises.  Without*)
(* a job the thread just ends.                                             *)
DiskRaises(p) ==
  /\ DiskFails
  /\ \/ At(p, "start") /\ Goes(p, "end", None) /\ UNCHANGED owner
     \/ /\ At(p, "claim") /\ lock = None /\ Raises(p)
        /\ owner' = owner \/ (MayClaim(p, worker[p].job) /\ owner' = Mine(p, worker[p].job))
     \/ At(p, "release") /\ lock = None /\ Raises(p) /\ UNCHANGED owner
  /\ UNCHANGED <<job, evidence, request, boot, lock, ha, history>>

(* A call of the worker raises, before or after its effect.                *)
CallRaises(p) ==
  /\ Fault("ha")
  /\ worker[p].pc \in {"work", "advance", "export", "finish", "apply"}
  /\ ~ AtStage(p, "restart")
  /\ Raises(p)
  /\ lock' = IF At(p, "apply") THEN None ELSE lock
  /\ UNCHANGED <<files, request, boot, ha, bounds, history>>

Frees(p) ==
  /\ At(p, "release") /\ lock = None
  /\ IF owner = Mine(p, worker[p].job)
     THEN owner' = None /\ Continues(p, "end")
     ELSE Raises(p) /\ UNCHANGED owner
  /\ UNCHANGED <<job, evidence, request, boot, lock, ha, bounds, history>>

(* Mutant: a job that waited for HA in vain asks for the restart again.    *)
FailedBeforeRestart(j) ==
  [j EXCEPT !.status = "failed", !.stage = IF @ = "wait_ha" THEN "restart" ELSE @]

Failed(j) == [j EXCEPT !.status = "failed"]

Fails(p) ==
  /\ At(p, "fail")
  /\ \/ job' = [job EXCEPT ![p] = Failed(worker[p].job)] /\ UNCHANGED bounds
     \/ DiskFails /\ UNCHANGED job
  /\ Continues(p, "end")
  /\ UNCHANGED <<evidence, owner, request, boot, lock, ha, history>>

Ends(p) ==
  /\ At(p, "end")
  /\ worker' = [worker EXCEPT ![p] = Idle]
  /\ UNCHANGED <<files, request, boot, lock, ha, bounds, history>>

-----------------------------------------------------------------------------
(* Import stops; at startup recover_approved runs when the manager is      *)
(* created and once more in the registration loop.                         *)

Crash ==
  /\ Interrupted
  /\ worker' = [p \in Projects |-> Idle]
  /\ request' = [p \in Projects |-> Idle]
  /\ lock' = None
  /\ boot' = [p \in Projects |-> 2]
  /\ UNCHANGED <<files, ha, history>>

(* Mutant: a job that had succeeded keeps its reservation.                 *)
NothingToFree(p) == FALSE

(* Mutant: startup drops every reservation of the project.                 *)
FreesWhateverIsOwned(p) == owner # None /\ owner.project = p

FreesAtBoot(p) == Job(p, "success") /\ owner = Mine(p, job[p])

(* Mutant: only the user may continue an interrupted job.                  *)
NothingToLaunch(p) == FALSE

LaunchesAtBoot(p) == Job(p, "running")

Recover(p) ==
  /\ boot[p] > 0
  /\ boot' = [boot EXCEPT ![p] = @ - 1]
  /\ IF LaunchesAtBoot(p) THEN Launch(p) ELSE UNCHANGED worker
  /\ IF FreesAtBoot(p) THEN lock = None /\ owner' = None ELSE UNCHANGED owner
  /\ UNCHANGED <<job, evidence, request, lock, ha, bounds, history>>

(* Raising, the first call leaves out the second.                          *)
RecoverRaises(p) ==
  /\ boot[p] > 0 /\ DiskFails
  /\ boot' = [boot EXCEPT ![p] = 0]
  /\ UNCHANGED <<files, worker, request, lock, ha, history>>

-----------------------------------------------------------------------------

RequestStep(p) ==
  \/ ResumeChecks(p) \/ RequestClaims(p) \/ RequestSaves(p) \/ RequestLaunches(p)
  \/ CancelFrees(p) \/ RequestRaises(p)

WorkerStep(p) ==
  \/ Reads(p) \/ Claims(p)
  \/ Backup(p) \/ DeployBackend(p) \/ Install(p) \/ RequestRestart(p) \/ WaitsForHa(p)
  \/ EntersOperation(p) \/ ApplyDashboards(p) \/ FinalCheck(p)
  \/ Saves(p) \/ SaveRaises(p) \/ CallRaises(p) \/ DiskRaises(p)
  \/ Frees(p) \/ Fails(p) \/ Ends(p)

UserStep(p) ==
  \/ \E target \in Releases, after \in Contents : Review(p, target, after)
  \/ Approve(p) \/ Resume(p) \/ Cancel(p) \/ CancelRaises(p)

Environment ==
  \/ BeginOrdinaryApply \/ EndOrdinaryApply
  \/ \E p \in Projects, content \in Contents : OrdinaryApply(p, content) \/ EditDashboard(p, content)
  \/ \E p \in Projects, release \in Releases : ReplaceIntegration(p, release)
  \/ HaRestarts \/ Crash

Next ==
  \/ Environment
  \/ \E p \in Projects :
       UserStep(p) \/ RequestStep(p) \/ WorkerStep(p) \/ Recover(p) \/ RecoverRaises(p)

Spec == Init /\ [][Next]_vars

(* Threads run: the workers, started requests, startup, an ordinary Apply. *)
(* Users, HA and crashes owe nothing.                                      *)
Fairness ==
  /\ WF_vars(EndOrdinaryApply)
  /\ \A p \in Projects :
       WF_vars(RequestStep(p)) /\ WF_vars(WorkerStep(p)) /\ WF_vars(Recover(p))

FairSpec == Spec /\ Fairness

-----------------------------------------------------------------------------
(* Properties.                                                             *)

WorkerPC == {"idle", "start", "claim", "work", "advance", "restart_ha", "apply",
             "export", "finish", "release", "fail", "end"}

RequestPC == {"idle", "resume", "claim_review", "claim_resume", "claim",
              "save_review", "save_resume", "launch", "free"}

Checkpoints == [id : JobIds, integration : Releases, dash : Contents]

(* The type of every variable.                                             *)
TypeOK ==
  /\ job \in [Projects -> Jobs \cup {None}]
  /\ evidence \in [Projects -> Checkpoints \cup {None}]
  /\ owner \in Owners \cup {None}
  /\ lock \in Projects \cup {Ordinary, None}
  /\ worker \in [Projects -> [pc : WorkerPC, job : Jobs \cup {None}]]
  /\ request \in [Projects -> [pc : RequestPC, job : Jobs \cup {None}]]
  /\ boot \in [Projects -> 0..2]
  /\ backend \in [Projects -> Releases] /\ installed \in [Projects -> Releases]
  /\ loaded \in [Projects -> Releases] /\ dash \in [Projects -> Contents]
  /\ restarting \in BOOLEAN
  /\ edits \in 0..MaxEdits /\ interrupts \in 0..MaxInterrupts
  /\ restarts \in [Projects -> 0..2]
  /\ last \in Owners \cup {Ordinary, None}

(* Positions in which a worker may change HA or the executor.              *)
Working(p) ==
  worker[p].pc \in {"work", "advance", "restart_ha", "apply", "export", "finish"}

OwnsHa(p) == Working(p) => owner = Mine(p, worker[p].job) /\ lock # Ordinary

(* A worker that may change HA holds the reservation for its job, no       *)
(* matter how requests, other projects' workers and restarts interleave:   *)
(* two projects, or a project and ordinary Apply, never work on HA at once.*)
OwnsWhileWorking == \A p \in Projects : OwnsHa(p)

(* What makes the above inductive.  A worker past its first reading works  *)
(* on the job that is in job.json, which nobody else moves meanwhile.      *)
WorksOnJob(p) ==
  /\ Working(p) \/ worker[p].pc \in {"claim", "release", "fail"} =>
       /\ worker[p].job \in Jobs /\ job[p] \in Jobs
       /\ job[p].id = worker[p].job.id
       /\ job[p].status \in {"running", "success"}
  /\ Working(p) \/ At(p, "claim") =>
       job[p].status = "running" /\ worker[p].job.status = "running"

(* Nothing else happens to the job of an approve or a cancel on its way,   *)
(* and no worker starts before a resume launches one.                      *)
RequestInOrder(p) ==
  /\ request[p] # Idle => request[p].job \in Jobs /\ Serving
  /\ request[p].pc \in {"claim_review", "save_review"} =>
       job[p] = request[p].job /\ job[p].status = "review"
  /\ request[p].pc \in {"claim_resume", "save_resume"} => WithoutWorker(p)
  /\ request[p].pc = "free" => Job(p, "cancelled")

Inductive ==
  /\ TypeOK
  /\ lock = Ordinary => owner = None
  /\ \A p \in Projects : WorksOnJob(p) /\ RequestInOrder(p) /\ OwnsHa(p)

StageNumber ==
  [backup |-> 1, backend |-> 2, integration |-> 3, restart |-> 4,
   wait_ha |-> 5, dashboard |-> 6, verify |-> 7]

Reached(j, stage) == StageNumber[j.stage] >= StageNumber[stage]

SamePlan(j, k) ==
  /\ j.id = k.id /\ j.target = k.target /\ j.restart = k.restart
  /\ j.backendBefore = k.backendBefore /\ j.integrationBefore = k.integrationBefore
  /\ j.before = k.before /\ j.after = k.after

(* Without requests beside a worker nobody acts on an old copy of a job:   *)
(* requests and the worker know job.json, and only the worker is ahead of  *)
(* it when it could not save a step.                                       *)
UpToDate(p) ==
  /\ request[p].pc = "idle" => request[p] = Idle
  /\ request[p] # Idle => job[p] = request[p].job
  /\ request[p].pc \in {"resume", "claim_resume", "save_resume"} =>
       Job(p, "failed") \/ (Job(p, "running") /\ WithoutWorker(p))
  /\ request[p].pc \in {"claim", "launch"} => Job(p, "running") /\ WithoutWorker(p)
  /\ job[p] = None \/ Job(p, "review") \/ Job(p, "cancelled") => WithoutWorker(p)
  /\ Job(p, "failed") => worker[p].pc \in {"idle", "end"}
  /\ At(p, "start") => Job(p, "running")
  /\ Working(p) \/ worker[p].pc \in {"claim", "release"} => worker[p].job = job[p]
  /\ At(p, "fail") => SamePlan(worker[p].job, job[p]) /\ Reached(worker[p].job, job[p].stage)
  /\ At(p, "restart_ha") => worker[p].job.stage = "wait_ha"
  /\ At(p, "apply") => worker[p].job.stage = "dashboard"
  /\ At(p, "export") \/ At(p, "finish") => worker[p].job.stage = "verify"
  /\ At(p, "release") => Job(p, "success")

(* What the stages a job has reached leave behind.                         *)
LeftBehind(p) ==
  /\ restarts[p] > 0 => job[p] # None /\ Reached(job[p], "wait_ha")
  /\ At(p, "restart_ha") => restarts[p] = 0
  /\ restarts[p] <= 1
  /\ evidence[p] # None =>
       /\ job[p] # None /\ evidence[p].id <= job[p].id
       /\ evidence[p].id = job[p].id => evidence[p] = Checkpoint(job[p])
  /\ Working(p) /\ (worker[p].job.stage # "backup" \/ At(p, "advance")) =>
       evidence[p] = Checkpoint(job[p])
  /\ job[p] # None /\ Reached(job[p], "restart") => installed[p] = job[p].target
  /\ At(p, "advance") /\ worker[p].job.stage = "integration" => installed[p] = job[p].target
  /\ At(p, "fail") /\ Reached(worker[p].job, "restart") => installed[p] = job[p].target
  /\ At(p, "export") \/ At(p, "finish") =>
       backend[p] = job[p].target /\ loaded[p] = job[p].target

(* The inductive invariant behind the promises of a job, if a request is   *)
(* not repeated and nobody else replaces the integration's files.          *)
InOrder == Inductive /\ \A p \in Projects : UpToDate(p) /\ LeftBehind(p)

(* The abstract reservation: only its holder changes HA.                   *)
Reservation == INSTANCE HaReservation WITH
  Users <- Owners \cup {Ordinary}, Nobody <- None,
  user <- IF lock = Ordinary THEN Ordinary ELSE owner

ReservationSpec == Reservation!Spec

(* HA is restarted at most once for a job, through failures, resumptions   *)
(* and restarts of Import (test_projects.py counts one restart event).     *)
RestartAtMostOnce == \A p \in Projects : restarts[p] <= 1

(* Before a job changes anything, what it was reviewed against is in its   *)
(* recovery checkpoint.                                                    *)
EvidenceFirst ==
  [][\A p \in Projects :
       worker[p].job # None /\ last' # last /\ last' = Mine(p, worker[p].job)
         => evidence[p] = Checkpoint(worker[p].job)]_vars

(* A job is reported successful only when the executor runs its release    *)
(* and HA has loaded it, whichever stages a resumption skipped.            *)
SuccessMeansDeployed ==
  [][\A p \in Projects :
       Job(p, "running") /\ Job(p, "success")' =>
         backend[p] = job[p].target /\ loaded[p] = job[p].target]_vars

(* A job never goes back to a stage it has left, and once successful it is *)
(* not started again (it may turn out failed: see Frees and Recover).      *)
JobMovesForward ==
  [][\A p \in Projects :
       job[p] # None /\ job'[p] # None /\ job'[p].id = job[p].id =>
         /\ StageNumber[job'[p].stage] >= StageNumber[job[p].stage]
         /\ Job(p, "success") => job'[p].status \in {"success", "failed"}]_vars

(* HA stays reserved only for a job that is not finished yet, or that      *)
(* somebody is about to release: ordinary Apply and the other projects     *)
(* wait until the owner finishes or recovers its update, not longer.  For  *)
(* at most one stop or failed access to disk.                              *)
ReservationIsNeeded ==
  interrupts <= 1 =>
    \A p \in Projects :
      job[p] # None /\ owner = Mine(p, job[p]) =>
        \/ job[p].status \in {"review", "running", "failed"}
        \/ At(p, "release") \/ At(p, "fail") \/ request[p].pc = "free" \/ boot[p] > 0

(* For what a project may hold HA: a job on its way, a success about to be *)
(* released (or about to be recorded as failed, its release having         *)
(* raised), a review whose approval was interrupted.  After one more       *)
(* interruption HA may stay reserved for a job that is over: for a         *)
(* cancelled one, also when the project already has the next, and for a    *)
(* success until Import starts again.                                      *)
HeldFor(p) ==
  /\ request[p].pc = "free" \/ boot[p] > 0 => interrupts > 0
  /\ owner # None /\ owner.project = p =>
       /\ job[p] # None /\ owner.id <= job[p].id
       /\ interrupts <= 1 =>
            owner.id = job[p].id /\ (Job(p, "cancelled") => request[p].pc = "free")
       /\ owner.id = job[p].id =>
            /\ Job(p, "review") => request[p].pc = "save_review" \/ interrupts > 0
            /\ Job(p, "success") =>
                 \/ At(p, "release") \/ boot[p] > 0
                 \/ interrupts > 0 /\ (interrupts <= 1 => At(p, "fail"))

(* The inductive invariant behind ReservationIsNeeded, for any number of   *)
(* stops and failed accesses to disk.                                      *)
HeldForJobs == \A p \in Projects : HeldFor(p)

(* A started job ends in success or in failure, whichever calls raise and  *)
(* wherever Import stops on the way (job.json can be read and written).    *)
RunningEnds ==
  \A p \in Projects : Job(p, "running") ~> ~ Job(p, "running")
=============================================================================
