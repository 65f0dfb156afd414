-------------------------- MODULE ReservationProofs -------------------------
(***************************************************************************)
(* For what HA is reserved (Deployments!HeldFor and what follows from it), *)
(* for every set of projects and contents, every bound and every failure   *)
(* of HA, the executor or the disk, under the hypotheses of                *)
(* DeployJobProofs.                                                        *)
(***************************************************************************)
EXTENDS DeployJobProofs

Held == InOrder /\ HeldForJobs

(* The owner of HA is this project's present job.                          *)
Holds(p) == owner # None /\ owner.project = p /\ owner.id = job[p].id

LEMMA HoldsIsMine ==
  ASSUME InOrder, NEW p \in Projects, job[p] \in Jobs
  PROVE  Holds(p) <=> owner = Mine(p, job[p])
<1>1. owner \in Owners \cup {None}
  BY DEF InOrder, Inductive, TypeOK
<1>2. CASE owner = None
  <2>1. Mine(p, job[p]) # None
    BY MineIsOwner
  <2> QED BY <1>2, <2>1 DEF Holds
<1>3. CASE owner \in Owners
  BY <1>3, DistinctAssumption DEF Holds, Mine, Owners
<1> QED BY <1>1, <1>2, <1>3

(* Every step counts at most one interruption.                             *)
LEMMA CountsInterrupts ==
  ASSUME InOrder, Next
  PROVE  interrupts \in Nat /\ interrupts' \in {interrupts, interrupts + 1}
<1>1. interrupts \in Nat
  BY ConstantsAssumption DEF InOrder, Inductive, TypeOK
<1>2. CASE Environment
  BY <1>1, <1>2 DEF Environment, BeginOrdinaryApply, EndOrdinaryApply, OrdinaryApply, EditDashboard,
              ReplaceIntegration, HaRestarts, Crash, Interrupted, bounds
<1>3. ASSUME NEW r \in Projects,
             UserStep(r) \/ RequestStep(r) \/ WorkerStep(r) \/ Recover(r) \/ RecoverRaises(r)
      PROVE  interrupts' \in {interrupts, interrupts + 1}
  <2>1. CASE UserStep(r)
    BY <2>1 DEF UserStep, Review, Approve, Resume, Cancel, CancelRaises, DiskFails, Interrupted,
                bounds
  <2>2. CASE RequestStep(r)
    BY <2>2 DEF RequestStep, ResumeChecks, RequestClaims, RequestSaves, RequestLaunches,
                CancelFrees, RequestRaises, DiskFails, Interrupted, bounds
  <2>3. CASE WorkerStep(r)
    BY <2>3 DEF WorkerStep, Reads, Claims, Backup, DeployBackend, Install, RequestRestart,
                WaitsForHa, EntersOperation, ApplyDashboards, FinalCheck, Saves, SaveRaises,
                CallRaises, DiskRaises, Frees, Fails, Ends, DiskFails, Interrupted, bounds
  <2>4. CASE Recover(r) \/ RecoverRaises(r)
    BY <2>4 DEF Recover, RecoverRaises, DiskFails, Interrupted, bounds
  <2> QED BY <1>3, <2>1, <2>2, <2>3, <2>4
<1> QED BY <1>1, <1>2, <1>3 DEF Next

(* The same, of a step of one project.                                     *)
LEMMA StepCounts ==
  ASSUME Held, NEW p \in Projects,
         UserStep(p) \/ RequestStep(p) \/ WorkerStep(p) \/ Recover(p) \/ RecoverRaises(p)
  PROVE  interrupts \in Nat /\ interrupts' \in {interrupts, interrupts + 1}
<1>1. Next
  BY DEF Next
<1> QED BY <1>1, CountsInterrupts DEF Held

(* A project nothing happens to, while others may claim or free HA.        *)
LEMMA StaysHeld ==
  ASSUME NEW q \in Projects, HeldFor(q),
         job'[q] = job[q], request'[q].pc = request[q].pc, boot'[q] = boot[q],
         interrupts \in Nat, interrupts' \in {interrupts, interrupts + 1},
         At(q, "release") => At(q, "release")', At(q, "fail") => At(q, "fail")',
         owner' \in {owner, None} \/ owner'.project # q
  PROVE  HeldFor(q)'
BY DEF HeldFor, Job, At

(* A job on its way may hold HA, whoever moves it.                         *)
LEMMA OnItsWay ==
  ASSUME HeldForJobs, NEW p \in Projects,
         job[p] \in Jobs, job'[p] \in Jobs, job'[p].id = job[p].id,
         interrupts \in Nat, interrupts' \in {interrupts, interrupts + 1},
         request'[p].pc # "free", boot'[p] > 0 => boot[p] > 0,
         owner' \in {owner, None, Mine(p, job[p])},
         \/ job'[p].status \in {"running", "failed"}
         \/ job'[p].status = "success" /\ At(p, "release")'
         \/ job'[p].status = "success" /\ At(p, "fail")' /\ interrupts' > 0
  PROVE  HeldFor(p)'
<1>1. job[p] # None /\ job'[p] # None /\ job[p].id \in Int
  BY DistinctAssumption DEF Jobs, JobIds
<1>2. HeldFor(p)
  BY DEF HeldForJobs
<1>3. /\ ~ Job(p, "cancelled")' /\ ~ Job(p, "review")'
      /\ Job(p, "success")' => At(p, "release")' \/ (At(p, "fail")' /\ interrupts' > 0)
      /\ boot'[p] > 0 => interrupts' > 0
  BY <1>2 DEF Job, HeldFor
<1>4. CASE owner' = Mine(p, job[p])
  BY <1>1, <1>3, <1>4 DEF HeldFor, Mine
<1>5. CASE owner' \in {owner, None}
  BY <1>1, <1>2, <1>3, <1>5 DEF HeldFor
<1> QED BY <1>4, <1>5

-----------------------------------------------------------------------------
(* A step of one project, seen from another.                               *)

LEMMA ElsewhereHeld ==
  ASSUME Held, NEW r \in Projects, NEW q \in Projects \ {r},
         UserStep(r) \/ RequestStep(r) \/ WorkerStep(r) \/ Recover(r) \/ RecoverRaises(r)
  PROVE  HeldFor(q)'
<1>1. InOrder /\ HeldFor(q)
  BY DEF Held, HeldForJobs
<1>2. job'[q] = job[q]
  BY <1>1, ProjectFrame
<1>3. /\ worker' = worker \/ \E x : worker' = [worker EXCEPT ![r] = x]
      /\ request' = request \/ \E x : request' = [request EXCEPT ![r] = x]
      /\ boot' = boot \/ \E x : boot' = [boot EXCEPT ![r] = x]
      /\ owner' \in {owner, None} \/ \E j : owner' = Mine(r, j)
  <2>1. CASE UserStep(r)
    BY <2>1 DEF UserStep, Review, Approve, Resume, Cancel, CancelRaises, Requesting, files, threads
  <2>2. CASE RequestStep(r)
    BY <2>2 DEF RequestStep, ResumeChecks, RequestClaims, RequestSaves, RequestLaunches,
                CancelFrees, RequestRaises, Claim, Launch, Requesting, RequestEnds, files
  <2>3. CASE WorkerStep(r)
    <3>1. CASE Claims(r)
      BY <3>1 DEF Claims, Claim, Goes, Continues, Raises
    <3>2. CASE Frees(r) \/ DiskRaises(r)
      BY <3>2 DEF Frees, DiskRaises, Goes, Continues, Raises
    <3>3. CASE Reads(r) \/ Backup(r) \/ DeployBackend(r) \/ Install(r) \/ WaitsForHa(r)
               \/ EntersOperation(r) \/ ApplyDashboards(r) \/ FinalCheck(r)
      BY <3>3 DEF Reads, Backup, DeployBackend, Install, WaitsForHa, EntersOperation,
                  ApplyDashboards, FinalCheck, Goes, Continues, Raises, files
    <3>4. CASE RequestRestart(r) \/ Saves(r) \/ SaveRaises(r) \/ CallRaises(r)
               \/ Fails(r) \/ Ends(r)
      BY <3>4 DEF RequestRestart, Saves, SaveRaises, CallRaises, Fails, Ends,
                  Goes, Continues, Raises, files
    <3> QED BY <2>3, <3>1, <3>2, <3>3, <3>4 DEF WorkerStep
  <2>4. CASE Recover(r) \/ RecoverRaises(r)
    BY <2>4 DEF Recover, RecoverRaises, Launch, files
  <2> QED BY <2>1, <2>2, <2>3, <2>4
<1>4. worker'[q] = worker[q] /\ request'[q] = request[q] /\ boot'[q] = boot[q]
  BY <1>1, <1>3 DEF InOrder, Inductive, TypeOK
<1>5. owner' \in {owner, None} \/ owner'.project # q
  BY <1>3 DEF Mine
<1>6. interrupts \in Nat /\ interrupts' \in {interrupts, interrupts + 1}
  BY StepCounts
<1> QED BY <1>1, <1>2, <1>4, <1>5, <1>6, StaysHeld DEF At

-----------------------------------------------------------------------------
(* Steps of the project itself: its worker.                                *)

(* A worker on a running job, up to the success it saves.                  *)
LEMMA WorkingHeld ==
  ASSUME Held, NEW p \in Projects, WorkerStep(p), ~ At(p, "release"), ~ Fails(p), ~ Ends(p)
  PROVE  HeldFor(p)'
<1>1. InOrder /\ HeldForJobs /\ UpToDate(p)
  BY DEF Held, InOrder
<1>2. worker[p].pc \in {"start", "claim"} \/ Working(p)
  BY DEF WorkerStep, Reads, Claims, Backup, DeployBackend, Install, RequestRestart, WaitsForHa,
         EntersOperation, ApplyDashboards, FinalCheck, Saves, SaveRaises, CallRaises, DiskRaises,
         Frees, AtStage, SavePoint, At, Working
<1>3. request[p].pc = "idle"
  BY <1>1, <1>2, AloneWithJob DEF Working
<1>4. job[p] \in Jobs /\ job[p].status = "running"
  <2>1. CASE worker[p].pc = "start"
    BY <1>1, <2>1 DEF UpToDate, At, Job, InOrder, Inductive, TypeOK
  <2>2. CASE worker[p].pc = "claim" \/ Working(p)
    BY <1>1, <2>2 DEF InOrder, Inductive, WorksOnJob, At
  <2> QED BY <1>2, <2>1, <2>2
<1>5. UNCHANGED <<request, boot>> /\ interrupts \in Nat
      /\ interrupts' \in {interrupts, interrupts + 1}
  <2>1. UNCHANGED <<request, boot>>
    BY DEF WorkerStep, Reads, Claims, Backup, DeployBackend, Install, RequestRestart, WaitsForHa,
           EntersOperation, ApplyDashboards, FinalCheck, Saves, SaveRaises, CallRaises, DiskRaises,
           Frees, Fails, Ends
  <2> QED BY <2>1, StepCounts
<1>6. CASE Saves(p)
  <2>1. owner' = owner
    BY <1>6 DEF Saves
  <2>3. job'[p] = Saving(p) /\ Goes(p, AfterSave(p), Saving(p))
    BY <1>1, <1>6 DEF Saves, InOrder, Inductive, TypeOK
  <2>4. Saving(p) \in Jobs /\ Saving(p).id = job[p].id
        /\ Saving(p).status = IF At(p, "finish") THEN "success" ELSE "running"
    BY <1>1, <1>6, SavingWhat DEF Saves, SamePlan
  <2>5. At(p, "finish") => AfterSave(p) = "release"
    BY DEF AfterSave, AtStage, At
  <2>6. Saving(p).status = "success" => At(p, "release")'
    BY <1>1, <2>3, <2>4, <2>5 DEF Goes, At, InOrder, Inductive, TypeOK
  <2> QED BY <1>1, <1>3, <1>4, <1>5, <2>1, <2>3, <2>4, <2>6, OnItsWay
<1>7. CASE SaveRaises(p) /\ job'[p] # job[p]
  <2>1. owner' = owner /\ interrupts' > 0 /\ Goes(p, "fail", Saving(p))
    BY <1>5, <1>7 DEF SaveRaises, DiskFails, Interrupted
  <2>2. job'[p] = Saving(p)
    BY <1>1, <1>7 DEF SaveRaises, InOrder, Inductive, TypeOK
  <2>3. Saving(p) \in Jobs /\ Saving(p).id = job[p].id
        /\ Saving(p).status \in {"success", "running"}
    BY <1>1, <1>7, SavingWhat DEF SaveRaises, SamePlan
  <2>4. At(p, "fail")'
    BY <1>1, <2>1 DEF Goes, At, InOrder, Inductive, TypeOK
  <2> QED BY <1>1, <1>3, <1>4, <1>5, <2>1, <2>2, <2>3, <2>4, OnItsWay
<1>8. CASE ~ Saves(p) /\ job'[p] = job[p]
  <2>1. owner' \in {owner, Mine(p, job[p])}
    <3>1. CASE Claims(p) \/ DiskRaises(p)
      BY <1>1, <3>1 DEF Claims, DiskRaises, Claim, UpToDate, At
    <3>2. CASE ~ Claims(p) /\ ~ DiskRaises(p)
      BY <1>8, <3>2 DEF WorkerStep, Reads, Backup, DeployBackend, Install, RequestRestart,
                WaitsForHa, EntersOperation, ApplyDashboards, FinalCheck, SaveRaises,
                CallRaises, Frees, files
    <3> QED BY <3>1, <3>2
  <2> QED BY <1>1, <1>3, <1>4, <1>5, <1>8, <2>1, OnItsWay
<1>9. job'[p] # job[p] => Saves(p) \/ SaveRaises(p)
  BY DEF WorkerStep, Reads, Claims, Backup, DeployBackend, Install, RequestRestart,
         WaitsForHa, EntersOperation, ApplyDashboards, FinalCheck, CallRaises, DiskRaises,
         Frees, files
<1> QED BY <1>6, <1>7, <1>8, <1>9

(* The release, and the end of a worker.                                   *)
LEMMA FinishingHeld ==
  ASSUME Held, NEW p \in Projects,
         Frees(p) \/ (DiskRaises(p) /\ At(p, "release")) \/ Fails(p) \/ Ends(p)
  PROVE  HeldFor(p)'
<1>1. InOrder /\ HeldForJobs /\ HeldFor(p) /\ UpToDate(p)
  BY DEF Held, HeldForJobs, InOrder
<1>2. UNCHANGED <<request, boot>> /\ interrupts \in Nat
      /\ interrupts' \in {interrupts, interrupts + 1}
  <2>1. WorkerStep(p)
    BY DEF WorkerStep
  <2> QED BY <2>1, StepCounts DEF Frees, DiskRaises, Fails, Ends
<1>3. CASE Frees(p)
  <2>1. job' = job /\ worker[p].pc = "release" /\ worker[p].job = job[p] /\ job[p] \in Jobs
    BY <1>1, <1>3 DEF Frees, At, UpToDate, InOrder, Inductive, WorksOnJob
  <2>2. CASE owner = Mine(p, job[p])
    BY <1>1, <1>2, <1>3, <2>1, <2>2 DEF Frees, HeldFor
  <2>3. CASE owner # Mine(p, job[p])
    <3>1. owner' = owner /\ ~ Holds(p)
      BY <1>1, <1>3, <2>1, <2>3, HoldsIsMine DEF Frees
    <3> QED BY <1>1, <1>2, <2>1, <3>1 DEF HeldFor, Holds, Job
  <2> QED BY <2>2, <2>3
<1>4. CASE DiskRaises(p) /\ At(p, "release")
  <2>1. UNCHANGED <<job, owner>> /\ interrupts' = interrupts + 1 /\ Raises(p)
    BY <1>4 DEF DiskRaises, At, DiskFails, Interrupted
  <2>2. At(p, "fail")' /\ Job(p, "success") /\ Job(p, "success")'
    BY <1>1, <1>4, <2>1
       DEF Raises, Continues, Goes, At, UpToDate, Job, InOrder, Inductive, TypeOK
  <2> QED BY <1>1, <1>2, <2>1, <2>2 DEF HeldFor, Job
<1>5. CASE Fails(p)
  <2>1. owner' = owner /\ worker[p].pc = "fail" /\ worker[p].job \in Jobs /\ job[p] \in Jobs
        /\ worker[p].job.id = job[p].id
    BY <1>1, <1>5 DEF Fails, At, InOrder, Inductive, WorksOnJob
  <2>2. CASE DiskFails /\ job' = job
    <3>1. interrupts' = interrupts + 1
      BY <2>2 DEF DiskFails, Interrupted
    <3> QED BY <1>1, <1>2, <2>1, <2>2, <3>1 DEF HeldFor, Job, At
  <2>3. CASE job' = [job EXCEPT ![p] = Failed(worker[p].job)]
    <3>1. request[p].pc = "idle"
      BY <1>1, <2>1, AloneWithJob
    <3>2. job'[p] = Failed(worker[p].job)
      BY <1>1, <2>3 DEF InOrder, Inductive, TypeOK
    <3>3. job'[p] \in Jobs /\ job'[p].id = job[p].id /\ job'[p].status = "failed"
      BY <2>1, <3>2 DEF Failed, Jobs
    <3> QED BY <1>1, <1>2, <2>1, <3>1, <3>3, OnItsWay
  <2> QED BY <1>5, <2>2, <2>3 DEF Fails
<1>6. CASE Ends(p)
  <2>1. worker[p].pc = "end" /\ UNCHANGED <<job, owner>>
    BY <1>6 DEF Ends, At, files
  <2> QED BY <1>1, <1>2, <2>1 DEF HeldFor, Job, At
<1> QED BY <1>3, <1>4, <1>5, <1>6

-----------------------------------------------------------------------------
(* Its requests.                                                           *)

(* A new job: if HA is still held for the one before, there have been two  *)
(* interruptions.                                                          *)
LEMMA ReviewHeld ==
  ASSUME Held, NEW p \in Projects, NEW target \in Releases, NEW after \in Contents,
         Review(p, target, after)
  PROVE  HeldFor(p)'
<1>1. InOrder /\ HeldFor(p) /\ interrupts \in Nat
  BY ConstantsAssumption DEF Held, HeldForJobs, InOrder, Inductive, TypeOK
<1>2. /\ UNCHANGED <<owner, request, worker, boot, interrupts>>
      /\ request[p].pc = "idle" /\ worker[p].pc = "idle"
      /\ boot[p] = 0
      /\ job[p] # None => job[p].status \in {"success", "cancelled"}
  BY DEF Review, WithoutWorker, Idle, Serving, threads, bounds
<1>3. PICK id \in JobIds :
        /\ id = IF job[p] = None THEN 1 ELSE job[p].id + 1
        /\ job' = [job EXCEPT ![p] =
             [id |-> id, status |-> "review", stage |-> "backup", target |-> target,
              backendBefore |-> backend[p], integrationBefore |-> installed[p],
              restart |-> target # installed[p] \/ target # loaded[p],
              before |-> dash[p], after |-> after, exported |-> FALSE]]
  BY DEF Review
<1>4. job'[p].id = id /\ job'[p].status = "review"
  BY <1>1, <1>3 DEF InOrder, Inductive, TypeOK
<1>5. job'[p] # None
  <2>1. /\ (target # installed[p] \/ target # loaded[p]) \in BOOLEAN
        /\ backend[p] \in Releases /\ installed[p] \in Releases /\ dash[p] \in Contents
    BY <1>1 DEF InOrder, Inductive, TypeOK
  <2>2. [id |-> id, status |-> "review", stage |-> "backup", target |-> target,
         backendBefore |-> backend[p], integrationBefore |-> installed[p],
         restart |-> target # installed[p] \/ target # loaded[p],
         before |-> dash[p], after |-> after, exported |-> FALSE] \in Jobs
    BY <2>1 DEF Jobs, Stages
  <2>3. job'[p] \in Jobs
    BY <1>1, <1>3, <2>2 DEF InOrder, Inductive, TypeOK
  <2> QED BY <2>3, DistinctAssumption
<1>6. CASE owner # None /\ owner.project = p
  <2>1. owner.id <= job[p].id /\ job[p] # None /\ owner \in Owners
    BY <1>1, <1>6 DEF HeldFor, InOrder, Inductive, TypeOK
  <2>2. owner.id \in Int /\ job[p].id \in Int
    BY <1>1, <2>1 DEF InOrder, Inductive, TypeOK, Owners, Jobs, JobIds
  <2>3. owner.id <= id /\ owner.id # id
    BY <1>3, <2>1, <2>2
  <2>4. ~ (interrupts <= 1)
    BY <1>1, <1>2, <1>6, <2>1 DEF HeldFor, Job, At
  <2>5. owner'.id <= job'[p].id /\ owner'.id # job'[p].id /\ ~ (interrupts' <= 1)
        /\ request'[p].pc # "free"
    BY <1>2, <1>4, <2>3, <2>4
  <2> QED BY <1>1, <1>2, <1>5, <2>5 DEF HeldFor
<1>7. CASE ~ (owner # None /\ owner.project = p)
  BY <1>2, <1>7 DEF HeldFor
<1> QED BY <1>6, <1>7

(* Approve and resume: the user's part.                                    *)
LEMMA AsksHeld ==
  ASSUME Undisturbed, Held, NEW p \in Projects, Approve(p) \/ Resume(p)
  PROVE  HeldFor(p)'
<1>1. InOrder /\ HeldFor(p) /\ HeldForJobs
  BY DEF Held, HeldForJobs
<1>2. UNCHANGED <<job, owner, worker, boot, interrupts>> /\ request[p].pc = "idle"
      /\ interrupts \in Nat
  <2>1. UserStep(p)
    BY DEF UserStep
  <2> QED BY <2>1, StepCounts DEF Approve, Resume, Idle, files, bounds
<1>3. job[p] \in Jobs /\ job[p] # None
  BY DEF Approve, Resume, MayRepeat, Job, Held, InOrder, Inductive, TypeOK
<1>4. CASE Approve(p) /\ Job(p, "review")
  <2>1. job[p].status = "review" /\ Requesting(p, "claim_review", job[p])
    BY <1>4 DEF Approve, MayRepeat, Job
  <2>2. request'[p].pc = "claim_review"
    BY <1>1, <1>3, <2>1, RequestWhere DEF RequestPC, InOrder
  <2> QED BY <1>1, <1>2, <2>1, <2>2 DEF HeldFor, Job
<1>5. CASE ~ Job(p, "review")
  <2>1. PICK pc \in {"claim", "resume"} : Requesting(p, pc, job[p])
    BY <1>5 DEF Approve, Resume
  <2>2. job[p].status \in {"failed", "running"}
    BY <1>5 DEF Approve, Resume, MayRepeat, Job
  <2>3. request'[p].pc \in {"claim", "resume"}
    BY <1>1, <1>3, <2>1, RequestWhere DEF RequestPC, InOrder
  <2> QED BY <1>1, <1>2, <1>3, <2>2, <2>3, OnItsWay
<1> QED BY <1>4, <1>5 DEF Resume, MayRepeat, Job

LEMMA CancelHeld ==
  ASSUME Held, NEW p \in Projects, Cancel(p)
  PROVE  HeldFor(p)'
<1>1. InOrder /\ HeldFor(p)
  BY DEF Held, HeldForJobs
<1>2. /\ UNCHANGED <<owner, worker, boot, interrupts>>
      /\ request[p].pc = "idle" /\ job[p].status = "review" /\ job[p] \in Jobs
  BY DEF Cancel, Idle, Job, Held, InOrder, Inductive, TypeOK, bounds
<1>3. job'[p] \in Jobs /\ job'[p].id = job[p].id /\ job'[p].status = "cancelled"
      /\ job'[p] # None /\ job[p] # None
  <2>1. job'[p] = [job[p] EXCEPT !.status = "cancelled"]
    BY <1>1 DEF Cancel, InOrder, Inductive, TypeOK
  <2> QED BY <1>2, <2>1, DistinctAssumption DEF Jobs
<1>4. CASE owner = Mine(p, job[p])
  <2>1. Requesting(p, "free", job'[p])
    BY <1>4 DEF Cancel
  <2>2. request'[p].pc = "free"
    BY <1>1, <1>3, <2>1, RequestWhere DEF RequestPC, InOrder
  <2>3. interrupts > 0
    BY <1>1, <1>2, <1>3, <1>4, HoldsIsMine DEF HeldFor, Holds, Job
  <2> QED BY <1>1, <1>2, <1>3, <2>2, <2>3 DEF HeldFor, Job
<1>5. CASE owner # Mine(p, job[p])
  <2>1. request' = request /\ ~ Holds(p)
    BY <1>1, <1>2, <1>5, HoldsIsMine DEF Cancel
  <2> QED BY <1>1, <1>2, <1>3, <2>1 DEF HeldFor, Holds, Job
<1> QED BY <1>4, <1>5

LEMMA CancelRaisesHeld ==
  ASSUME Held, NEW p \in Projects, CancelRaises(p)
  PROVE  HeldFor(p)'
<1>1. InOrder /\ HeldFor(p) /\ interrupts \in Nat
  BY ConstantsAssumption DEF Held, HeldForJobs, InOrder, Inductive, TypeOK
<1>2. /\ UNCHANGED <<owner, worker, request, boot>> /\ interrupts' = interrupts + 1
      /\ request[p].pc = "idle" /\ boot[p] = 0 /\ Job(p, "review") /\ job[p] \in Jobs
  BY DEF CancelRaises, DiskFails, Interrupted, Serving, Idle, threads, Job, Held, InOrder,
         Inductive, TypeOK
<1>3. job'[p] \in Jobs /\ job'[p].id = job[p].id /\ job'[p].status = "cancelled"
      /\ job'[p] # None /\ job[p] # None
  <2>1. job'[p] = [job[p] EXCEPT !.status = "cancelled"]
    BY <1>1 DEF CancelRaises, InOrder, Inductive, TypeOK
  <2> QED BY <1>2, <2>1, DistinctAssumption DEF Jobs
<1>4. owner # None /\ owner.project = p => ~ (interrupts' <= 1)
  BY <1>1, <1>2 DEF HeldFor
<1> QED BY <1>1, <1>2, <1>3, <1>4 DEF HeldFor, Job

LEMMA UserHeld ==
  ASSUME Undisturbed, Held, NEW p \in Projects, UserStep(p)
  PROVE  HeldFor(p)'
BY ReviewHeld, AsksHeld, CancelHeld, CancelRaisesHeld DEF UserStep

(* What a request that raises has written stays: HA may now be reserved    *)
(* for a review, and a cancelled job that is not released had been         *)
(* interrupted before.                                                     *)
LEMMA RequestRaisesHeld ==
  ASSUME Held, NEW p \in Projects, RequestRaises(p)
  PROVE  HeldFor(p)'
<1>1. InOrder /\ HeldFor(p) /\ HeldForJobs /\ UpToDate(p) /\ RequestInOrder(p)
  BY DEF Held, HeldForJobs, InOrder, Inductive
<1>2. request[p].job = job[p] /\ job[p] \in Jobs /\ job[p] # None /\ Serving
  <2>1. request[p].pc # "idle"
    BY DEF RequestRaises
  <2> QED BY <1>1, <2>1, RequestHasTheJob
<1>3. /\ interrupts \in Nat /\ interrupts' = interrupts + 1 /\ boot' = boot /\ boot[p] = 0
      /\ request'[p].pc = "idle"
  <2>1. interrupts \in Nat
    BY <1>1, ConstantsAssumption DEF InOrder, Inductive, TypeOK
  <2>2. request'[p].pc = "idle"
    BY <1>1, RequestEndsWhere, RequestWhere DEF RequestRaises, RequestPC, InOrder
  <2> QED BY <1>2, <2>1, <2>2 DEF RequestRaises, DiskFails, Interrupted, Serving
<1>4. owner' \in {owner, Mine(p, job[p])} /\ job[p].id \in Int
  BY <1>2 DEF RequestRaises, Jobs, JobIds
<1>5. CASE request[p].pc \in {"claim_resume", "claim", "save_resume"} \/ job'[p] # job[p]
  <2>1. job'[p] \in {job[p], Approved(job[p])}
    BY <1>1, <1>2 DEF RequestRaises, InOrder, Inductive, TypeOK
  <2>2. Approved(job[p]) \in Jobs /\ Approved(job[p]).id = job[p].id
        /\ Approved(job[p]).status = "running"
    BY <1>2 DEF Approved, Jobs
  <2>3. job'[p] # Approved(job[p]) => job[p].status \in {"running", "failed"}
    BY <1>1, <1>5, <2>1 DEF UpToDate, Job
  <2> QED BY <1>1, <1>2, <1>3, <1>4, <2>1, <2>2, <2>3, OnItsWay
<1>6. CASE request[p].pc \in {"claim_review", "save_review"} /\ job'[p] = job[p]
  <2>1. job[p].status = "review"
    BY <1>1, <1>6 DEF RequestInOrder
  <2> QED BY <1>1, <1>2, <1>3, <1>4, <1>6, <2>1 DEF HeldFor, Mine, Job
<1>7. CASE request[p].pc = "free" /\ job'[p] = job[p]
  <2>1. Job(p, "cancelled") /\ interrupts > 0 /\ owner' = owner
    BY <1>1, <1>7 DEF RequestInOrder, HeldFor, RequestRaises
  <2> QED BY <1>1, <1>2, <1>3, <1>7, <2>1 DEF HeldFor, Job
<1> QED BY <1>5, <1>6, <1>7 DEF RequestRaises

LEMMA RequestHeld ==
  ASSUME Undisturbed, Held, NEW p \in Projects, RequestStep(p)
  PROVE  HeldFor(p)'
<1>0. interrupts \in Nat
  BY StepCounts
<1>1. InOrder /\ HeldFor(p) /\ HeldForJobs /\ UpToDate(p) /\ RequestInOrder(p)
  BY DEF Held, HeldForJobs, InOrder, Inductive
<1>2. request[p].pc # "idle" /\ request[p].job = job[p] /\ job[p] \in Jobs /\ job[p] # None
  <2>1. request[p].pc # "idle"
    BY DEF RequestStep, ResumeChecks, RequestClaims, RequestSaves, RequestLaunches, CancelFrees,
           RequestRaises
  <2> QED BY <1>1, <2>1, RequestHasTheJob
<1>3. CASE ResumeChecks(p)
  <2>1. UNCHANGED <<job, owner>> /\ job[p].status \in {"failed", "running"}
    BY <1>1, <1>3 DEF ResumeChecks, UpToDate, Job, files
  <2>2. request'[p].pc \in {"claim_resume", "idle"}
    BY <1>1, <1>2, <1>3, RequestWhere, RequestEndsWhere DEF ResumeChecks, RequestPC, InOrder
  <2>3. UNCHANGED <<boot, interrupts>>
    BY <1>3 DEF ResumeChecks, bounds
  <2> QED BY <1>0, <1>1, <1>2, <2>1, <2>2, <2>3, OnItsWay
<1>4. CASE RequestClaims(p)
  <2>1. UNCHANGED <<job, worker, boot, interrupts>>
    BY <1>4 DEF RequestClaims, bounds
  <2>2. owner' = IF MayClaim(p, job[p]) THEN Mine(p, job[p]) ELSE owner
    BY <1>2, <1>4 DEF RequestClaims, Claim
  <2>3. CASE request[p].pc = "claim_review"
    <3>1. job[p].status = "review"
      BY <1>1, <2>3 DEF RequestInOrder
    <3>2. CASE MayClaim(p, job[p])
      <4>1. Requesting(p, "save_review", job[p])
        BY <1>2, <1>4, <2>3, <3>2 DEF RequestClaims
      <4>2. request'[p].pc = "save_review"
        BY <1>1, <1>2, <4>1, RequestWhere DEF RequestPC, InOrder
      <4>3. owner' = Mine(p, job[p]) /\ job[p].id \in Int
        BY <1>2, <2>2, <3>2 DEF Jobs, JobIds
      <4> QED BY <1>1, <1>2, <2>1, <3>1, <4>2, <4>3 DEF HeldFor, Mine, Job
    <3>3. CASE ~ MayClaim(p, job[p])
      <4>1. RequestEnds(p) /\ owner' = owner /\ ~ Holds(p)
        BY <1>1, <1>2, <1>4, <2>2, <3>3, HoldsIsMine DEF RequestClaims, MayClaim
      <4>2. request'[p].pc = "idle"
        BY <1>1, <4>1, RequestEndsWhere, RequestWhere DEF RequestPC, InOrder
      <4> QED BY <1>1, <2>1, <3>1, <4>1, <4>2 DEF HeldFor, Holds, Job
    <3> QED BY <3>2, <3>3
  <2>4. CASE request[p].pc # "claim_review"
    <3>1. job[p].status \in {"running", "failed"}
      BY <1>1, <1>4, <2>4 DEF RequestClaims, UpToDate, Job
    <3>2. PICK pc \in {"idle", "launch", "save_resume"}, j \in Jobs \cup {None} :
            Requesting(p, pc, j)
      BY <1>2, <1>4, <2>4, RequestEndsWhere DEF RequestClaims
    <3>3. pc \in RequestPC /\ pc # "free" /\ Inductive
      BY <1>1, <3>2 DEF RequestPC, InOrder
    <3>4. request'[p].pc = pc
      BY <3>2, <3>3, RequestWhere
    <3> QED BY <1>0, <1>1, <1>2, <2>1, <2>2, <3>1, <3>3, <3>4, OnItsWay
  <2> QED BY <2>3, <2>4
<1>5. CASE RequestSaves(p)
  <2>1. UNCHANGED <<owner, boot, interrupts>> /\ job'[p] = Approved(job[p])
    BY <1>1, <1>2, <1>5 DEF RequestSaves, bounds, InOrder, Inductive, TypeOK
  <2>2. job'[p] \in Jobs /\ job'[p].id = job[p].id /\ job'[p].status = "running"
    BY <1>2, <2>1 DEF Approved, Jobs
  <2>3. \E pc \in {"claim", "launch"} : Requesting(p, pc, job'[p])
    BY <1>5 DEF RequestSaves
  <2>4. request'[p].pc # "free"
    BY <1>1, <2>2, <2>3, RequestWhere DEF RequestPC, InOrder
  <2> QED BY <1>0, <1>1, <1>2, <2>1, <2>2, <2>4, OnItsWay
<1>6. CASE RequestLaunches(p)
  <2>1. UNCHANGED <<job, owner, boot, interrupts>> /\ job[p].status = "running"
    BY <1>1, <1>6 DEF RequestLaunches, UpToDate, Job, files, bounds
  <2>2. request'[p].pc = "idle"
    BY <1>1, <1>6, RequestEndsWhere, RequestWhere DEF RequestLaunches, RequestPC, InOrder
  <2> QED BY <1>0, <1>1, <1>2, <2>1, <2>2, OnItsWay
<1>7. CASE CancelFrees(p)
  <2>1. UNCHANGED <<job, worker, boot, interrupts>> /\ RequestEnds(p)
        /\ owner' = IF owner = Mine(p, job[p]) THEN None ELSE owner
    BY <1>2, <1>7 DEF CancelFrees, bounds
  <2>2. request'[p].pc = "idle"
    BY <1>1, <2>1, RequestEndsWhere, RequestWhere DEF RequestPC, InOrder
  <2>3. CASE owner = Mine(p, job[p])
    BY <1>1, <2>1, <2>2, <2>3 DEF HeldFor
  <2>4. CASE owner # Mine(p, job[p])
    <3>1. owner' = owner /\ ~ Holds(p)
      BY <1>1, <1>2, <2>1, <2>4, HoldsIsMine
    <3> QED BY <1>1, <2>1, <2>2, <3>1 DEF HeldFor, Holds
  <2> QED BY <2>3, <2>4
<1> QED BY <1>3, <1>4, <1>5, <1>6, <1>7, RequestRaisesHeld DEF RequestStep

-----------------------------------------------------------------------------
(* Import stops and starts.                                                *)

LEMMA RecoverHeld ==
  ASSUME Held, NEW p \in Projects, Recover(p)
  PROVE  HeldFor(p)'
<1>1. InOrder /\ HeldFor(p) /\ HeldForJobs
  BY DEF Held, HeldForJobs
<1>2. UNCHANGED <<job, request, interrupts>> /\ interrupts \in Nat /\ interrupts > 0
      /\ boot[p] > 0
  BY <1>1, ConstantsAssumption DEF Recover, bounds, HeldFor, InOrder, Inductive, TypeOK
<1>3. request[p].pc = "idle"
  <2>1. ~ Serving
    BY <1>1 DEF Recover, Serving, InOrder, Inductive, TypeOK
  <2> QED BY <1>1, <2>1 DEF InOrder, Inductive, RequestInOrder, Idle
<1>4. CASE Job(p, "running")
  <2>1. job[p] \in Jobs /\ job[p].status = "running" /\ owner' \in {owner, None}
    BY <1>1, <1>4 DEF Recover, Job, InOrder, Inductive, TypeOK
  <2> QED BY <1>1, <1>2, <1>3, <2>1, OnItsWay
<1>5. CASE FreesAtBoot(p)
  BY <1>2, <1>3, <1>5 DEF Recover, HeldFor
<1>6. CASE ~ Job(p, "running") /\ ~ FreesAtBoot(p)
  <2>1. UNCHANGED <<owner, worker>>
    BY <1>6 DEF Recover, LaunchesAtBoot
  <2>2. Job(p, "success") => ~ Holds(p)
    <3>1. SUFFICES ASSUME Job(p, "success") PROVE ~ Holds(p)
      OBVIOUS
    <3>2. job[p] \in Jobs
      BY <1>1, <3>1 DEF Job, InOrder, Inductive, TypeOK
    <3> QED BY <1>1, <1>6, <3>1, <3>2, HoldsIsMine DEF FreesAtBoot
  <2> QED BY <1>1, <1>2, <2>1, <2>2 DEF HeldFor, Holds, Job
<1> QED BY <1>4, <1>5, <1>6

LEMMA RecoverRaisesHeld ==
  ASSUME Held, NEW p \in Projects, RecoverRaises(p)
  PROVE  HeldFor(p)'
<1>1. HeldFor(p) /\ interrupts \in Nat /\ interrupts > 0 /\ interrupts' = interrupts + 1
  BY ConstantsAssumption DEF RecoverRaises, DiskFails, Interrupted, Held, HeldForJobs, HeldFor,
                             InOrder, Inductive, TypeOK
<1>2. UNCHANGED <<job, owner, request>> /\ boot'[p] = 0
  BY DEF RecoverRaises, files, Held, InOrder, Inductive, TypeOK
<1> QED BY <1>1, <1>2 DEF HeldFor, Job

(* The first restart finds no cancellation to interrupt.                   *)
LEMMA CrashHeld ==
  ASSUME Held, Crash
  PROVE  HeldForJobs'
<1> SUFFICES ASSUME NEW q \in Projects PROVE HeldFor(q)'
  BY DEF HeldForJobs
<1>1. HeldFor(q) /\ interrupts \in Nat
  <2>1. Next
    BY DEF Next, Environment
  <2> QED BY <2>1, CountsInterrupts DEF Held, HeldForJobs
<1>2. /\ UNCHANGED <<job, owner>> /\ interrupts' = interrupts + 1
      /\ request'[q].pc = "idle" /\ boot'[q] = 2
  BY DEF Crash, Interrupted, Idle, files
<1>3. interrupts' <= 1 => interrupts <= 1 /\ request[q].pc # "free"
  BY <1>1, <1>2 DEF HeldFor
<1>4. interrupts' > 0 /\ boot'[q] > 0
  BY <1>1, <1>2
<1>5. Job(q, "cancelled")' <=> Job(q, "cancelled")
  BY <1>2 DEF Job
<1> QED BY <1>1, <1>2, <1>3, <1>4, <1>5 DEF HeldFor

LEMMA EnvironmentHeld ==
  ASSUME Held, Environment
  PROVE  HeldForJobs'
<1>1. CASE Crash
  BY <1>1, CrashHeld
<1>2. CASE ~ Crash
  <2>1. UNCHANGED <<job, owner, worker, request, boot, interrupts>>
    BY <1>2 DEF Environment, BeginOrdinaryApply, EndOrdinaryApply, OrdinaryApply, EditDashboard,
                ReplaceIntegration, HaRestarts, files, threads, bounds
  <2>2. interrupts \in Nat
    BY ConstantsAssumption DEF Held, InOrder, Inductive, TypeOK
  <2> QED BY <2>1, <2>2, StaysHeld DEF Held, HeldForJobs, At
<1> QED BY <1>1, <1>2

LEMMA InitHeld == Init => Held
<1> SUFFICES ASSUME Init PROVE Held
  OBVIOUS
<1>1. InOrder
  BY InitGood
<1>2. ASSUME NEW p \in Projects PROVE HeldFor(p)
  BY <1>2 DEF Init, HeldFor, Idle
<1> QED BY <1>1, <1>2 DEF Held, HeldForJobs

LEMMA NextHeld ==
  ASSUME Undisturbed, Held, [Next]_vars
  PROVE  Held'
<1>1. InOrder'
  BY NextGood DEF Held
<1>2. HeldForJobs'
  <2>1. CASE Environment
    BY <2>1, EnvironmentHeld
  <2>2. ASSUME NEW r \in Projects,
               UserStep(r) \/ RequestStep(r) \/ WorkerStep(r) \/ Recover(r) \/ RecoverRaises(r)
        PROVE  HeldForJobs'
    <3>1. WorkerStep(r) /\ At(r, "release") =>
            Frees(r) \/ DiskRaises(r) \/ Fails(r) \/ Ends(r)
      BY DEF WorkerStep, Reads, Claims, Backup, DeployBackend, Install, RequestRestart, WaitsForHa,
             EntersOperation, ApplyDashboards, FinalCheck, Saves, SaveRaises, CallRaises, AtStage,
             SavePoint, At
    <3>3. HeldFor(r)'
      BY <2>2, <3>1, UserHeld, RequestHeld, WorkingHeld, FinishingHeld, RecoverHeld,
         RecoverRaisesHeld
    <3>2. \A q \in Projects \ {r} : HeldFor(q)'
      BY <2>2, ElsewhereHeld
    <3> QED BY <3>2, <3>3 DEF HeldForJobs
  <2>3. CASE UNCHANGED vars
    <3>1. UNCHANGED <<job, owner, worker, request, boot, interrupts>>
      BY <2>3 DEF vars, files, threads, bounds
    <3>2. interrupts \in Nat
      BY ConstantsAssumption DEF Held, InOrder, Inductive, TypeOK
    <3> QED BY <3>1, <3>2, StaysHeld DEF Held, HeldForJobs, At
  <2> QED BY <2>1, <2>2, <2>3 DEF Next
<1> QED BY <1>1, <1>2 DEF Held

-----------------------------------------------------------------------------

(* However often Import stops and its accesses to disk fail: what a        *)
(* project may hold HA for.  Up to one interruption that is its present    *)
(* job, on its way or about to be released; after two it may also be a     *)
(* cancelled job, or a success whose release and whose record of that      *)
(* failed.  A review holds HA only while or after it is being approved.    *)
THEOREM HaIsHeldForJobs ==
  ASSUME Undisturbed
  PROVE  Spec => []HeldForJobs
<1>1. Held /\ [Next]_vars => Held'
  BY NextHeld
<1>2. Held => HeldForJobs
  BY DEF Held
<1> QED BY <1>1, <1>2, InitHeld, PTL DEF Spec

(* After at most one stop of Import or failed access to disk nothing stays *)
(* reserved for a finished job, whatever the bound.  A second one breaks   *)
(* this: approve's write fails after its claim, and Import stops in cancel *)
(* between the write of job.json and the release.                          *)
THEOREM ReservationsEnd ==
  ASSUME Undisturbed
  PROVE  Spec => []ReservationIsNeeded
<1>1. Held => ReservationIsNeeded
  <2> SUFFICES ASSUME Held, interrupts <= 1, NEW p \in Projects, job[p] # None,
                      owner = Mine(p, job[p])
               PROVE  \/ job[p].status \in {"review", "running", "failed"}
                      \/ At(p, "release") \/ At(p, "fail") \/ request[p].pc = "free"
                      \/ boot[p] > 0
    BY DEF ReservationIsNeeded
  <2>1. InOrder /\ HeldFor(p) /\ job[p] \in Jobs
    BY DEF Held, HeldForJobs, InOrder, Inductive, TypeOK
  <2>2. Holds(p)
    BY <2>1, HoldsIsMine
  <2>3. job[p].status \in {"review", "running", "failed", "success", "cancelled"}
    BY <2>1 DEF Jobs
  <2> QED BY <2>1, <2>2, <2>3 DEF HeldFor, Holds, Job
<1>2. Held /\ [Next]_vars => Held'
  BY NextHeld
<1> QED BY <1>1, <1>2, InitHeld, PTL DEF Spec
=============================================================================
