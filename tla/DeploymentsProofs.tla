-------------------------- MODULE DeploymentsProofs -------------------------
(***************************************************************************)
(* Theorems about Deployments, for every set of projects and contents,     *)
(* every bound, every combination of failures, and repeated requests.      *)
(***************************************************************************)
EXTENDS Deployments, TLAPS

Workers  == [Projects -> [pc : WorkerPC, job : Jobs \cup {None}]]
Requests == [Projects -> [pc : RequestPC, job : Jobs \cup {None}]]

Inv(p) == WorksOnJob(p) /\ RequestInOrder(p) /\ OwnsHa(p)

WorkingPC == {"work", "advance", "restart_ha", "apply", "export", "finish"}

(* What a project's part of the invariant depends on.                      *)
LEMMA Frame ==
  ASSUME NEW q \in Projects, Inv(q),
         job'[q] = job[q], worker'[q] = worker[q], request'[q] = request[q],
         boot' = boot, Working(q) => owner' = owner /\ lock' # Ordinary
  PROVE  Inv(q)'
BY DEF Inv, WorksOnJob, RequestInOrder, OwnsHa, Working, At, Job, Serving, WithoutWorker, Mine

LEMMA GoesWhere ==
  ASSUME worker \in Workers, NEW p \in Projects, NEW pc \in WorkerPC,
         NEW j \in Jobs \cup {None}, Goes(p, pc, j)
  PROVE  /\ worker' \in Workers
         /\ worker'[p].pc = pc /\ worker'[p].job = j
         /\ \A q \in Projects \ {p} : worker'[q] = worker[q]
BY DEF Goes, Workers

LEMMA MineIsOwner ==
  ASSUME NEW p \in Projects, NEW j \in Jobs
  PROVE  Mine(p, j) \in Owners /\ Mine(p, j) # None /\ Mine(p, j) # Ordinary
<1>1. Mine(p, j) \in Owners
  BY DEF Mine, Owners, Jobs
<1> QED BY <1>1, DistinctAssumption

LEMMA DifferentOwners ==
  ASSUME NEW p, NEW q, p # q, NEW i, NEW j
  PROVE  Mine(p, i) # Mine(q, j)
BY DEF Mine

(* A working worker is the only one, on the job that is in job.json.       *)
LEMMA AtWork ==
  ASSUME Inductive, NEW p \in Projects, Working(p)
  PROVE  /\ worker[p].job \in Jobs /\ job[p] \in Jobs
         /\ job[p].id = worker[p].job.id
         /\ job[p].status = "running" /\ worker[p].job.status = "running"
         /\ owner = Mine(p, worker[p].job) /\ lock # Ordinary
         /\ Mine(p, worker[p].job) \in Owners
         /\ owner # None
         /\ \A q \in Projects \ {p} : ~ Working(q)
<1>1. /\ worker[p].job \in Jobs /\ job[p] \in Jobs
      /\ job[p].id = worker[p].job.id
      /\ job[p].status = "running" /\ worker[p].job.status = "running"
      /\ owner = Mine(p, worker[p].job) /\ lock # Ordinary
  BY DEF Inductive, WorksOnJob, OwnsHa
<1>2. ASSUME NEW q \in Projects \ {p} PROVE ~ Working(q)
  BY <1>1, DifferentOwners DEF Inductive, OwnsHa
<1> QED BY <1>1, <1>2, MineIsOwner

LEMMA InterruptedBounds ==
  ASSUME Inductive, Interrupted
  PROVE  edits' = edits /\ interrupts' \in 0..MaxInterrupts
BY ConstantsAssumption DEF Interrupted, Inductive, TypeOK

-----------------------------------------------------------------------------
(* Steps of a worker.                                                      *)

(* A worker of p moves to pc with job j; what has to hold of them.         *)
LEMMA WorkerMoves ==
  ASSUME Inductive, NEW p \in Projects,
         NEW pc \in WorkerPC, NEW j \in Jobs \cup {None}, Goes(p, pc, j),
         worker[p].pc # "idle", pc # "idle",
         request' = request, boot' = boot,
         \A q \in Projects \ {p} : job'[q] = job[q],
         job'[p] # job[p] => Working(p) \/ worker[p].pc = "fail",
         \A q \in Projects \ {p} : Working(q) => owner' = owner,
         lock' = Ordinary => lock = Ordinary /\ owner' = owner,
         pc \in WorkingPC \cup {"claim", "release", "fail"} =>
           /\ j \in Jobs /\ job'[p] \in Jobs /\ job'[p].id = j.id
           /\ job'[p].status \in {"running", "success"},
         pc \in WorkingPC \cup {"claim"} => job'[p].status = "running" /\ j.status = "running",
         pc \in WorkingPC => owner' = Mine(p, j) /\ lock' # Ordinary
  PROVE  /\ worker' \in Workers
         /\ (lock = Ordinary => owner = None)'
         /\ \A q \in Projects : Inv(q)'
<1>1. /\ worker' \in Workers
      /\ worker'[p].pc = pc /\ worker'[p].job = j
      /\ \A q \in Projects \ {p} : worker'[q] = worker[q]
  BY GoesWhere DEF Inductive, TypeOK, Workers
<1>2. ASSUME NEW q \in Projects \ {p} PROVE Inv(q)'
  BY <1>1, <1>2, Frame DEF Inductive, Inv, OwnsHa
<1>3. WorksOnJob(p)'
  BY <1>1 DEF WorksOnJob, Working, At, WorkingPC
<1>4. RequestInOrder(p)'
  <2>1. CASE job'[p] = job[p]
    BY <1>1, <2>1 DEF Inductive, RequestInOrder, Serving, Job, WithoutWorker, Idle
  <2>2. CASE Working(p) \/ worker[p].pc = "fail"
    BY <1>1, <2>2 DEF Inductive, RequestInOrder, WorksOnJob, Serving, Job, WithoutWorker, Idle
  <2> QED BY <2>1, <2>2
<1>5. OwnsHa(p)'
  BY <1>1 DEF OwnsHa, Working, Mine, WorkingPC
<1> QED BY <1>1, <1>2, <1>3, <1>4, <1>5 DEF Inductive, Inv

LEMMA ReadsKeeps ==
  ASSUME Inductive, NEW p \in Projects, Reads(p)
  PROVE  Inductive'
<1>1. UNCHANGED <<job, evidence, owner, request, boot, lock, backend, installed, loaded,
                  dash, restarting, edits, interrupts, restarts, last>>
  BY DEF Reads, files, ha, bounds, history
<1>2. /\ worker' \in Workers
      /\ (lock = Ordinary => owner = None)' /\ \A q \in Projects : Inv(q)'
  <2>1. worker[p].pc # "idle" /\ job[p] \in Jobs \cup {None}
    BY DEF Reads, At, Inductive, TypeOK
  <2>2. CASE Job(p, "running")
    <3>1. Goes(p, "claim", job[p]) /\ job[p] \in Jobs /\ job[p].status = "running"
      BY <2>1, <2>2 DEF Reads, Job
    <3> QED BY <1>1, <2>1, <3>1, WorkerMoves DEF WorkerPC, WorkingPC
  <2>3. CASE ~ Job(p, "running")
    <3>1. Goes(p, "end", None)
      BY <2>3 DEF Reads
    <3> QED BY <1>1, <2>1, <3>1, WorkerMoves DEF WorkerPC, WorkingPC
  <2> QED BY <2>2, <2>3
<1>3. TypeOK'
  BY <1>1, <1>2 DEF Inductive, TypeOK, Workers
<1> QED BY <1>2, <1>3 DEF Inductive, Inv

LEMMA ClaimsKeeps ==
  ASSUME Inductive, NEW p \in Projects, Claims(p)
  PROVE  Inductive'
<1> DEFINE j == worker[p].job
<1>1. UNCHANGED <<job, evidence, request, boot, lock, backend, installed, loaded,
                  dash, restarting, edits, interrupts, restarts, last>>
  BY DEF Claims, ha, bounds, history
<1>2. /\ worker[p].pc = "claim" /\ j \in Jobs /\ job[p] \in Jobs /\ job[p].id = j.id
      /\ job[p].status = "running" /\ j.status = "running"
  BY DEF Claims, At, Inductive, WorksOnJob
<1>3. lock = None /\ lock # Ordinary
  BY DistinctAssumption DEF Claims, Claim
<1>4. owner' \in Owners \cup {None} /\ (MayClaim(p, j) => owner' = Mine(p, j))
  BY <1>2, MineIsOwner DEF Claims, Claim, Inductive, TypeOK
<1>5. ASSUME NEW q \in Projects \ {p}, Working(q) PROVE owner' = owner
  <2>1. owner = Mine(q, worker[q].job) /\ owner # None
    BY <1>5, AtWork
  <2>2. ~ MayClaim(p, j)
    BY <2>1, DifferentOwners DEF MayClaim
  <2> QED BY <2>2 DEF Claims, Claim
<1>6. \/ Goes(p, "work", j) /\ MayClaim(p, j)
      \/ Goes(p, "fail", j)
  BY DEF Claims, Continues, Raises
<1>7. /\ worker' \in Workers
      /\ (lock = Ordinary => owner = None)' /\ \A q \in Projects : Inv(q)'
  BY <1>1, <1>2, <1>3, <1>4, <1>5, <1>6, WorkerMoves DEF WorkerPC, WorkingPC
<1>8. TypeOK'
  BY <1>1, <1>4, <1>7 DEF Inductive, TypeOK, Workers
<1> QED BY <1>7, <1>8 DEF Inductive, Inv

(* Most steps of a working worker leave job.json and the owner alone.      *)
LEMMA WorkGoesOn ==
  ASSUME Inductive, NEW p \in Projects, Working(p),
         NEW pc \in WorkingPC \cup {"fail"}, NEW j \in Jobs, Goes(p, pc, j),
         j.id = worker[p].job.id,
         pc # "fail" => j.status = "running",
         UNCHANGED <<job, owner, request, boot>>, lock' # Ordinary
  PROVE  /\ worker' \in Workers
         /\ (lock = Ordinary => owner = None)' /\ \A q \in Projects : Inv(q)'
<1>1. worker[p].pc # "idle" /\ pc # "idle" /\ pc \in WorkerPC
  BY DEF Working, WorkingPC, WorkerPC
<1>2. Mine(p, j) = Mine(p, worker[p].job)
  BY DEF Mine
<1> QED BY <1>1, <1>2, AtWork, WorkerMoves DEF WorkingPC

LEMMA BackupKeeps ==
  ASSUME Inductive, NEW p \in Projects, Backup(p)
  PROVE  Inductive'
<1> DEFINE j == worker[p].job
<1>1. UNCHANGED <<job, owner, request, boot, lock, backend, installed, loaded,
                  dash, restarting, edits, interrupts, restarts, last>>
  BY DEF Backup, ha, bounds, history
<1>2. Working(p)
  BY DEF Backup, AtStage, At, Working
<1>3. j \in Jobs /\ j.id \in JobIds /\ lock # Ordinary /\ j.status = "running"
  BY <1>2, AtWork DEF Jobs
<1>4. Goes(p, "advance", j) \/ Goes(p, "fail", j)
  BY DEF Backup, Continues, Raises
<1>5. /\ worker' \in Workers
      /\ (lock = Ordinary => owner = None)' /\ \A q \in Projects : Inv(q)'
  BY <1>1, <1>2, <1>3, <1>4, WorkGoesOn DEF WorkingPC
<1>6. evidence' \in [Projects -> Checkpoints \cup {None}]
  <2>1. [id |-> j.id, integration |-> installed[p], dash |-> dash[p]] \in Checkpoints
    BY <1>3 DEF Inductive, TypeOK, Checkpoints
  <2> QED BY <2>1 DEF Inductive, TypeOK, Backup
<1>7. TypeOK'
  BY <1>1, <1>5, <1>6 DEF Inductive, TypeOK, Workers
<1> QED BY <1>5, <1>7 DEF Inductive, Inv

(* The steps of a worker that change HA or the executor keep their types.  *)
LEMMA EffectTypes ==
  ASSUME Inductive, NEW p \in Projects, Working(p)
  PROVE  /\ worker[p].job.target \in Releases
         /\ worker[p].job.after \in Contents
         /\ worker[p].job.status = "running" /\ worker[p].job \in Jobs
         /\ lock # Ordinary
         /\ \A changed : Changes(p, changed) => last' \in Owners \cup {Ordinary, None}
BY AtWork DEF Jobs, Changes, Inductive, TypeOK

LEMMA DeployBackendKeeps ==
  ASSUME Inductive, NEW p \in Projects, DeployBackend(p)
  PROVE  Inductive'
<1> DEFINE j == worker[p].job
<1>1. UNCHANGED <<job, evidence, owner, request, boot, lock, installed, loaded,
                  dash, restarting, edits, interrupts, restarts>>
  BY DEF DeployBackend, files, bounds
<1>2. Working(p)
  BY DEF DeployBackend, AtStage, At, Working
<1>3. Goes(p, "advance", j)
  BY DEF DeployBackend, Continues
<1>4. /\ worker' \in Workers
      /\ (lock = Ordinary => owner = None)' /\ \A q \in Projects : Inv(q)'
  BY <1>1, <1>2, <1>3, EffectTypes, WorkGoesOn DEF WorkingPC
<1>5. backend' \in [Projects -> Releases] /\ last' \in Owners \cup {Ordinary, None}
  BY <1>2, EffectTypes DEF DeployBackend, Inductive, TypeOK
<1>6. TypeOK'
  BY <1>1, <1>4, <1>5 DEF Inductive, TypeOK, Workers
<1> QED BY <1>4, <1>6 DEF Inductive, Inv

LEMMA InstallKeeps ==
  ASSUME Inductive, NEW p \in Projects, Install(p)
  PROVE  Inductive'
<1> DEFINE j == worker[p].job
<1>1. UNCHANGED <<job, evidence, owner, request, boot, lock, backend, loaded,
                  dash, restarting, edits, interrupts, restarts>>
  BY DEF Install, files, bounds
<1>2. Working(p)
  BY DEF Install, AtStage, At, Working
<1>3. Goes(p, "advance", j) \/ Goes(p, "fail", j)
  BY DEF Install, Continues, Raises
<1>4. /\ worker' \in Workers
      /\ (lock = Ordinary => owner = None)' /\ \A q \in Projects : Inv(q)'
  BY <1>1, <1>2, <1>3, EffectTypes, WorkGoesOn DEF WorkingPC
<1>5. installed' \in [Projects -> Releases] /\ last' \in Owners \cup {Ordinary, None}
  BY <1>2, EffectTypes DEF Install, Inductive, TypeOK
<1>6. TypeOK'
  BY <1>1, <1>4, <1>5 DEF Inductive, TypeOK, Workers
<1> QED BY <1>4, <1>6 DEF Inductive, Inv

LEMMA RequestRestartKeeps ==
  ASSUME Inductive, NEW p \in Projects, RequestRestart(p)
  PROVE  Inductive'
<1> DEFINE j == worker[p].job
<1>1. UNCHANGED <<job, evidence, owner, request, boot, lock, backend, installed, loaded,
                  dash, edits, interrupts>>
  BY DEF RequestRestart, files, bounds
<1>2. Working(p)
  BY DEF RequestRestart, At, Working
<1>3. Goes(p, "work", j)
  BY DEF RequestRestart, Continues
<1>4. /\ worker' \in Workers
      /\ (lock = Ordinary => owner = None)' /\ \A q \in Projects : Inv(q)'
  BY <1>1, <1>2, <1>3, EffectTypes, WorkGoesOn DEF WorkingPC
<1>5. restarting' \in BOOLEAN
  BY DEF RequestRestart, Inductive, TypeOK
<1>6. last' \in Owners \cup {Ordinary, None}
  BY <1>2, EffectTypes DEF RequestRestart, Inductive, TypeOK, history
<1>7. restarts' \in [Projects -> 0..2]
  <2>1. restarts' = restarts \/ \E n \in {1, 2} : restarts' = [restarts EXCEPT ![p] = n]
    BY DEF RequestRestart, history
  <2> QED BY <2>1 DEF Inductive, TypeOK
<1>8. TypeOK'
  BY <1>1, <1>4, <1>5, <1>6, <1>7 DEF Inductive, TypeOK, Workers
<1> QED BY <1>4, <1>8 DEF Inductive, Inv

LEMMA ApplyDashboardsKeeps ==
  ASSUME Inductive, NEW p \in Projects, ApplyDashboards(p)
  PROVE  Inductive'
<1> DEFINE j == worker[p].job
<1>1. UNCHANGED <<job, evidence, owner, request, boot, backend, installed, loaded,
                  restarting, edits, interrupts, restarts>> /\ lock' = None
  BY DEF ApplyDashboards, files, bounds
<1>2. Working(p) /\ lock' # Ordinary
  BY <1>1, DistinctAssumption DEF ApplyDashboards, At, Working
<1>3. Goes(p, "advance", j) \/ Goes(p, "fail", j)
  BY DEF ApplyDashboards, Continues, Raises
<1>4. /\ worker' \in Workers
      /\ (lock = Ordinary => owner = None)' /\ \A q \in Projects : Inv(q)'
  BY <1>1, <1>2, <1>3, EffectTypes, WorkGoesOn DEF WorkingPC
<1>5. dash' \in [Projects -> Contents] /\ last' \in Owners \cup {Ordinary, None}
  BY <1>2, EffectTypes DEF ApplyDashboards, Inductive, TypeOK
<1>6. TypeOK'
  BY <1>1, <1>4, <1>5 DEF Inductive, TypeOK, Workers
<1> QED BY <1>4, <1>6 DEF Inductive, Inv

(* The steps of a working worker that only look or take Coordinator.lock.  *)
LEMMA LooksKeeps ==
  ASSUME Inductive, NEW p \in Projects,
         WaitsForHa(p) \/ EntersOperation(p) \/ FinalCheck(p) \/ CallRaises(p)
  PROVE  Inductive'
<1> DEFINE j == worker[p].job
<1>1. UNCHANGED <<job, evidence, owner, request, boot, backend, installed, loaded,
                  dash, restarting, edits, interrupts, restarts, last>>
  BY DEF WaitsForHa, EntersOperation, FinalCheck, CallRaises, files, ha, bounds, history
<1>2. Working(p)
  BY DEF WaitsForHa, EntersOperation, FinalCheck, CallRaises, AtStage, At, Working
<1>3. \E pc \in WorkingPC \cup {"fail"} : Goes(p, pc, j)
  BY DEF WaitsForHa, EntersOperation, FinalCheck, CallRaises, Continues, Raises, WorkingPC
<1>4. lock' \in {lock, None, p} /\ lock' # Ordinary
  BY <1>2, AtWork, DistinctAssumption
  DEF WaitsForHa, EntersOperation, FinalCheck, CallRaises
<1>5. /\ worker' \in Workers
      /\ (lock = Ordinary => owner = None)' /\ \A q \in Projects : Inv(q)'
  BY <1>1, <1>2, <1>3, <1>4, EffectTypes, WorkGoesOn
<1>6. TypeOK'
  BY <1>1, <1>4, <1>5 DEF Inductive, TypeOK, Workers
<1> QED BY <1>5, <1>6 DEF Inductive, Inv

(* What a worker saves is its job, with a later stage, the note of the     *)
(* Export request or its success.                                          *)
LEMMA SavingType ==
  ASSUME Inductive, NEW p \in Projects, SavePoint(p)
  PROVE  /\ Working(p)
         /\ Saving(p) \in Jobs /\ Saving(p).id = worker[p].job.id
         /\ Saving(p).status = IF At(p, "finish") THEN "success" ELSE "running"
<1>1. Working(p)
  BY DEF SavePoint, AtStage, At, Working
<1>2. worker[p].job \in Jobs /\ worker[p].job.status = "running"
  BY <1>1, AtWork
<1>3. worker[p].job.stage \in Stages /\ StageAfter[worker[p].job.stage] \in Stages
  BY <1>2 DEF Jobs, Stages, StageAfter
<1>4. CASE At(p, "export")
  BY <1>1, <1>2, <1>4 DEF Saving, Jobs, At
<1>5. CASE At(p, "finish")
  BY <1>1, <1>2, <1>5 DEF Saving, Jobs, At
<1>6. CASE ~ At(p, "export") /\ ~ At(p, "finish")
  BY <1>1, <1>2, <1>3, <1>6 DEF Saving, Jobs
<1> QED BY <1>4, <1>5, <1>6

LEMMA SavesKeeps ==
  ASSUME Inductive, NEW p \in Projects, Saves(p)
  PROVE  Inductive'
<1>1. /\ UNCHANGED <<evidence, owner, request, boot, lock, backend, installed, loaded,
                     dash, restarting, edits, interrupts, restarts, last>>
      /\ SavePoint(p) /\ job' = [job EXCEPT ![p] = Saving(p)]
      /\ Goes(p, AfterSave(p), Saving(p))
  BY DEF Saves, ha, bounds, history
<1>2. /\ Working(p) /\ Saving(p) \in Jobs /\ Saving(p).id = worker[p].job.id
      /\ Saving(p).status = IF At(p, "finish") THEN "success" ELSE "running"
  BY <1>1, SavingType
<1>3. job' \in [Projects -> Jobs \cup {None}] /\ job'[p] = Saving(p)
      /\ \A q \in Projects \ {p} : job'[q] = job[q]
  BY <1>1, <1>2 DEF Inductive, TypeOK
<1>4. /\ AfterSave(p) \in {"finish", "release", "restart_ha", "work"}
      /\ AfterSave(p) = "release" <=> At(p, "finish")
  BY DEF AfterSave, At, AtStage
<1>5. Mine(p, Saving(p)) = owner /\ lock # Ordinary
  BY <1>2, AtWork DEF Mine
<1>6. worker[p].pc # "idle" /\ AfterSave(p) # "idle" /\ AfterSave(p) \in WorkerPC
      /\ AfterSave(p) \notin {"claim", "fail"}
  BY <1>2, <1>4 DEF Working, WorkerPC
<1>7. /\ worker' \in Workers
      /\ (lock = Ordinary => owner = None)' /\ \A q \in Projects : Inv(q)'
  BY <1>1, <1>2, <1>3, <1>4, <1>5, <1>6, WorkerMoves DEF WorkingPC
<1>8. TypeOK'
  BY <1>1, <1>3, <1>7 DEF Inductive, TypeOK, Workers
<1> QED BY <1>7, <1>8 DEF Inductive, Inv

LEMMA SaveRaisesKeeps ==
  ASSUME Inductive, NEW p \in Projects, SaveRaises(p)
  PROVE  Inductive'
<1>1. /\ UNCHANGED <<evidence, owner, request, boot, lock, backend, installed, loaded,
                     dash, restarting, edits, restarts, last>>
      /\ SavePoint(p) /\ Goes(p, "fail", Saving(p))
      /\ job' = job \/ job' = [job EXCEPT ![p] = Saving(p)]
      /\ interrupts' \in 0..MaxInterrupts
  BY InterruptedBounds DEF SaveRaises, DiskFails, ha, history
<1>2. /\ Working(p) /\ Saving(p) \in Jobs /\ Saving(p).id = worker[p].job.id
      /\ Saving(p).status \in {"running", "success"}
      /\ lock # Ordinary /\ job[p] \in Jobs /\ job[p].id = worker[p].job.id
      /\ job[p].status = "running"
  BY <1>1, SavingType, AtWork
<1>3. /\ job' \in [Projects -> Jobs \cup {None}] /\ job'[p] \in {job[p], Saving(p)}
      /\ \A q \in Projects \ {p} : job'[q] = job[q]
  <2>1. CASE job' = job
    BY <1>2, <2>1 DEF Inductive, TypeOK
  <2>2. CASE job' = [job EXCEPT ![p] = Saving(p)]
    BY <1>2, <2>2 DEF Inductive, TypeOK
  <2> QED BY <1>1, <2>1, <2>2
<1>4. worker[p].pc # "idle"
  BY <1>2 DEF Working
<1>5. job'[p] \in Jobs /\ job'[p].id = Saving(p).id /\ job'[p].status \in {"running", "success"}
  BY <1>2, <1>3
<1>6. /\ worker' \in Workers
      /\ (lock = Ordinary => owner = None)' /\ \A q \in Projects : Inv(q)'
  BY <1>1, <1>2, <1>3, <1>4, <1>5, WorkerMoves DEF WorkerPC, WorkingPC
<1>7. TypeOK'
  BY <1>1, <1>3, <1>6 DEF Inductive, TypeOK, Workers
<1> QED BY <1>6, <1>7 DEF Inductive, Inv

(* The claim may have been written; a worker at its first reading has no   *)
(* job yet, and one that releases has saved its success.                   *)
LEMMA DiskRaisesKeeps ==
  ASSUME Inductive, NEW p \in Projects, DiskRaises(p)
  PROVE  Inductive'
<1> DEFINE j == worker[p].job
<1>1. /\ UNCHANGED <<job, evidence, request, boot, lock, backend, installed, loaded,
                     dash, restarting, edits, restarts, last>>
      /\ interrupts' \in 0..MaxInterrupts
  BY InterruptedBounds DEF DiskRaises, DiskFails, ha, history
<1>2. CASE At(p, "start")
  <2>1. worker[p].pc = "start" /\ Goes(p, "end", None) /\ owner' = owner
    BY <1>2 DEF DiskRaises, At
  <2>2. /\ worker' \in Workers
        /\ (lock = Ordinary => owner = None)' /\ \A q \in Projects : Inv(q)'
    BY <1>1, <2>1, WorkerMoves DEF WorkerPC, WorkingPC
  <2>3. TypeOK'
    BY <1>1, <2>1, <2>2 DEF Inductive, TypeOK, Workers
  <2> QED BY <2>2, <2>3 DEF Inductive, Inv
<1>3. CASE At(p, "claim") \/ At(p, "release")
  <2>1. /\ worker[p].pc \in {"claim", "release"} /\ Goes(p, "fail", j)
        /\ lock # Ordinary
        /\ owner' = owner \/ (owner \in {None, Mine(p, j)} /\ owner' = Mine(p, j))
    BY <1>3, DistinctAssumption DEF DiskRaises, At, Raises, Continues, MayClaim
  <2>2. /\ j \in Jobs /\ job[p] \in Jobs /\ job[p].id = j.id
        /\ job[p].status \in {"running", "success"}
    BY <2>1 DEF Inductive, WorksOnJob, At
  <2>3. ASSUME NEW q \in Projects, Working(q) PROVE owner' = owner
    BY <2>1, <2>3, AtWork
  <2>4. owner' \in Owners \cup {None}
    BY <2>1, <2>2, MineIsOwner DEF Inductive, TypeOK
  <2>5. /\ worker' \in Workers
        /\ (lock = Ordinary => owner = None)' /\ \A q \in Projects : Inv(q)'
    BY <1>1, <2>1, <2>2, <2>3, WorkerMoves DEF WorkerPC, WorkingPC
  <2>6. TypeOK'
    BY <1>1, <2>4, <2>5 DEF Inductive, TypeOK, Workers
  <2> QED BY <2>5, <2>6 DEF Inductive, Inv
<1> QED BY <1>2, <1>3 DEF DiskRaises

(* The end of a worker: releasing, failing, ending.                        *)
LEMMA FreesKeeps ==
  ASSUME Inductive, NEW p \in Projects, Frees(p)
  PROVE  Inductive'
<1> DEFINE j == worker[p].job
<1>1. /\ UNCHANGED <<job, evidence, request, boot, lock, backend, installed, loaded,
                     dash, restarting, edits, interrupts, restarts, last>>
      /\ worker[p].pc = "release"
      /\ lock # Ordinary
  BY DistinctAssumption DEF Frees, At, ha, bounds, history
<1>2. /\ j \in Jobs /\ job[p] \in Jobs /\ job[p].id = j.id
      /\ job[p].status \in {"running", "success"}
  BY <1>1 DEF Inductive, WorksOnJob
<1>3. ASSUME NEW q \in Projects \ {p}, Working(q) PROVE owner' = owner
  <2>1. owner = Mine(q, worker[q].job)
    BY <1>3, AtWork
  <2>2. owner # Mine(p, j)
    BY <2>1, DifferentOwners
  <2> QED BY <2>2 DEF Frees
<1>4. owner' \in Owners \cup {None} /\ (Goes(p, "end", j) \/ Goes(p, "fail", j))
  BY DEF Frees, Continues, Raises, Inductive, TypeOK
<1>5. /\ worker' \in Workers
      /\ (lock = Ordinary => owner = None)' /\ \A q \in Projects : Inv(q)'
  BY <1>1, <1>2, <1>3, <1>4, WorkerMoves DEF WorkerPC, WorkingPC
<1>6. TypeOK'
  BY <1>1, <1>4, <1>5 DEF Inductive, TypeOK, Workers
<1> QED BY <1>5, <1>6 DEF Inductive, Inv

LEMMA FailsKeeps ==
  ASSUME Inductive, NEW p \in Projects, Fails(p)
  PROVE  Inductive'
<1> DEFINE j == worker[p].job
<1>1. /\ UNCHANGED <<evidence, owner, request, boot, lock, backend, installed, loaded,
                     dash, restarting, edits, restarts, last>>
      /\ worker[p].pc = "fail" /\ Goes(p, "end", j)
      /\ interrupts' \in 0..MaxInterrupts
  BY InterruptedBounds DEF Fails, DiskFails, At, Continues, ha, bounds, history, Inductive, TypeOK
<1>2. j \in Jobs /\ Failed(j) \in Jobs
  BY <1>1 DEF Inductive, WorksOnJob, Failed, Jobs
<1>3. job' \in [Projects -> Jobs \cup {None}] /\ \A q \in Projects \ {p} : job'[q] = job[q]
  BY <1>2 DEF Fails, Inductive, TypeOK
<1>4. /\ worker' \in Workers
      /\ (lock = Ordinary => owner = None)' /\ \A q \in Projects : Inv(q)'
  BY <1>1, <1>2, <1>3, WorkerMoves DEF WorkerPC, WorkingPC
<1>5. TypeOK'
  BY <1>1, <1>3, <1>4 DEF Inductive, TypeOK, Workers
<1> QED BY <1>4, <1>5 DEF Inductive, Inv

LEMMA EndsKeeps ==
  ASSUME Inductive, NEW p \in Projects, Ends(p)
  PROVE  Inductive'
<1>1. /\ UNCHANGED <<job, evidence, owner, request, boot, lock, backend, installed, loaded,
                     dash, restarting, edits, interrupts, restarts, last>>
      /\ worker[p].pc = "end" /\ worker' = [worker EXCEPT ![p] = Idle]
  BY DEF Ends, At, files, ha, bounds, history
<1>2. worker' \in Workers /\ worker'[p] = Idle /\ \A q \in Projects \ {p} : worker'[q] = worker[q]
  BY <1>1 DEF Inductive, TypeOK, Workers, Idle, WorkerPC
<1>3. ASSUME NEW q \in Projects \ {p} PROVE Inv(q)'
  BY <1>1, <1>2, <1>3, Frame DEF Inductive, Inv, OwnsHa
<1>4. Inv(p)'
  BY <1>1, <1>2
  DEF Inductive, Inv, WorksOnJob, RequestInOrder, OwnsHa, Working, At, Job, Serving,
      WithoutWorker, Idle
<1>5. TypeOK'
  BY <1>1, <1>2 DEF Inductive, TypeOK, Workers
<1> QED BY <1>1, <1>3, <1>4, <1>5 DEF Inductive, Inv

LEMMA WorkerStepKeeps ==
  ASSUME Inductive, NEW p \in Projects, WorkerStep(p)
  PROVE  Inductive'
BY ReadsKeeps, ClaimsKeeps, BackupKeeps, DeployBackendKeeps, InstallKeeps, RequestRestartKeeps,
   ApplyDashboardsKeeps, LooksKeeps, SavesKeeps, SaveRaisesKeeps, DiskRaisesKeeps,
   FreesKeeps, FailsKeeps, EndsKeeps
DEF WorkerStep

-----------------------------------------------------------------------------
(* Requests.                                                               *)

(* A request of p leaves the other projects alone.                         *)
LEMMA OthersKeep ==
  ASSUME Inductive, NEW p \in Projects, NEW q \in Projects \ {p},
         job'[q] = job[q], worker'[q] = worker[q], request'[q] = request[q], boot' = boot,
         Working(q) => owner' = owner, lock' = Ordinary => lock = Ordinary
  PROVE  Inv(q)'
BY Frame DEF Inductive, Inv, OwnsHa

LEMMA ReviewKeeps ==
  ASSUME Inductive, NEW p \in Projects, NEW target \in Releases, NEW after \in Contents,
         Review(p, target, after)
  PROVE  Inductive'
<1>1. /\ UNCHANGED <<evidence, owner, worker, request, boot, lock, backend, installed, loaded,
                     dash, restarting, edits, interrupts, last>>
      /\ worker[p] = Idle /\ request[p] = Idle
      /\ restarts' = [restarts EXCEPT ![p] = 0]
  BY DEF Review, WithoutWorker, threads, ha, bounds
<1>2. PICK id \in JobIds : job' = [job EXCEPT ![p] =
              [id |-> id, status |-> "review", stage |-> "backup", target |-> target,
               backendBefore |-> backend[p], integrationBefore |-> installed[p],
               restart |-> target # installed[p] \/ target # loaded[p],
               before |-> dash[p], after |-> after, exported |-> FALSE]]
  BY DEF Review
<1>3. [id |-> id, status |-> "review", stage |-> "backup", target |-> target,
       backendBefore |-> backend[p], integrationBefore |-> installed[p],
       restart |-> target # installed[p] \/ target # loaded[p],
       before |-> dash[p], after |-> after, exported |-> FALSE] \in Jobs
  <2>1. (target # installed[p] \/ target # loaded[p]) \in BOOLEAN
    OBVIOUS
  <2>2. backend[p] \in Releases /\ installed[p] \in Releases /\ dash[p] \in Contents
    BY DEF Inductive, TypeOK
  <2> QED BY <2>1, <2>2 DEF Jobs, Stages
<1>4. job' \in [Projects -> Jobs \cup {None}] /\ \A q \in Projects \ {p} : job'[q] = job[q]
  BY <1>2, <1>3 DEF Inductive, TypeOK
<1>5. ASSUME NEW q \in Projects \ {p} PROVE Inv(q)'
  BY <1>1, <1>4, <1>5, OthersKeep
<1>6. Inv(p)'
  BY <1>1 DEF Inv, WorksOnJob, RequestInOrder, OwnsHa, Working, At, WithoutWorker, Idle
<1>7. restarts' \in [Projects -> 0..2]
  BY <1>1 DEF Inductive, TypeOK
<1>8. TypeOK'
  BY <1>1, <1>4, <1>7 DEF Inductive, TypeOK
<1> QED BY <1>1, <1>5, <1>6, <1>8 DEF Inductive, Inv

LEMMA RequestWhere ==
  ASSUME Inductive, NEW p \in Projects, NEW pc \in RequestPC, NEW j \in Jobs \cup {None},
         Requesting(p, pc, j)
  PROVE  /\ request' \in Requests
         /\ request'[p] = [pc |-> pc, job |-> j]
         /\ request'[p].pc = pc /\ request'[p].job = j
         /\ \A q \in Projects \ {p} : request'[q] = request[q]
<1>1. request \in Requests
  BY DEF Inductive, TypeOK, Requests
<1>2. PICK r : r = [pc |-> pc, job |-> j]
  OBVIOUS
<1>3. r \in [pc : RequestPC, job : Jobs \cup {None}] /\ r.pc = pc /\ r.job = j
  BY <1>2
<1>4. request' = [request EXCEPT ![p] = r]
  BY <1>2 DEF Requesting
<1>5. request' \in Requests /\ request'[p] = r /\ \A q \in Projects \ {p} : request'[q] = request[q]
  BY <1>1, <1>3, <1>4 DEF Requests
<1>6. request'[p] = [pc |-> pc, job |-> j]
  BY <1>2, <1>5, Zenon
<1>7. request'[p].pc = pc /\ request'[p].job = j
  BY <1>3, <1>5
<1> QED BY <1>5, <1>6, <1>7, Zenon

LEMMA RequestEndsWhere ==
  ASSUME NEW p \in Projects, RequestEnds(p)
  PROVE  Requesting(p, "idle", None)
BY DEF RequestEnds, Requesting, Idle

(* A request of p that only moves on: what its new position needs.         *)
LEMMA RequestMoves ==
  ASSUME Inductive, NEW p \in Projects, NEW pc \in RequestPC, NEW j \in Jobs \cup {None},
         Requesting(p, pc, j),
         pc = "idle" \/ (j \in Jobs /\ Serving),
         pc \in {"claim_review", "save_review"} => job[p] = j /\ j.status = "review",
         pc \in {"claim_resume", "save_resume"} => WithoutWorker(p),
         pc = "free" => Job(p, "cancelled"),
         pc = "idle" => j = None,
         UNCHANGED <<job, worker, boot, lock>>,
         \A q \in Projects : Working(q) => owner' = owner,
         lock = Ordinary => owner' = owner
  PROVE  /\ request' \in Requests
         /\ (lock = Ordinary => owner = None)' /\ \A q \in Projects : Inv(q)'
<1>1. /\ request' \in Requests
      /\ request'[p] = [pc |-> pc, job |-> j]
      /\ request'[p].pc = pc /\ request'[p].job = j
      /\ \A q \in Projects \ {p} : request'[q] = request[q]
  BY RequestWhere
<1>2. ASSUME NEW q \in Projects \ {p} PROVE Inv(q)'
  BY <1>1, <1>2, OthersKeep
<1>3. WorksOnJob(p)' /\ OwnsHa(p)'
  BY DEF Inductive, WorksOnJob, OwnsHa, Working, At, Mine
<1>4. RequestInOrder(p)'
  BY <1>1 DEF RequestInOrder, WithoutWorker, Job, Serving, Idle
<1>5. (lock = Ordinary => owner = None)'
  BY DEF Inductive
<1>6. Inv(p)'
  BY <1>3, <1>4 DEF Inv
<1> QED BY <1>1, <1>2, <1>5, <1>6

(* Approve, resume and their steps, but for the one that saves the job.    *)
LEMMA RequestStartsKeeps ==
  ASSUME Inductive, NEW p \in Projects, Approve(p) \/ Resume(p) \/ ResumeChecks(p)
  PROVE  Inductive'
<1>1. UNCHANGED <<job, evidence, owner, worker, boot, lock, backend, installed, loaded,
                  dash, restarting, edits, interrupts, restarts, last>>
  BY DEF Approve, Resume, ResumeChecks, files, ha, bounds, history
<1>2. job[p] \in Jobs \cup {None}
  BY DEF Inductive, TypeOK
<1>3. /\ request' \in Requests
      /\ (lock = Ordinary => owner = None)' /\ \A q \in Projects : Inv(q)'
  <2>1. CASE Approve(p)
    <3>1. job[p] \in Jobs /\ Serving
      BY <1>2, <2>1 DEF Approve, MayRepeat, Job
    <3>2. CASE Job(p, "review") /\ Requesting(p, "claim_review", job[p])
      BY <1>1, <3>1, <3>2, RequestMoves DEF RequestPC, Job
    <3>3. CASE Requesting(p, "claim", job[p])
      BY <1>1, <3>1, <3>3, RequestMoves DEF RequestPC
    <3> QED BY <2>1, <3>2, <3>3 DEF Approve
  <2>2. CASE Resume(p)
    <3>1. job[p] \in Jobs /\ Serving /\ Requesting(p, "resume", job[p])
      BY <1>2, <2>2 DEF Resume, MayRepeat, Job
    <3> QED BY <1>1, <3>1, RequestMoves DEF RequestPC
  <2>3. CASE ResumeChecks(p)
    <3>1. request[p].job \in Jobs /\ Serving
      BY <2>3 DEF ResumeChecks, Inductive, RequestInOrder, Idle
    <3>2. CASE WithoutWorker(p) /\ Requesting(p, "claim_resume", request[p].job)
      BY <1>1, <3>1, <3>2, RequestMoves DEF RequestPC
    <3>3. CASE RequestEnds(p)
      BY <1>1, <3>3, RequestEndsWhere, RequestMoves DEF RequestPC
    <3> QED BY <2>3, <3>2, <3>3 DEF ResumeChecks
  <2> QED BY <2>1, <2>2, <2>3
<1>4. TypeOK'
  BY <1>1, <1>3 DEF Inductive, TypeOK, Requests
<1> QED BY <1>3, <1>4 DEF Inductive, Inv

LEMMA RequestClaimsKeeps ==
  ASSUME Inductive, NEW p \in Projects, RequestClaims(p)
  PROVE  Inductive'
<1> DEFINE j == request[p].job
<1>1. UNCHANGED <<job, evidence, worker, boot, lock, backend, installed, loaded,
                  dash, restarting, edits, interrupts, restarts, last>>
  BY DEF RequestClaims, ha, bounds, history
<1>2. /\ request[p].pc \in {"claim_review", "claim_resume", "claim"}
      /\ j \in Jobs /\ Serving /\ lock # Ordinary
      /\ request[p].pc = "claim_review" => job[p] = j /\ j.status = "review"
      /\ request[p].pc = "claim_resume" => WithoutWorker(p)
  BY DistinctAssumption DEF RequestClaims, Claim, Inductive, RequestInOrder, Idle
<1>3. owner' \in Owners \cup {None} /\ (owner # None => owner' = owner)
  BY <1>2, MineIsOwner DEF RequestClaims, Claim, MayClaim, Inductive, TypeOK
<1>4. \A q \in Projects : Working(q) => owner' = owner
  BY <1>3, AtWork
<1>5. /\ request' \in Requests
      /\ (lock = Ordinary => owner = None)' /\ \A q \in Projects : Inv(q)'
  <2>1. CASE RequestEnds(p)
    BY <1>1, <1>2, <1>4, <2>1, RequestEndsWhere, RequestMoves DEF RequestPC
  <2>2. CASE Requesting(p, "launch", j)
    BY <1>1, <1>2, <1>4, <2>2, RequestMoves DEF RequestPC
  <2>3. CASE request[p].pc = "claim_review" /\ Requesting(p, "save_review", j)
    BY <1>1, <1>2, <1>4, <2>3, RequestMoves DEF RequestPC
  <2>4. CASE request[p].pc = "claim_resume" /\ Requesting(p, "save_resume", j)
    BY <1>1, <1>2, <1>4, <2>4, RequestMoves DEF RequestPC
  <2> QED BY <1>2, <2>1, <2>2, <2>3, <2>4 DEF RequestClaims
<1>6. TypeOK'
  BY <1>1, <1>3, <1>5 DEF Inductive, TypeOK, Requests
<1> QED BY <1>5, <1>6 DEF Inductive, Inv

(* The job that a request saves is a review's, or one without a worker.    *)
LEMMA RequestSavesKeeps ==
  ASSUME Inductive, NEW p \in Projects, RequestSaves(p)
  PROVE  Inductive'
<1> DEFINE j == Approved(request[p].job)
<1>1. /\ UNCHANGED <<evidence, owner, worker, boot, lock, backend, installed, loaded,
                     dash, restarting, edits, interrupts, restarts, last>>
      /\ request[p].pc \in {"save_review", "save_resume"}
      /\ job' = [job EXCEPT ![p] = j]
  BY DEF RequestSaves, ha, bounds, history
<1>2. request[p].job \in Jobs /\ Serving
  BY <1>1 DEF Inductive, RequestInOrder, Idle
<1>3. j \in Jobs /\ j.status = "running"
  BY <1>2 DEF Approved, Jobs
<1>4. /\ job' \in [Projects -> Jobs \cup {None}] /\ job'[p] = j
      /\ \A q \in Projects \ {p} : job'[q] = job[q]
  BY <1>1, <1>3 DEF Inductive, TypeOK
<1>5. PICK pc \in {"claim", "launch"} : Requesting(p, pc, j)
  BY <1>4 DEF RequestSaves
<1>6. /\ request' \in Requests
      /\ request'[p].pc = pc /\ request'[p].job = j
      /\ \A q \in Projects \ {p} : request'[q] = request[q]
  BY <1>3, <1>5, RequestWhere DEF RequestPC
<1>7. ASSUME NEW q \in Projects \ {p} PROVE Inv(q)'
  BY <1>1, <1>4, <1>6, <1>7, OthersKeep
<1>8. ~ Working(p) /\ worker[p].pc \notin {"claim", "release", "fail"}
  <2>1. CASE request[p].pc = "save_review"
    BY <2>1 DEF Inductive, RequestInOrder, WorksOnJob
  <2>2. CASE request[p].pc = "save_resume"
    BY <2>2 DEF Inductive, RequestInOrder, WithoutWorker, Idle, Working
  <2> QED BY <1>1, <2>1, <2>2
<1>9. WorksOnJob(p)' /\ OwnsHa(p)'
  BY <1>1, <1>8 DEF WorksOnJob, OwnsHa, Working, At
<1>10. RequestInOrder(p)'
  BY <1>1, <1>2, <1>3, <1>6 DEF RequestInOrder, Serving
<1>11. TypeOK'
  BY <1>1, <1>4, <1>6 DEF Inductive, TypeOK, Requests
<1> QED BY <1>1, <1>7, <1>9, <1>10, <1>11 DEF Inductive, Inv

(* A launched worker has yet to read its job.                              *)
LEMMA LaunchWhere ==
  ASSUME Inductive, NEW p \in Projects, Launch(p)
  PROVE  /\ worker' \in Workers
         /\ \A q \in Projects \ {p} : worker'[q] = worker[q]
         /\ \/ worker'[p] = worker[p]
            \/ worker[p] = Idle /\ worker'[p].pc = "start"
<1>1. worker \in Workers
  BY DEF Inductive, TypeOK, Workers
<1>2. CASE WithoutWorker(p)
  <2>1. worker' = [worker EXCEPT ![p] = [pc |-> "start", job |-> None]]
    BY <1>2 DEF Launch
  <2>2. [pc |-> "start", job |-> None] \in [pc : WorkerPC, job : Jobs \cup {None}]
    BY DEF WorkerPC
  <2> QED BY <1>1, <1>2, <2>1, <2>2 DEF Workers, WithoutWorker
<1>3. CASE ~ WithoutWorker(p)
  BY <1>1, <1>3 DEF Launch
<1> QED BY <1>2, <1>3

LEMMA RequestLaunchesKeeps ==
  ASSUME Inductive, NEW p \in Projects, RequestLaunches(p)
  PROVE  Inductive'
<1>1. /\ UNCHANGED <<job, evidence, owner, boot, lock, backend, installed, loaded,
                     dash, restarting, edits, interrupts, restarts, last>>
      /\ Launch(p) /\ Requesting(p, "idle", None)
  BY RequestEndsWhere DEF RequestLaunches, files, ha, bounds, history
<1>2. /\ worker' \in Workers
      /\ \A q \in Projects \ {p} : worker'[q] = worker[q]
      /\ \/ worker'[p] = worker[p]
         \/ worker[p] = Idle /\ worker'[p].pc = "start"
  BY <1>1, LaunchWhere
<1>3. /\ request' \in Requests
      /\ request'[p] = [pc |-> "idle", job |-> None]
      /\ request'[p].pc = "idle"
      /\ \A q \in Projects \ {p} : request'[q] = request[q]
  BY <1>1, RequestWhere DEF RequestPC
<1>4. ASSUME NEW q \in Projects \ {p} PROVE Inv(q)'
  BY <1>1, <1>2, <1>3, <1>4, OthersKeep
<1>5. WorksOnJob(p)' /\ OwnsHa(p)'
  BY <1>1, <1>2 DEF Inductive, WorksOnJob, OwnsHa, Working, At, Mine
<1>6. RequestInOrder(p)'
  BY <1>3 DEF RequestInOrder, Idle
<1>7. TypeOK'
  BY <1>1, <1>2, <1>3 DEF Inductive, TypeOK, Requests, Workers
<1> QED BY <1>1, <1>4, <1>5, <1>6, <1>7 DEF Inductive, Inv

LEMMA CancelKeeps ==
  ASSUME Inductive, NEW p \in Projects, Cancel(p)
  PROVE  Inductive'
<1>1. /\ UNCHANGED <<evidence, owner, worker, boot, lock, backend, installed, loaded,
                     dash, restarting, edits, interrupts, restarts, last>>
      /\ Serving /\ request[p] = Idle /\ job[p] # None /\ job[p].status = "review"
      /\ job' = [job EXCEPT ![p].status = "cancelled"]
  BY DEF Cancel, Job, ha, bounds, history
<1>2. job[p] \in Jobs /\ [job[p] EXCEPT !.status = "cancelled"] \in Jobs
  <2>1. job[p] \in Jobs
    BY <1>1 DEF Inductive, TypeOK
  <2> QED BY <2>1 DEF Jobs
<1>3. /\ job' \in [Projects -> Jobs \cup {None}]
      /\ job'[p] \in Jobs /\ job'[p].status = "cancelled"
      /\ \A q \in Projects \ {p} : job'[q] = job[q]
  <2>1. job' = [job EXCEPT ![p] = [job[p] EXCEPT !.status = "cancelled"]]
    BY <1>1 DEF Inductive, TypeOK
  <2>2. [job[p] EXCEPT !.status = "cancelled"].status = "cancelled"
    BY <1>2 DEF Jobs
  <2> QED BY <1>2, <2>1, <2>2 DEF Inductive, TypeOK
<1>4. /\ request' \in Requests
      /\ \A q \in Projects \ {p} : request'[q] = request[q]
      /\ \/ request'[p] = Idle
         \/ request'[p].pc = "free" /\ request'[p].job \in Jobs
  <2>1. CASE Requesting(p, "free", job'[p])
    <3>1. PICK j \in Jobs : j = job'[p]
      BY <1>3
    <3>2. Requesting(p, "free", j)
      BY <2>1, <3>1
    <3> QED BY <3>1, <3>2, RequestWhere DEF RequestPC
  <2>2. CASE UNCHANGED request
    BY <1>1, <2>2 DEF Inductive, TypeOK, Requests
  <2> QED BY <2>1, <2>2 DEF Cancel
<1>5. ASSUME NEW q \in Projects \ {p} PROVE Inv(q)'
  BY <1>1, <1>3, <1>4, <1>5, OthersKeep
<1>6. ~ Working(p) /\ worker[p].pc \notin {"claim", "release", "fail"}
  BY <1>1 DEF Inductive, WorksOnJob
<1>7. WorksOnJob(p)' /\ OwnsHa(p)'
  BY <1>1, <1>6 DEF WorksOnJob, OwnsHa, Working, At
<1>8. RequestInOrder(p)'
  <2>1. job'[p] # None
    BY <1>3, DistinctAssumption
  <2> QED BY <1>1, <1>3, <1>4, <2>1 DEF RequestInOrder, Serving, Job, Idle
<1>9. TypeOK'
  BY <1>1, <1>3, <1>4 DEF Inductive, TypeOK, Requests
<1> QED BY <1>1, <1>5, <1>7, <1>8, <1>9 DEF Inductive, Inv

LEMMA CancelFreesKeeps ==
  ASSUME Inductive, NEW p \in Projects, CancelFrees(p)
  PROVE  Inductive'
<1>1. /\ UNCHANGED <<job, evidence, worker, boot, lock, backend, installed, loaded,
                     dash, restarting, edits, interrupts, restarts, last>>
      /\ request[p].pc = "free" /\ lock # Ordinary
      /\ Requesting(p, "idle", None)
  BY DistinctAssumption, RequestEndsWhere DEF CancelFrees, ha, bounds, history
<1>2. ~ Working(p)
  BY <1>1 DEF Inductive, RequestInOrder, WorksOnJob, Job
<1>3. ASSUME NEW q \in Projects, Working(q) PROVE owner' = owner
  BY <1>2, <1>3, AtWork, DifferentOwners DEF CancelFrees
<1>4. owner' \in Owners \cup {None}
  BY DEF CancelFrees, Inductive, TypeOK
<1>5. /\ request' \in Requests
      /\ (lock = Ordinary => owner = None)' /\ \A q \in Projects : Inv(q)'
  BY <1>1, <1>3, RequestMoves DEF RequestPC
<1>6. TypeOK'
  BY <1>1, <1>4, <1>5 DEF Inductive, TypeOK, Requests
<1> QED BY <1>5, <1>6 DEF Inductive, Inv

(* A request that raises after its claim or its write, or before.          *)
LEMMA RequestRaisesKeeps ==
  ASSUME Inductive, NEW p \in Projects, RequestRaises(p)
  PROVE  Inductive'
<1> DEFINE j == Approved(request[p].job)
<1>1. /\ UNCHANGED <<evidence, worker, boot, lock, backend, installed, loaded,
                     dash, restarting, edits, restarts, last>>
      /\ interrupts' \in 0..MaxInterrupts
      /\ Requesting(p, "idle", None)
      /\ request[p].pc # "idle"
  BY InterruptedBounds, RequestEndsWhere DEF RequestRaises, DiskFails, ha, history
<1>2. request[p].job \in Jobs /\ Serving
  BY <1>1 DEF Inductive, RequestInOrder, Idle
<1>3. CASE job' = job /\ lock = None
  <2>1. owner' \in Owners \cup {None} /\ (owner # None => owner' = owner)
    BY <1>2, <1>3, MineIsOwner DEF RequestRaises, MayClaim, Inductive, TypeOK
  <2>2. \A q \in Projects : Working(q) => owner' = owner
    BY <2>1, AtWork
  <2>3. /\ request' \in Requests
        /\ (lock = Ordinary => owner = None)' /\ \A q \in Projects : Inv(q)'
    BY <1>1, <1>3, <2>2, RequestMoves, DistinctAssumption DEF RequestPC
  <2>4. TypeOK'
    BY <1>1, <1>3, <2>1, <2>3 DEF Inductive, TypeOK, Requests
  <2> QED BY <2>3, <2>4 DEF Inductive, Inv
<1>4. CASE /\ request[p].pc \in {"save_review", "save_resume"} /\ owner' = owner
           /\ job' = job \/ job' = [job EXCEPT ![p] = j]
  <2>1. /\ request' \in Requests
        /\ request'[p] = [pc |-> "idle", job |-> None] /\ request'[p].pc = "idle"
        /\ \A q \in Projects \ {p} : request'[q] = request[q]
    BY <1>1, RequestWhere DEF RequestPC
  <2>2. j \in Jobs /\ j.status = "running"
    BY <1>2 DEF Approved, Jobs
  <2>3. /\ job' \in [Projects -> Jobs \cup {None}]
        /\ \A q \in Projects \ {p} : job'[q] = job[q]
    BY <1>4, <2>2 DEF Inductive, TypeOK
  <2>4. ASSUME NEW q \in Projects \ {p} PROVE Inv(q)'
    BY <1>1, <1>4, <2>1, <2>3, <2>4, OthersKeep
  <2>5. ~ Working(p) /\ worker[p].pc \notin {"claim", "release", "fail"}
    BY <1>4 DEF Inductive, RequestInOrder, WorksOnJob, WithoutWorker, Idle, Working
  <2>6. WorksOnJob(p)' /\ OwnsHa(p)' /\ RequestInOrder(p)'
    BY <1>1, <2>1, <2>5 DEF WorksOnJob, OwnsHa, RequestInOrder, Working, At, Idle
  <2>7. TypeOK'
    BY <1>1, <1>4, <2>1, <2>3 DEF Inductive, TypeOK, Requests
  <2> QED BY <1>1, <1>4, <2>4, <2>6, <2>7 DEF Inductive, Inv
<1> QED BY <1>3, <1>4 DEF RequestRaises

(* cancel that raises behind its write: as a cancel without a reservation. *)
LEMMA CancelRaisesKeeps ==
  ASSUME Inductive, NEW p \in Projects, CancelRaises(p)
  PROVE  Inductive'
<1>1. /\ UNCHANGED <<evidence, owner, worker, request, boot, lock, backend, installed, loaded,
                     dash, restarting, edits, restarts, last>>
      /\ interrupts' \in 0..MaxInterrupts
      /\ request[p] = Idle /\ job[p] # None /\ job[p].status = "review"
      /\ job' = [job EXCEPT ![p].status = "cancelled"]
  BY InterruptedBounds DEF CancelRaises, DiskFails, Job, threads, ha, history
<1>2. job[p] \in Jobs /\ [job[p] EXCEPT !.status = "cancelled"] \in Jobs
  <2>1. job[p] \in Jobs
    BY <1>1 DEF Inductive, TypeOK
  <2> QED BY <2>1 DEF Jobs
<1>3. job' \in [Projects -> Jobs \cup {None}] /\ \A q \in Projects \ {p} : job'[q] = job[q]
  <2>1. job' = [job EXCEPT ![p] = [job[p] EXCEPT !.status = "cancelled"]]
    BY <1>1 DEF Inductive, TypeOK
  <2> QED BY <1>2, <2>1 DEF Inductive, TypeOK
<1>4. ASSUME NEW q \in Projects \ {p} PROVE Inv(q)'
  BY <1>1, <1>3, <1>4, OthersKeep
<1>5. ~ Working(p) /\ worker[p].pc \notin {"claim", "release", "fail"}
  BY <1>1 DEF Inductive, WorksOnJob
<1>6. WorksOnJob(p)' /\ OwnsHa(p)' /\ RequestInOrder(p)'
  BY <1>1, <1>5 DEF WorksOnJob, OwnsHa, RequestInOrder, Working, At, Idle
<1>7. TypeOK'
  BY <1>1, <1>3 DEF Inductive, TypeOK
<1> QED BY <1>1, <1>4, <1>6, <1>7 DEF Inductive, Inv

LEMMA RequestStepKeeps ==
  ASSUME Inductive, NEW p \in Projects, RequestStep(p)
  PROVE  Inductive'
BY RequestStartsKeeps, RequestClaimsKeeps, RequestSavesKeeps, RequestLaunchesKeeps, CancelFreesKeeps,
   RequestRaisesKeeps
DEF RequestStep

LEMMA UserStepKeeps ==
  ASSUME Inductive, NEW p \in Projects, UserStep(p)
  PROVE  Inductive'
BY ReviewKeeps, RequestStartsKeeps, CancelKeeps, CancelRaisesKeeps DEF UserStep

-----------------------------------------------------------------------------
(* The environment, crashes and startup.                                   *)

(* What leaves jobs, threads and the owner alone keeps their invariant.    *)
LEMMA AllKeep ==
  ASSUME Inductive, UNCHANGED <<job, owner, worker, request, boot>>,
         lock' = Ordinary => owner = None
  PROVE  (lock = Ordinary => owner = None)' /\ \A q \in Projects : Inv(q)'
<1>1. ASSUME NEW q \in Projects, Working(q) PROVE lock' # Ordinary
  BY <1>1, AtWork
<1>2. ASSUME NEW q \in Projects PROVE Inv(q)'
  BY <1>1, <1>2, Frame DEF Inductive, Inv
<1> QED BY <1>2

LEMMA OrdinaryApplyKeeps ==
  ASSUME Inductive,
         \/ BeginOrdinaryApply \/ EndOrdinaryApply
         \/ \E p \in Projects, content \in Contents : OrdinaryApply(p, content)
  PROVE  Inductive'
<1>1. /\ UNCHANGED <<job, evidence, owner, worker, request, boot, backend, installed, loaded,
                     restarting, interrupts, restarts>>
      /\ lock' \in {None, Ordinary} /\ (lock' = Ordinary => owner = None)
  BY DistinctAssumption
  DEF BeginOrdinaryApply, MayApply, EndOrdinaryApply, OrdinaryApply, files, threads, ha, bounds,
      history, Inductive
<1> DEFINE Typed == /\ dash' \in [Projects -> Contents] /\ edits' \in 0..MaxEdits
                    /\ last' \in Owners \cup {Ordinary, None}
<1>2. Typed
  <2>1. CASE UNCHANGED <<dash, edits, last>>
    BY <2>1 DEF Inductive, TypeOK
  <2>2. ASSUME NEW p \in Projects, NEW content \in Contents, OrdinaryApply(p, content)
        PROVE  Typed
    BY <2>2, ConstantsAssumption DEF OrdinaryApply, Inductive, TypeOK
  <2> QED BY <2>1, <2>2 DEF BeginOrdinaryApply, EndOrdinaryApply, ha, bounds, history
<1>3. TypeOK'
  BY <1>1, <1>2 DEF Inductive, TypeOK
<1> QED BY <1>1, <1>3, AllKeep DEF Inductive, Inv

LEMMA OutsideKeeps ==
  ASSUME Inductive,
         \/ \E p \in Projects, content \in Contents : EditDashboard(p, content)
         \/ \E p \in Projects, release \in Releases : ReplaceIntegration(p, release)
         \/ HaRestarts
  PROVE  Inductive'
<1>1. UNCHANGED <<job, evidence, owner, worker, request, boot, lock, backend, interrupts,
                  restarts, last>>
  BY DEF EditDashboard, ReplaceIntegration, HaRestarts, files, threads, bounds, history
<1> DEFINE Typed == /\ dash' \in [Projects -> Contents] /\ edits' \in 0..MaxEdits
                    /\ installed' \in [Projects -> Releases]
                    /\ loaded' \in [Projects -> Releases] /\ restarting' \in BOOLEAN
<1>2. Typed
  <2>1. ASSUME NEW p \in Projects, NEW content \in Contents, EditDashboard(p, content)
        PROVE  Typed
    BY <2>1, ConstantsAssumption DEF EditDashboard, Inductive, TypeOK
  <2>2. ASSUME NEW p \in Projects, NEW release \in Releases, ReplaceIntegration(p, release)
        PROVE  Typed
    BY <2>2, ConstantsAssumption DEF ReplaceIntegration, Inductive, TypeOK
  <2>3. CASE HaRestarts
    BY <2>3 DEF HaRestarts, bounds, Inductive, TypeOK
  <2> QED BY <2>1, <2>2, <2>3
<1>3. TypeOK'
  BY <1>1, <1>2 DEF Inductive, TypeOK
<1> QED BY <1>1, <1>3, AllKeep DEF Inductive, Inv

LEMMA CrashKeeps ==
  ASSUME Inductive, Crash
  PROVE  Inductive'
<1>1. /\ UNCHANGED <<job, evidence, owner, backend, installed, loaded, dash, restarting,
                     edits, restarts, last>>
      /\ interrupts' \in 0..MaxInterrupts
  BY InterruptedBounds DEF Crash, files, ha, history
<1>2. /\ worker' \in Workers /\ request' \in Requests /\ boot' \in [Projects -> 0..2]
      /\ lock' = None /\ lock' # Ordinary
      /\ \A p \in Projects : worker'[p] = Idle /\ request'[p] = Idle
  BY DistinctAssumption DEF Crash, Workers, Requests, Idle, WorkerPC, RequestPC
<1>3. ASSUME NEW p \in Projects PROVE Inv(p)'
  BY <1>2, <1>3 DEF Inv, WorksOnJob, RequestInOrder, OwnsHa, Working, At, Idle
<1>4. TypeOK'
  BY <1>1, <1>2 DEF Inductive, TypeOK, Workers, Requests
<1> QED BY <1>2, <1>3, <1>4 DEF Inductive, Inv

(* While a project is being recovered no request is under way, and its job *)
(* has no working thread if it has succeeded.                              *)
LEMMA RecoverKeeps ==
  ASSUME Inductive, NEW p \in Projects, Recover(p)
  PROVE  Inductive'
<1>1. UNCHANGED <<job, evidence, request, lock, backend, installed, loaded, dash, restarting,
                  edits, interrupts, restarts, last>>
  BY DEF Recover, ha, bounds, history
<1>2. /\ worker' \in Workers
      /\ \A q \in Projects \ {p} : worker'[q] = worker[q]
      /\ \/ worker'[p] = worker[p]
         \/ worker[p] = Idle /\ worker'[p].pc = "start"
  <2>1. CASE Launch(p)
    BY <2>1, LaunchWhere
  <2>2. CASE UNCHANGED worker
    BY <2>2 DEF Inductive, TypeOK, Workers
  <2> QED BY <2>1, <2>2 DEF Recover
<1>3. \A q \in Projects : request[q] = Idle
  BY DEF Recover, Inductive, TypeOK, RequestInOrder, Serving
<1>4. boot' \in [Projects -> 0..2]
  BY DEF Recover, Inductive, TypeOK
<1>5. /\ owner' \in Owners \cup {None}
      /\ (lock = Ordinary => owner' = owner)
  BY DistinctAssumption DEF Recover, Inductive, TypeOK
<1>6. ASSUME NEW q \in Projects, Working(q) PROVE owner' = owner
  <2>1. owner = Mine(q, worker[q].job) /\ job[q].status = "running"
    BY <1>6, AtWork
  <2>2. ~ FreesAtBoot(p)
    BY <2>1, DifferentOwners DEF FreesAtBoot, Job
  <2> QED BY <2>2 DEF Recover
<1>7. ASSUME NEW q \in Projects PROVE Inv(q)'
  <2>1. RequestInOrder(q)'
    BY <1>1, <1>3, <1>7 DEF RequestInOrder, Idle
  <2>2. CASE worker'[q] = worker[q]
    BY <1>1, <1>6, <1>7, <2>1, <2>2 DEF Inductive, Inv, WorksOnJob, OwnsHa, Working, At, Mine
  <2>3. CASE worker'[q].pc = "start"
    BY <2>1, <2>3 DEF Inv, WorksOnJob, OwnsHa, Working, At
  <2> QED BY <1>2, <2>2, <2>3
<1>8. TypeOK'
  BY <1>1, <1>2, <1>4, <1>5 DEF Inductive, TypeOK, Workers
<1> QED BY <1>1, <1>5, <1>7, <1>8 DEF Inductive, Inv

LEMMA RecoverRaisesKeeps ==
  ASSUME Inductive, NEW p \in Projects, RecoverRaises(p)
  PROVE  Inductive'
<1>1. /\ UNCHANGED <<job, evidence, owner, worker, request, lock, backend, installed, loaded,
                     dash, restarting, edits, restarts, last>>
      /\ interrupts' \in 0..MaxInterrupts
      /\ boot[p] > 0
  BY InterruptedBounds DEF RecoverRaises, DiskFails, files, ha, history
<1>2. boot' \in [Projects -> 0..2]
  BY DEF RecoverRaises, Inductive, TypeOK
<1>3. \A q \in Projects : request[q] = Idle
  BY <1>1 DEF Inductive, TypeOK, RequestInOrder, Serving
<1>4. ASSUME NEW q \in Projects PROVE Inv(q)'
  BY <1>1, <1>3, <1>4
  DEF Inductive, Inv, WorksOnJob, RequestInOrder, OwnsHa, Working, At, Mine, Idle
<1>5. TypeOK'
  BY <1>1, <1>2 DEF Inductive, TypeOK
<1> QED BY <1>1, <1>4, <1>5 DEF Inductive, Inv

LEMMA InitHolds == Init => Inductive
<1> SUFFICES ASSUME Init PROVE Inductive
  OBVIOUS
<1>1. Idle \in [pc : WorkerPC, job : Jobs \cup {None}]
  BY DEF Idle, WorkerPC
<1>2. Idle \in [pc : RequestPC, job : Jobs \cup {None}]
  BY DEF Idle, RequestPC
<1>3. TypeOK
  <2>1. 0 \in Releases /\ 0 \in 0..MaxEdits /\ 0 \in 0..MaxInterrupts /\ 0 \in 0..2
    BY ConstantsAssumption DEF Releases
  <2> QED BY <1>1, <1>2, <2>1 DEF Init, TypeOK
<1>4. ASSUME NEW p \in Projects PROVE WorksOnJob(p) /\ RequestInOrder(p) /\ OwnsHa(p)
  BY <1>4 DEF Init, WorksOnJob, RequestInOrder, OwnsHa, Working, At, Idle
<1> QED BY <1>3, <1>4 DEF Init, Inductive

LEMMA NextKeeps == Inductive /\ [Next]_vars => Inductive'
<1> SUFFICES ASSUME Inductive, [Next]_vars PROVE Inductive'
  OBVIOUS
<1>1. CASE Environment
  BY <1>1, OrdinaryApplyKeeps, OutsideKeeps, CrashKeeps DEF Environment
<1>2. ASSUME NEW p \in Projects,
             UserStep(p) \/ RequestStep(p) \/ WorkerStep(p) \/ Recover(p) \/ RecoverRaises(p)
      PROVE  Inductive'
  BY <1>2, UserStepKeeps, RequestStepKeeps, WorkerStepKeeps, RecoverKeeps, RecoverRaisesKeeps
<1>3. CASE UNCHANGED vars
  <2>1. UNCHANGED <<job, evidence, owner, worker, request, boot, lock, backend, installed, loaded,
                    dash, restarting, edits, interrupts, restarts, last>>
    BY <1>3 DEF vars, files, threads, ha, bounds, history
  <2>2. TypeOK'
    BY <2>1 DEF Inductive, TypeOK
  <2>3. lock' = Ordinary => owner = None
    BY <2>1 DEF Inductive
  <2> QED BY <2>1, <2>2, <2>3, AllKeep DEF Inductive, Inv
<1> QED BY <1>1, <1>2, <1>3 DEF Next

-----------------------------------------------------------------------------

(* In every reachable state every worker works on the job in job.json, no  *)
(* request is overtaken, and a working worker owns HA.                     *)
THEOREM Invariance == Spec => []Inductive
BY InitHolds, NextKeeps, PTL DEF Spec

(* Two projects, or a project and ordinary Apply, never work on HA at the  *)
(* same time (Coordinator.claim and operation).                            *)
THEOREM MutualExclusion == Spec => []OwnsWhileWorking
<1>1. Inductive => OwnsWhileWorking
  BY DEF Inductive, OwnsWhileWorking
<1> QED BY <1>1, Invariance, PTL

-----------------------------------------------------------------------------
(* The steps of the abstract reservation.                                  *)

Holder == IF lock = Ordinary THEN Ordinary ELSE owner

ReservationStep == [Reservation!Next]_<<Holder, last>>

LEMMA ReservationSteps ==
  /\ Holder' = Holder /\ last' = last => ReservationStep
  /\ Holder # None /\ Holder' = Holder /\ last' = Holder => ReservationStep
  /\ Holder = None /\ Holder' \in Owners \cup {Ordinary} /\ last' = last => ReservationStep
  /\ Holder # None /\ Holder' = None /\ last' = last => ReservationStep
BY DEF ReservationStep, Holder, Reservation!Next, Reservation!Acquire, Reservation!Change,
       Reservation!Free

(* Claims and releases: the new owner, while nobody holds the lock.        *)
LEMMA OwnerMoves ==
  ASSUME lock # Ordinary, lock' # Ordinary, last' = last,
         \/ owner' = owner
         \/ owner = None /\ owner' \in Owners
         \/ owner # None /\ owner' = None
  PROVE  ReservationStep
BY ReservationSteps DEF Holder

(* A working worker changes HA as its owner.                               *)
LEMMA WorkerChanges ==
  ASSUME Inductive, NEW p \in Projects, Working(p), UNCHANGED owner,
         lock' \in {lock, p, None}, NEW changed \in BOOLEAN, Changes(p, changed)
  PROVE  ReservationStep
<1>1. /\ lock # Ordinary /\ owner # None /\ owner = Mine(p, worker[p].job)
      /\ lock' # Ordinary
  BY AtWork, DistinctAssumption
<1> QED BY <1>1, ReservationSteps DEF Changes, Holder

LEMMA ClaimIsAcquire ==
  ASSUME Inductive, NEW p \in Projects, NEW j \in Jobs, Claim(p, j), UNCHANGED <<lock, last>>
  PROVE  ReservationStep
<1>1. lock # Ordinary /\ lock' # Ordinary
  BY DistinctAssumption DEF Claim
<1>2. owner' = owner \/ (owner = None /\ owner' \in Owners)
  BY MineIsOwner DEF Claim, MayClaim
<1> QED BY <1>1, <1>2, OwnerMoves

(* A claim that raises has been written or not.                            *)
LEMMA RaisedClaim ==
  ASSUME Inductive, NEW p \in Projects, NEW j \in Jobs, lock = None, UNCHANGED <<lock, last>>,
         owner' = owner \/ (MayClaim(p, j) /\ owner' = Mine(p, j))
  PROVE  ReservationStep
<1>1. lock # Ordinary /\ lock' # Ordinary
  BY DistinctAssumption
<1>2. owner' = owner \/ (owner = None /\ owner' \in Owners)
  BY MineIsOwner DEF MayClaim
<1> QED BY <1>1, <1>2, OwnerMoves

LEMMA RequestReserves ==
  ASSUME Inductive, NEW p \in Projects, RequestStep(p)
  PROVE  ReservationStep
<1>1. CASE RequestClaims(p)
  <2>1. request[p].job \in Jobs
    BY <1>1 DEF RequestClaims, Inductive, RequestInOrder, Idle
  <2> QED BY <1>1, <2>1, ClaimIsAcquire DEF RequestClaims, history
<1>2. CASE CancelFrees(p)
  <2>1. lock # Ordinary /\ lock' # Ordinary /\ last' = last
    BY <1>2, DistinctAssumption DEF CancelFrees, history
  <2>2. request[p].job \in Jobs
    BY <1>2 DEF CancelFrees, Inductive, RequestInOrder, Idle
  <2>3. owner' = owner \/ (owner # None /\ owner' = None)
    BY <1>2, <2>2, MineIsOwner DEF CancelFrees
  <2> QED BY <2>1, <2>3, OwnerMoves
<1>3. CASE ResumeChecks(p) \/ RequestSaves(p) \/ RequestLaunches(p)
  <2>1. UNCHANGED <<owner, lock, last>>
    BY <1>3 DEF ResumeChecks, RequestSaves, RequestLaunches, files, history
  <2> QED BY <2>1, ReservationSteps DEF Holder
<1>4. CASE RequestRaises(p)
  <2>1. UNCHANGED <<lock, last>> /\ request[p].job \in Jobs
    BY <1>4 DEF RequestRaises, history, Inductive, RequestInOrder, Idle
  <2>2. CASE owner' = owner
    BY <2>1, <2>2, ReservationSteps DEF Holder
  <2>3. CASE owner' # owner
    BY <1>4, <2>1, <2>3, RaisedClaim DEF RequestRaises
  <2> QED BY <2>2, <2>3
<1> QED BY <1>1, <1>2, <1>3, <1>4 DEF RequestStep

LEMMA WorkerReserves ==
  ASSUME Inductive, NEW p \in Projects, WorkerStep(p)
  PROVE  ReservationStep
<1>1. CASE Claims(p)
  <2>1. worker[p].job \in Jobs
    BY <1>1 DEF Claims, At, Inductive, WorksOnJob
  <2> QED BY <1>1, <2>1, ClaimIsAcquire DEF Claims, history
<1>2. CASE Frees(p)
  <2>1. lock # Ordinary /\ lock' # Ordinary /\ last' = last
    BY <1>2, DistinctAssumption DEF Frees, history
  <2>2. worker[p].job \in Jobs
    BY <1>2 DEF Frees, At, Inductive, WorksOnJob
  <2>3. owner' = owner \/ (owner # None /\ owner' = None)
    BY <1>2, <2>2, MineIsOwner DEF Frees
  <2> QED BY <2>1, <2>3, OwnerMoves
<1>3. ASSUME Working(p), UNCHANGED owner, lock' \in {lock, p, None},
             last' = last \/ \E changed \in BOOLEAN : Changes(p, changed)
      PROVE  ReservationStep
  <2>1. CASE last' = last
    <3>1. lock # Ordinary /\ lock' # Ordinary
      BY <1>3, AtWork, DistinctAssumption
    <3> QED BY <1>3, <2>1, <3>1, OwnerMoves
  <2> QED BY <1>3, <2>1, WorkerChanges
<1>4. CASE DeployBackend(p)
  <2>1. Working(p) /\ UNCHANGED <<owner, lock>> /\ \E changed \in BOOLEAN : Changes(p, changed)
    BY <1>4 DEF DeployBackend, AtStage, At, Working, files
  <2> QED BY <1>3, <2>1
<1>5. CASE Install(p)
  <2>1. Working(p) /\ UNCHANGED <<owner, lock>>
    BY <1>5 DEF Install, AtStage, At, Working, files
  <2>2. last' = last \/ Changes(p, installed' # installed)
    BY <1>5 DEF Install
  <2>3. (installed' # installed) \in BOOLEAN
    OBVIOUS
  <2> QED BY <1>3, <2>1, <2>2, <2>3
<1>6. CASE RequestRestart(p)
  <2>1. /\ Working(p) /\ UNCHANGED <<owner, lock>>
        /\ last' = last \/ \E changed \in BOOLEAN : Changes(p, changed)
    BY <1>6 DEF RequestRestart, At, Working, files, history
  <2> QED BY <1>3, <2>1
<1>7. CASE ApplyDashboards(p)
  <2>1. Working(p) /\ UNCHANGED owner /\ lock' = None
    BY <1>7 DEF ApplyDashboards, At, Working, files
  <2>2. last' = last \/ Changes(p, dash' # dash)
    BY <1>7 DEF ApplyDashboards
  <2>3. (dash' # dash) \in BOOLEAN
    OBVIOUS
  <2> QED BY <1>3, <2>1, <2>2, <2>3
<1>8. CASE \/ EntersOperation(p) \/ CallRaises(p)
  <2>1. Working(p) /\ UNCHANGED <<owner, last>> /\ lock' \in {lock, p, None}
    BY <1>8 DEF EntersOperation, CallRaises, AtStage, At, Working, files, history
  <2> QED BY <1>3, <2>1
<1>9. CASE \/ Reads(p) \/ Backup(p) \/ WaitsForHa(p) \/ FinalCheck(p)
           \/ Saves(p) \/ SaveRaises(p) \/ Fails(p) \/ Ends(p)
  <2>1. UNCHANGED <<owner, lock, last>>
    BY <1>9 DEF Reads, Backup, WaitsForHa, FinalCheck, Saves, SaveRaises, Fails, Ends, files, history
  <2> QED BY <2>1, ReservationSteps DEF Holder
<1>10. CASE DiskRaises(p)
  <2>1. UNCHANGED <<lock, last>>
    BY <1>10 DEF DiskRaises, history
  <2>2. CASE owner' = owner
    BY <2>1, <2>2, ReservationSteps DEF Holder
  <2>3. CASE owner' # owner
    <3>1. worker[p].job \in Jobs
      BY <1>10, <2>3 DEF DiskRaises, At, Inductive, WorksOnJob
    <3> QED BY <1>10, <2>1, <2>3, <3>1, RaisedClaim DEF DiskRaises
  <2> QED BY <2>2, <2>3
<1> QED BY <1>1, <1>2, <1>4, <1>5, <1>6, <1>7, <1>8, <1>9, <1>10 DEF WorkerStep

LEMMA UserReserves ==
  ASSUME NEW p \in Projects, UserStep(p)
  PROVE  ReservationStep
<1>1. UNCHANGED <<owner, lock, last>>
  BY DEF UserStep, Review, Approve, Resume, Cancel, CancelRaises, files, threads, history
<1> QED BY <1>1, ReservationSteps DEF Holder

LEMMA RecoverReserves ==
  ASSUME Inductive, NEW p \in Projects, Recover(p) \/ RecoverRaises(p)
  PROVE  ReservationStep
<1>1. UNCHANGED <<lock, last>>
  BY DEF Recover, RecoverRaises, history
<1>2. CASE owner' = owner
  BY <1>1, <1>2, ReservationSteps DEF Holder
<1>3. CASE Recover(p) /\ FreesAtBoot(p)
  <2>1. lock # Ordinary /\ owner' = None
    BY <1>3, DistinctAssumption DEF Recover
  <2>2. job[p] \in Jobs /\ owner = Mine(p, job[p])
    BY <1>3 DEF FreesAtBoot, Job, Inductive, TypeOK
  <2> QED BY <1>1, <2>1, <2>2, MineIsOwner, OwnerMoves
<1> QED BY <1>2, <1>3 DEF Recover, RecoverRaises, files

LEMMA EnvironmentReserves ==
  ASSUME Inductive, Environment
  PROVE  ReservationStep
<1>1. CASE BeginOrdinaryApply
  <2>1. Holder = None /\ Holder' = Ordinary /\ last' = last
    BY <1>1, DistinctAssumption DEF BeginOrdinaryApply, MayApply, Holder, history
  <2> QED BY <2>1, ReservationSteps
<1>2. CASE EndOrdinaryApply
  <2>1. Holder = Ordinary /\ Holder # None /\ Holder' = None /\ last' = last
    BY <1>2, DistinctAssumption DEF EndOrdinaryApply, Holder, Inductive, files, history
  <2> QED BY <2>1, ReservationSteps
<1>3. ASSUME NEW p \in Projects, NEW content \in Contents, OrdinaryApply(p, content)
      PROVE  ReservationStep
  <2>1. Holder = Ordinary /\ Holder # None /\ Holder' = Holder /\ last' = Holder
    BY <1>3, DistinctAssumption DEF OrdinaryApply, Holder, files, threads
  <2> QED BY <2>1, ReservationSteps
<1>4. CASE Crash
  <2>1. last' = last /\ Holder' = owner
    BY <1>4, DistinctAssumption DEF Crash, Holder, files, history
  <2>2. CASE lock = Ordinary
    <3>1. Holder # None /\ Holder' = None
      BY <2>1, <2>2, DistinctAssumption DEF Holder, Inductive
    <3> QED BY <2>1, <3>1, ReservationSteps
  <2>3. CASE lock # Ordinary
    BY <2>1, <2>3, ReservationSteps DEF Holder
  <2> QED BY <2>2, <2>3
<1>5. CASE \/ \E p \in Projects, content \in Contents : EditDashboard(p, content)
           \/ \E p \in Projects, release \in Releases : ReplaceIntegration(p, release)
           \/ HaRestarts
  <2>1. UNCHANGED <<owner, lock, last>>
    BY <1>5 DEF EditDashboard, ReplaceIntegration, HaRestarts, files, threads, history
  <2> QED BY <2>1, ReservationSteps DEF Holder
<1> QED BY <1>1, <1>2, <1>3, <1>4, <1>5 DEF Environment

(* claim, operation and release, with the files and threads around them,   *)
(* implement the abstract reservation: HA changes hands only when it is    *)
(* free, and only its present user changes it.                             *)
THEOREM ImplementsReservation == Spec => ReservationSpec
<1>1. Init => Reservation!Init
  BY DistinctAssumption DEF Init, Reservation!Init
<1>2. Inductive /\ [Next]_vars => ReservationStep
  <2> SUFFICES ASSUME Inductive, [Next]_vars PROVE ReservationStep
    OBVIOUS
  <2>1. CASE UNCHANGED vars
    <3>1. UNCHANGED <<owner, lock, last>>
      BY <2>1 DEF vars, files, threads, history
    <3> QED BY <3>1, ReservationSteps DEF Holder
  <2>2. CASE Environment
    BY <2>2, EnvironmentReserves
  <2>3. ASSUME NEW p \in Projects,
               UserStep(p) \/ RequestStep(p) \/ WorkerStep(p) \/ Recover(p) \/ RecoverRaises(p)
        PROVE  ReservationStep
    BY <2>3, UserReserves, RequestReserves, WorkerReserves, RecoverReserves
  <2> QED BY <2>1, <2>2, <2>3 DEF Next
<1> QED BY <1>1, <1>2, Invariance, PTL
        DEF Spec, ReservationSpec, Reservation!Spec, ReservationStep, Holder
=============================================================================
