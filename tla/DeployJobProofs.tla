--------------------------- MODULE DeployJobProofs ---------------------------
(***************************************************************************)
(* What a deployment promises of its job (Deployments!InOrder and what     *)
(* follows from it), for every set of projects and contents, every bound   *)
(* and every failure of HA, the executor or the disk.  Two of the things   *)
(* Deployments can do are left out, and break these promises: requests     *)
(* repeated while a worker runs, and somebody replacing an integration's   *)
(* files.                                                                  *)
(***************************************************************************)
EXTENDS DeploymentsProofs

Undisturbed == Repeats = FALSE /\ "replace" \notin Faults

Good(p) == UpToDate(p) /\ LeftBehind(p)

LEMMA StageOrder ==
  ASSUME NEW j \in Jobs
  PROVE  /\ StageNumber[j.stage] \in 1..7
         /\ Reached(j, "wait_ha") <=> j.stage \in {"wait_ha", "dashboard", "verify"}
         /\ Reached(j, "restart") <=> j.stage \in {"restart", "wait_ha", "dashboard", "verify"}
         /\ Reached(j, j.stage)
<1>1. j.stage \in Stages
  BY DEF Jobs
<1> QED BY <1>1 DEF Reached, StageNumber, Stages

LEMMA ReachedOn ==
  ASSUME NEW j \in Jobs, NEW k \in Jobs, NEW s \in Stages, Reached(j, k.stage), Reached(k, s)
  PROVE  Reached(j, s)
<1>1. /\ StageNumber[j.stage] \in Int /\ StageNumber[k.stage] \in Int
      /\ StageNumber[s] \in Int
  <2>1. \A t \in Stages : StageNumber[t] \in Int
    BY DEF StageNumber, Stages
  <2> QED BY <2>1 DEF Jobs
<1> QED BY <1>1 DEF Reached

(* What a project's part of the invariant depends on.                      *)
LEMMA StaysGood ==
  ASSUME NEW q \in Projects, Good(q),
         job'[q] = job[q], evidence'[q] = evidence[q], worker'[q] = worker[q],
         request'[q] = request[q], restarts'[q] = restarts[q], installed'[q] = installed[q],
         At(q, "export") \/ At(q, "finish") =>
           backend'[q] = job[q].target /\ loaded'[q] = job[q].target
  PROVE  Good(q)'
<1>1. UpToDate(q)'
  BY DEF Good, UpToDate, Working, At, Job, WithoutWorker, SamePlan, Reached
<1>2. LeftBehind(q)'
  BY DEF Good, LeftBehind, Working, At, Reached, Checkpoint
<1> QED BY <1>1, <1>2 DEF Good

(* A worker that holds a job is alone with it.                             *)
LEMMA AloneWithJob ==
  ASSUME InOrder, NEW p \in Projects, worker[p].pc \notin {"idle", "end"}
  PROVE  request[p] = Idle /\ request[p].pc = "idle"
<1>1. request[p].pc \in RequestPC
  BY DEF InOrder, Inductive, TypeOK
<1>2. UpToDate(p) /\ RequestInOrder(p)
  BY DEF InOrder, Inductive
<1>3. ~ WithoutWorker(p)
  BY DEF WithoutWorker, Idle
<1>4. request[p].pc \notin {"claim", "launch"}
  BY <1>2, <1>3 DEF UpToDate
<1>5. request[p].pc \notin {"resume", "claim_resume", "save_resume"}
  BY <1>2, <1>3 DEF UpToDate
<1>6. request[p].pc \notin {"claim_review", "save_review"}
  <2>1. SUFFICES ASSUME request[p].pc \in {"claim_review", "save_review"} PROVE FALSE
    OBVIOUS
  <2>2. request[p] # Idle /\ job[p] = request[p].job /\ job[p].status = "review"
    BY <1>2, <2>1 DEF RequestInOrder, Idle
  <2>3. job[p] # None
    BY <1>2, <2>2, DistinctAssumption DEF RequestInOrder
  <2> QED BY <1>2, <1>3, <2>2, <2>3 DEF UpToDate, Job
<1>7. request[p].pc # "free"
  BY <1>2, <1>3 DEF UpToDate, RequestInOrder
<1>8. request[p].pc = "idle"
  BY <1>1, <1>4, <1>5, <1>6, <1>7 DEF RequestPC
<1> QED BY <1>2, <1>8 DEF UpToDate

(* A working worker has the job of job.json, as it is there.               *)
LEMMA HasTheJob ==
  ASSUME InOrder, NEW p \in Projects, Working(p)
  PROVE  /\ worker[p].job = job[p] /\ job[p] \in Jobs /\ job[p] # None
         /\ job[p].status = "running"
         /\ request[p] = Idle /\ request[p].pc = "idle"
         /\ Good(p) /\ worker[p].pc \notin {"idle", "end"}
<1>1. worker[p].pc \notin {"idle", "end"}
  BY DEF Working
<1>2. Good(p)
  BY DEF InOrder, Good
<1>3. Inductive
  BY DEF InOrder
<1>4. job[p] \in Jobs /\ job[p].status = "running"
  BY <1>3, AtWork
<1>5. worker[p].job = job[p]
  BY <1>2 DEF Good, UpToDate
<1>6. job[p] # None
  BY <1>4, DistinctAssumption
<1> QED BY <1>1, <1>2, <1>4, <1>5, <1>6, AloneWithJob

-----------------------------------------------------------------------------
(* Steps of a worker.                                                      *)

(* A working worker of p moves to pc, with the job and its promises kept.  *)
LEMMA WorkerGoesOn ==
  ASSUME InOrder, NEW p \in Projects, Working(p),
         NEW pc \in {"work", "advance", "apply", "export", "finish", "fail"},
         Goes(p, pc, worker[p].job), job' = job, request' = request,
         pc = "work" => worker[p].pc = "restart_ha",
         pc = "apply" => job[p].stage = "dashboard",
         pc \in {"export", "finish"} =>
           /\ job[p].stage = "verify"
           /\ backend'[p] = job[p].target /\ loaded'[p] = job[p].target,
         pc = "advance" => evidence'[p] = Checkpoint(job[p]),
         pc = "advance" /\ job[p].stage = "integration" => installed'[p] = job[p].target,
         evidence'[p] \in {evidence[p], Checkpoint(job[p])},
         installed'[p] \in {installed[p], job[p].target},
         restarts'[p] = restarts[p] \/ (job[p].stage = "wait_ha" /\ restarts'[p] = 1)
  PROVE  Good(p)'
<1>1. /\ worker[p].job = job[p] /\ job[p] \in Jobs /\ job[p] # None
      /\ job[p].status = "running"
      /\ request[p] = Idle /\ request[p].pc = "idle"
      /\ UpToDate(p) /\ LeftBehind(p)
  BY HasTheJob DEF Good
<1>2. worker'[p].pc = pc /\ worker'[p].job = job[p]
  BY <1>1, GoesWhere DEF WorkerPC, InOrder, Inductive, TypeOK, Workers
<1>3. UpToDate(p)'
  <2>1. SamePlan(job[p], job[p]) /\ Reached(job[p], job[p].stage)
    BY <1>1, StageOrder DEF SamePlan
  <2> QED BY <1>1, <1>2, <2>1
          DEF UpToDate, Working, At, Job, WithoutWorker, SamePlan, Reached, Idle
<1>4. LeftBehind(p)'
  <2>1. /\ Reached(job[p], "wait_ha") <=> job[p].stage \in {"wait_ha", "dashboard", "verify"}
        /\ Reached(job[p], "restart") <=>
             job[p].stage \in {"restart", "wait_ha", "dashboard", "verify"}
    BY <1>1, StageOrder
  <2>2. /\ restarts'[p] > 0 => job'[p] # None /\ Reached(job'[p], "wait_ha")
        /\ worker'[p].pc # "restart_ha"
        /\ restarts'[p] <= 1
    BY <1>1, <1>2, <2>1 DEF LeftBehind
  <2>3. evidence'[p] # None =>
          /\ job'[p] # None /\ evidence'[p].id <= job'[p].id
          /\ evidence'[p].id = job'[p].id => evidence'[p] = Checkpoint(job'[p])
    <3>1. Checkpoint(job[p]).id = job[p].id /\ job[p].id \in Int
      BY <1>1 DEF Checkpoint, Jobs, JobIds
    <3> QED BY <1>1, <3>1 DEF LeftBehind
  <2>4. Working(p)' /\ (worker'[p].job.stage # "backup" \/ worker'[p].pc = "advance") =>
          evidence'[p] = Checkpoint(job'[p])
    BY <1>1, <1>2 DEF LeftBehind, Working, At
  <2>5. /\ job'[p] # None /\ Reached(job'[p], "restart") => installed'[p] = job'[p].target
        /\ worker'[p].pc = "advance" /\ worker'[p].job.stage = "integration" =>
             installed'[p] = job'[p].target
        /\ worker'[p].pc = "fail" /\ Reached(worker'[p].job, "restart") =>
             installed'[p] = job'[p].target
    BY <1>1, <1>2, <2>1 DEF LeftBehind
  <2>6. worker'[p].pc \in {"export", "finish"} =>
          backend'[p] = job'[p].target /\ loaded'[p] = job'[p].target
    BY <1>2
  <2> QED BY <2>2, <2>3, <2>4, <2>5, <2>6 DEF LeftBehind, At, Reached, Checkpoint
<1> QED BY <1>3, <1>4 DEF Good

(* The other projects keep theirs.                                         *)
LEMMA OthersGood ==
  ASSUME InOrder, NEW p \in Projects, NEW q \in Projects \ {p},
         job'[q] = job[q], evidence'[q] = evidence[q], worker'[q] = worker[q],
         request'[q] = request[q], restarts'[q] = restarts[q],
         installed'[q] = installed[q], backend'[q] = backend[q], loaded'[q] = loaded[q]
  PROVE  Good(q)'
BY StaysGood DEF InOrder, Good, LeftBehind

LEMMA ReadsGood ==
  ASSUME InOrder, NEW p \in Projects, Reads(p)
  PROVE  \A q \in Projects : Good(q)'
<1>1. UNCHANGED <<job, evidence, request, restarts, installed, backend, loaded>>
      /\ worker[p].pc = "start"
  BY DEF Reads, files, ha, history, At
<1>2. UpToDate(p) /\ LeftBehind(p) /\ request[p] = Idle /\ request[p].pc = "idle"
  BY <1>1, AloneWithJob DEF InOrder
<1>3. Goes(p, "claim", job[p]) /\ Job(p, "running")
  BY <1>1, <1>2 DEF Reads, UpToDate, At
<1>4. job[p] \in Jobs
  BY <1>3 DEF Job, InOrder, Inductive, TypeOK
<1>5. /\ worker'[p].pc = "claim" /\ worker'[p].job = job[p]
      /\ \A q \in Projects \ {p} : worker'[q] = worker[q]
  BY <1>3, <1>4, GoesWhere DEF WorkerPC, InOrder, Inductive, TypeOK, Workers
<1>6. UpToDate(p)'
  BY <1>1, <1>2, <1>3, <1>5 DEF UpToDate, Working, At, Job, WithoutWorker, Idle
<1>7. LeftBehind(p)'
  BY <1>1, <1>2, <1>5 DEF LeftBehind, Working, At, Reached, Checkpoint
<1> QED BY <1>1, <1>5, <1>6, <1>7, OthersGood DEF Good

LEMMA ClaimsGood ==
  ASSUME InOrder, NEW p \in Projects, Claims(p)
  PROVE  \A q \in Projects : Good(q)'
<1> DEFINE j == worker[p].job
<1>1. UNCHANGED <<job, evidence, request, restarts, installed, backend, loaded>>
      /\ worker[p].pc = "claim"
  BY DEF Claims, ha, history, At
<1>2. UpToDate(p) /\ LeftBehind(p) /\ request[p] = Idle /\ request[p].pc = "idle"
  BY <1>1, AloneWithJob DEF InOrder
<1>3. j = job[p] /\ job[p] \in Jobs /\ job[p].status = "running"
  BY <1>1, <1>2 DEF UpToDate, At, InOrder, Inductive, WorksOnJob
<1>4. PICK pc \in {"work", "fail"} : Goes(p, pc, j)
  BY DEF Claims, Continues, Raises
<1>5. /\ worker'[p].pc = pc /\ worker'[p].job = job[p]
      /\ \A q \in Projects \ {p} : worker'[q] = worker[q]
  BY <1>3, <1>4, GoesWhere DEF WorkerPC, InOrder, Inductive, TypeOK, Workers
<1>6. UpToDate(p)'
  <2>1. SamePlan(job[p], job[p]) /\ Reached(job[p], job[p].stage)
    BY <1>3, StageOrder DEF SamePlan
  <2> QED BY <1>1, <1>2, <1>3, <1>5, <2>1
          DEF UpToDate, Working, At, Job, WithoutWorker, Idle, SamePlan, Reached
<1>7. pc = "work" => j.stage = "backup" \/ evidence[p] = Checkpoint(job[p])
  <2>1. SUFFICES ASSUME pc = "work", j.stage # "backup", evidence[p] # Checkpoint(job[p])
                 PROVE FALSE
    OBVIOUS
  <2>2. Goes(p, "fail", j)
    BY <1>3, <2>1 DEF Claims, Raises, Continues
  <2>3. worker'[p].pc = "fail"
    BY <1>3, <2>2, GoesWhere DEF WorkerPC, InOrder, Inductive, TypeOK, Workers
  <2> QED BY <1>5, <2>1, <2>3
<1>8. LeftBehind(p)'
  <2>1. /\ restarts'[p] > 0 => job'[p] # None /\ Reached(job'[p], "wait_ha")
        /\ restarts'[p] <= 1 /\ worker'[p].pc \in {"work", "fail"}
    BY <1>1, <1>2, <1>5 DEF LeftBehind
  <2>2. /\ evidence'[p] # None =>
             /\ job'[p] # None /\ evidence'[p].id <= job'[p].id
             /\ evidence'[p].id = job'[p].id => evidence'[p] = Checkpoint(job'[p])
        /\ worker'[p].pc = "work" /\ worker'[p].job.stage # "backup" =>
             evidence'[p] = Checkpoint(job'[p])
    BY <1>1, <1>2, <1>3, <1>5, <1>7 DEF LeftBehind
  <2>3. /\ job'[p] # None /\ Reached(job'[p], "restart") => installed'[p] = job'[p].target
        /\ Reached(worker'[p].job, "restart") => installed'[p] = job'[p].target
    <3>1. job[p] # None
      BY <1>3, DistinctAssumption
    <3> QED BY <1>1, <1>2, <1>5, <3>1 DEF LeftBehind
  <2> QED BY <2>1, <2>2, <2>3 DEF LeftBehind, Working, At, Reached, Checkpoint
<1> QED BY <1>1, <1>5, <1>6, <1>8, OthersGood DEF Good

LEMMA BackupGood ==
  ASSUME InOrder, NEW p \in Projects, Backup(p)
  PROVE  \A q \in Projects : Good(q)'
<1> DEFINE j == worker[p].job
<1>1. UNCHANGED <<job, request, restarts, installed, backend, loaded>>
      /\ worker[p].pc = "work" /\ Working(p)
  BY DEF Backup, ha, history, AtStage, At, Working
<1>2. j = job[p] /\ job[p] \in Jobs /\ LeftBehind(p)
  BY <1>1, HasTheJob DEF Good
<1>3. /\ \A q \in Projects \ {p} : evidence'[q] = evidence[q]
      /\ \/ Goes(p, "advance", j) /\ evidence'[p] = Checkpoint(job[p])
         \/ Goes(p, "fail", j) /\ evidence'[p] = evidence[p]
  <2>1. CASE ~ MayCapture(p)
    BY <2>1 DEF Backup, Raises, Continues
  <2>2. CASE MayCapture(p) /\ HasEvidence(p)
    BY <1>2, <2>2 DEF Backup, Continues, HasEvidence, LeftBehind
  <2>3. CASE MayCapture(p) /\ ~ HasEvidence(p)
    BY <1>2, <2>3 DEF Backup, Continues, MayCapture, Checkpoint, InOrder, Inductive, TypeOK
  <2> QED BY <2>1, <2>2, <2>3
<1>4. j.stage = "backup"
  BY DEF Backup, AtStage
<1>5. Good(p)'
  BY <1>1, <1>2, <1>3, <1>4, WorkerGoesOn
<1>6. \A q \in Projects \ {p} : worker'[q] = worker[q]
  BY <1>2, <1>3, GoesWhere DEF WorkerPC, InOrder, Inductive, TypeOK, Workers
<1> QED BY <1>1, <1>3, <1>5, <1>6, OthersGood

LEMMA DeployBackendGood ==
  ASSUME InOrder, NEW p \in Projects, DeployBackend(p)
  PROVE  \A q \in Projects : Good(q)'
<1> DEFINE j == worker[p].job
<1>1. UNCHANGED <<job, evidence, request, restarts, installed, loaded>>
      /\ worker[p].pc = "work" /\ Working(p) /\ j.stage = "backend"
      /\ Goes(p, "advance", j)
  BY DEF DeployBackend, files, AtStage, At, Working, Continues
<1>2. j = job[p] /\ job[p] \in Jobs /\ LeftBehind(p)
  BY <1>1, HasTheJob DEF Good
<1>3. evidence[p] = Checkpoint(job[p])
  BY <1>1, <1>2 DEF LeftBehind
<1>4. \A q \in Projects \ {p} : backend'[q] = backend[q]
  BY DEF DeployBackend, InOrder, Inductive, TypeOK
<1>5. Good(p)'
  BY <1>1, <1>2, <1>3, WorkerGoesOn
<1>6. \A q \in Projects \ {p} : worker'[q] = worker[q]
  BY <1>1, <1>2, GoesWhere DEF WorkerPC, InOrder, Inductive, TypeOK, Workers
<1> QED BY <1>1, <1>4, <1>5, <1>6, OthersGood

LEMMA InstallGood ==
  ASSUME InOrder, NEW p \in Projects, Install(p)
  PROVE  \A q \in Projects : Good(q)'
<1> DEFINE j == worker[p].job
<1>1. UNCHANGED <<job, evidence, request, restarts, backend, loaded>>
      /\ worker[p].pc = "work" /\ Working(p) /\ j.stage = "integration"
  BY DEF Install, files, AtStage, At, Working
<1>2. j = job[p] /\ job[p] \in Jobs /\ LeftBehind(p)
  BY <1>1, HasTheJob DEF Good
<1>3. evidence[p] = Checkpoint(job[p])
  BY <1>1, <1>2 DEF LeftBehind
<1>4. /\ \A q \in Projects \ {p} : installed'[q] = installed[q]
      /\ \/ Goes(p, "advance", j) /\ installed'[p] = job[p].target
         \/ Goes(p, "fail", j) /\ installed'[p] = installed[p]
  BY <1>2 DEF Install, Raises, Continues, InOrder, Inductive, TypeOK
<1>5. Good(p)'
  BY <1>1, <1>2, <1>3, <1>4, WorkerGoesOn
<1>6. \A q \in Projects \ {p} : worker'[q] = worker[q]
  BY <1>2, <1>4, GoesWhere DEF WorkerPC, InOrder, Inductive, TypeOK, Workers
<1> QED BY <1>1, <1>4, <1>5, <1>6, OthersGood

(* The stage after the restart is saved before HA is asked for it.         *)
LEMMA RequestRestartGood ==
  ASSUME InOrder, NEW p \in Projects, RequestRestart(p)
  PROVE  \A q \in Projects : Good(q)'
<1> DEFINE j == worker[p].job
<1>1. UNCHANGED <<job, evidence, request, installed, backend, loaded>>
      /\ worker[p].pc = "restart_ha" /\ Working(p) /\ Goes(p, "work", j)
  BY DEF RequestRestart, files, At, Working, Continues
<1>2. j = job[p] /\ job[p] \in Jobs /\ UpToDate(p) /\ LeftBehind(p)
  BY <1>1, HasTheJob DEF Good
<1>3. j.stage = "wait_ha" /\ restarts[p] = 0
  BY <1>1, <1>2 DEF UpToDate, LeftBehind, At
<1>4. /\ restarts'[p] \in {0, 1}
      /\ \A q \in Projects \ {p} : restarts'[q] = restarts[q]
  BY <1>3 DEF RequestRestart, history, InOrder, Inductive, TypeOK
<1>5. Good(p)'
  BY <1>1, <1>2, <1>3, <1>4, WorkerGoesOn
<1>6. \A q \in Projects \ {p} : worker'[q] = worker[q]
  BY <1>1, <1>2, GoesWhere DEF WorkerPC, InOrder, Inductive, TypeOK, Workers
<1> QED BY <1>1, <1>4, <1>5, <1>6, OthersGood

LEMMA ApplyDashboardsGood ==
  ASSUME InOrder, NEW p \in Projects, ApplyDashboards(p)
  PROVE  \A q \in Projects : Good(q)'
<1> DEFINE j == worker[p].job
<1>1. UNCHANGED <<job, evidence, request, restarts, installed, backend, loaded>>
      /\ worker[p].pc = "apply" /\ Working(p)
  BY DEF ApplyDashboards, files, At, Working
<1>2. j = job[p] /\ job[p] \in Jobs /\ UpToDate(p) /\ LeftBehind(p)
  BY <1>1, HasTheJob DEF Good
<1>3. j.stage = "dashboard" /\ evidence[p] = Checkpoint(job[p])
  BY <1>1, <1>2 DEF UpToDate, LeftBehind, At
<1>4. Goes(p, "advance", j) \/ Goes(p, "fail", j)
  BY DEF ApplyDashboards, Raises, Continues
<1>5. Good(p)'
  BY <1>1, <1>2, <1>3, <1>4, WorkerGoesOn
<1>6. \A q \in Projects \ {p} : worker'[q] = worker[q]
  BY <1>2, <1>4, GoesWhere DEF WorkerPC, InOrder, Inductive, TypeOK, Workers
<1> QED BY <1>1, <1>5, <1>6, OthersGood

(* Waiting, entering operation, the last check and exceptions only look.   *)
LEMMA LooksGood ==
  ASSUME InOrder, NEW p \in Projects,
         WaitsForHa(p) \/ EntersOperation(p) \/ FinalCheck(p) \/ CallRaises(p)
  PROVE  \A q \in Projects : Good(q)'
<1> DEFINE j == worker[p].job
<1>1. UNCHANGED <<job, evidence, request, restarts, installed, backend, loaded>>
      /\ Working(p)
  BY DEF WaitsForHa, EntersOperation, FinalCheck, CallRaises, files, ha, history, AtStage, At,
         Working
<1>2. j = job[p] /\ job[p] \in Jobs /\ UpToDate(p) /\ LeftBehind(p)
  BY <1>1, HasTheJob DEF Good
<1>3. PICK pc \in {"advance", "apply", "export", "finish", "fail"} :
        /\ Goes(p, pc, j)
        /\ pc = "advance" => j.stage = "wait_ha"
        /\ pc = "apply" => j.stage = "dashboard"
        /\ pc \in {"export", "finish"} =>
             j.stage = "verify" /\ backend[p] = j.target /\ loaded[p] = j.target
  <2>1. CASE WaitsForHa(p)
    BY <2>1 DEF WaitsForHa, Raises, Continues, AtStage
  <2>2. CASE EntersOperation(p)
    BY <2>2 DEF EntersOperation, Raises, Continues, AtStage
  <2>3. CASE FinalCheck(p)
    BY <2>3 DEF FinalCheck, Raises, Continues, AtStage, IsLoaded
  <2>4. CASE CallRaises(p)
    BY <2>4 DEF CallRaises, Raises, Continues
  <2> QED BY <2>1, <2>2, <2>3, <2>4
<1>4. pc = "advance" => evidence[p] = Checkpoint(job[p])
  BY <1>1, <1>2, <1>3 DEF LeftBehind
<1>5. Good(p)'
  BY <1>1, <1>2, <1>3, <1>4, WorkerGoesOn
<1>6. \A q \in Projects \ {p} : worker'[q] = worker[q]
  BY <1>2, <1>3, GoesWhere DEF WorkerPC, InOrder, Inductive, TypeOK, Workers
<1> QED BY <1>1, <1>5, <1>6, OthersGood

(* What a working worker saves.                                            *)
LEMMA SavingWhat ==
  ASSUME InOrder, NEW p \in Projects, SavePoint(p)
  PROVE  /\ Working(p) /\ worker[p].job = job[p] /\ job[p] \in Jobs
         /\ Saving(p) \in Jobs /\ SamePlan(Saving(p), job[p])
         /\ Saving(p).status = IF At(p, "finish") THEN "success" ELSE "running"
         /\ Saving(p).stage = IF At(p, "export") \/ At(p, "finish") THEN "verify"
                              ELSE StageAfter[job[p].stage]
         /\ Reached(Saving(p), job[p].stage)
<1>1. Working(p) /\ Inductive
  BY DEF SavePoint, AtStage, At, Working, InOrder
<1>2. worker[p].job = job[p] /\ job[p] \in Jobs /\ UpToDate(p)
  BY <1>1, HasTheJob DEF Good
<1>3. Saving(p) \in Jobs /\ Saving(p).status = IF At(p, "finish") THEN "success" ELSE "running"
  BY <1>1, SavingType
<1>4. job[p].stage \in Stages
  BY <1>2 DEF Jobs
<1>5. CASE At(p, "export")
  <2>1. Saving(p) = [job[p] EXCEPT !.exported = TRUE] /\ job[p].stage = "verify"
    BY <1>2, <1>5 DEF Saving, UpToDate, At
  <2>2. SamePlan(Saving(p), job[p]) /\ Saving(p).stage = "verify"
    BY <1>2, <2>1 DEF SamePlan, Jobs
  <2> QED BY <1>1, <1>2, <1>3, <1>5, <2>1, <2>2 DEF Reached, StageNumber
<1>6. CASE At(p, "finish")
  <2>1. Saving(p) = [job[p] EXCEPT !.status = "success"] /\ job[p].stage = "verify"
    BY <1>2, <1>6 DEF Saving, UpToDate, At
  <2>2. SamePlan(Saving(p), job[p]) /\ Saving(p).stage = "verify"
    BY <1>2, <2>1 DEF SamePlan, Jobs
  <2> QED BY <1>1, <1>2, <1>3, <1>6, <2>1, <2>2 DEF Reached, StageNumber
<1>7. CASE ~ At(p, "export") /\ ~ At(p, "finish")
  <2>1. Saving(p) = [job[p] EXCEPT !.stage = StageAfter[job[p].stage]]
    BY <1>2, <1>7 DEF Saving
  <2>2. SamePlan(Saving(p), job[p]) /\ Saving(p).stage = StageAfter[job[p].stage]
    BY <1>2, <2>1 DEF SamePlan, Jobs
  <2>3. Reached(Saving(p), job[p].stage)
    BY <1>4, <2>2 DEF Reached, StageNumber, StageAfter, Stages
  <2> QED BY <1>1, <1>2, <1>3, <1>7, <2>2, <2>3
<1> QED BY <1>5, <1>6, <1>7

LEMMA SavesGood ==
  ASSUME InOrder, NEW p \in Projects, Saves(p)
  PROVE  \A q \in Projects : Good(q)'
<1> DEFINE j == Saving(p)
<1>1. UNCHANGED <<evidence, request, restarts, installed, backend, loaded>>
      /\ SavePoint(p) /\ job' = [job EXCEPT ![p] = j] /\ Goes(p, AfterSave(p), j)
  BY DEF Saves, ha, history
<1>2. /\ Working(p) /\ worker[p].job = job[p] /\ job[p] \in Jobs /\ j \in Jobs
      /\ SamePlan(j, job[p]) /\ Reached(j, job[p].stage)
      /\ j.status = IF At(p, "finish") THEN "success" ELSE "running"
      /\ j.stage = IF At(p, "export") \/ At(p, "finish") THEN "verify"
                   ELSE StageAfter[job[p].stage]
  BY <1>1, SavingWhat
<1>3. request[p] = Idle /\ request[p].pc = "idle" /\ UpToDate(p) /\ LeftBehind(p)
  BY <1>2, HasTheJob DEF Good
<1>4. /\ AfterSave(p) \in {"finish", "release", "restart_ha", "work"}
      /\ AfterSave(p) = "finish" <=> At(p, "export")
      /\ AfterSave(p) = "release" <=> At(p, "finish")
      /\ AfterSave(p) = "restart_ha" <=> AtStage(p, "restart")
  BY DEF AfterSave, At, AtStage
<1>5. /\ worker'[p].pc = AfterSave(p) /\ worker'[p].job = j
      /\ \A q \in Projects \ {p} : worker'[q] = worker[q]
  BY <1>1, <1>2, <1>4, GoesWhere DEF WorkerPC, InOrder, Inductive, TypeOK, Workers
<1>6. job'[p] = j /\ job'[p] # None /\ \A q \in Projects \ {p} : job'[q] = job[q]
  BY <1>1, <1>2, DistinctAssumption DEF InOrder, Inductive, TypeOK
<1>7. job[p].stage \in Stages /\ Checkpoint(j) = Checkpoint(job[p])
      /\ j.id = job[p].id /\ j.target = job[p].target
  BY <1>2 DEF Jobs, SamePlan, Checkpoint
<1>8. /\ At(p, "export") \/ At(p, "finish") => j.stage = "verify"
      /\ AtStage(p, "restart") => j.stage = "wait_ha"
  BY <1>2 DEF AtStage, At, StageAfter
<1>9. UpToDate(p)'
  BY <1>1, <1>2, <1>3, <1>4, <1>5, <1>6, <1>8
  DEF UpToDate, Working, At, Job, WithoutWorker, Idle
<1>10. restarts'[p] > 0 => Reached(job'[p], "wait_ha")
  <2>1. restarts[p] > 0 => Reached(job[p], "wait_ha")
    BY <1>3 DEF LeftBehind
  <2> QED BY <1>1, <1>2, <1>6, <2>1, ReachedOn DEF Stages
<1>11. worker'[p].pc = "restart_ha" => restarts'[p] = 0
  <2>1. AtStage(p, "restart") => ~ Reached(job[p], "wait_ha")
    BY <1>2, StageOrder DEF AtStage
  <2>2. restarts[p] \in 0..2
    BY DEF InOrder, Inductive, TypeOK
  <2>3. ~ (restarts[p] > 0) => restarts[p] = 0
    BY <2>2
  <2> QED BY <1>1, <1>3, <1>4, <1>5, <2>1, <2>3 DEF LeftBehind
<1>12. evidence'[p] = Checkpoint(job'[p])
  <2>1. worker[p].job.stage # "backup" \/ At(p, "advance")
    BY <1>1, <1>2, <1>3 DEF SavePoint, AtStage, UpToDate
  <2> QED BY <1>1, <1>2, <1>3, <1>6, <1>7, <2>1 DEF LeftBehind
<1>13. Reached(job'[p], "restart") => installed'[p] = job'[p].target
  <2>1. CASE Reached(job[p], "restart")
    BY <1>1, <1>2, <1>3, <1>6, <1>7, <2>1, DistinctAssumption DEF LeftBehind
  <2>2. CASE At(p, "advance") /\ job[p].stage = "integration"
    BY <1>1, <1>2, <1>3, <1>6, <1>7, <2>2 DEF LeftBehind
  <2>3. CASE ~ Reached(job[p], "restart") /\ ~ (At(p, "advance") /\ job[p].stage = "integration")
    <3>1. job[p].stage \in {"backup", "backend", "integration"}
      BY <1>7, <2>3 DEF Reached, StageNumber, Stages
    <3>2. job[p].stage \in {"backup", "backend"}
      BY <1>1, <1>2, <1>3, <2>3, <3>1 DEF SavePoint, AtStage, UpToDate
    <3>3. j.stage \in {"backend", "integration"}
      BY <1>2, <1>3, <3>2 DEF StageAfter, UpToDate
    <3> QED BY <1>6, <3>3 DEF Reached, StageNumber
  <2> QED BY <2>1, <2>2, <2>3
<1>14. worker'[p].pc = "finish" => backend'[p] = job'[p].target /\ loaded'[p] = job'[p].target
  BY <1>1, <1>3, <1>4, <1>5, <1>6, <1>7 DEF LeftBehind
<1>15. evidence'[p].id <= job'[p].id
  BY <1>2, <1>6, <1>12 DEF Checkpoint, Jobs, JobIds
<1>16. LeftBehind(p)'
  <2>1. worker'[p].pc \in {"finish", "release", "restart_ha", "work"}
    BY <1>4, <1>5
  <2>2. restarts'[p] <= 1
    BY <1>1, <1>3 DEF LeftBehind
  <2> QED BY <1>6, <1>10, <1>11, <1>12, <1>13, <1>14, <1>15, <2>1, <2>2
          DEF LeftBehind, Reached, Checkpoint, At
<1> QED BY <1>1, <1>5, <1>6, <1>9, <1>16, OthersGood DEF Good

LEMMA SaveRaisesGood ==
  ASSUME InOrder, NEW p \in Projects, SaveRaises(p)
  PROVE  \A q \in Projects : Good(q)'
<1> DEFINE j == Saving(p)
<1>1. UNCHANGED <<evidence, request, restarts, installed, backend, loaded>>
      /\ SavePoint(p) /\ Goes(p, "fail", j)
      /\ job' \in {job, [job EXCEPT ![p] = j]}
  BY DEF SaveRaises, ha, history
<1>2. /\ Working(p) /\ worker[p].job = job[p] /\ job[p] \in Jobs /\ j \in Jobs
      /\ SamePlan(j, job[p]) /\ Reached(j, job[p].stage)
      /\ j.status \in {"running", "success"}
      /\ j.stage = IF At(p, "export") \/ At(p, "finish") THEN "verify"
                   ELSE StageAfter[job[p].stage]
  BY <1>1, SavingWhat
<1>3. /\ request[p] = Idle /\ request[p].pc = "idle" /\ UpToDate(p) /\ LeftBehind(p)
      /\ job[p].status = "running" /\ job[p] # None
  BY <1>2, HasTheJob DEF Good
<1>4. /\ job'[p] \in {job[p], j} /\ job'[p] \in Jobs /\ job'[p] # None
      /\ job'[p].status \in {"running", "success"}
      /\ \A q \in Projects \ {p} : job'[q] = job[q]
  BY <1>1, <1>2, <1>3, DistinctAssumption DEF InOrder, Inductive, TypeOK
<1>5. /\ worker'[p].pc = "fail" /\ worker'[p].job = j
      /\ \A q \in Projects \ {p} : worker'[q] = worker[q]
  BY <1>1, <1>2, GoesWhere DEF WorkerPC, InOrder, Inductive, TypeOK, Workers
<1>6. SamePlan(j, job'[p]) /\ Reached(j, job'[p].stage) /\ SamePlan(job'[p], job[p])
      /\ Reached(job'[p], job[p].stage)
  <2>1. SamePlan(j, j) /\ SamePlan(job[p], job[p]) /\ Reached(j, j.stage)
        /\ Reached(job[p], job[p].stage)
    BY <1>2, StageOrder DEF SamePlan
  <2> QED BY <1>2, <1>4, <2>1
<1>7. UpToDate(p)'
  BY <1>1, <1>3, <1>4, <1>5, <1>6
  DEF UpToDate, Working, At, Job, WithoutWorker, Idle, SamePlan, Reached
<1>8. Reached(j, "restart") => installed[p] = job[p].target
  <2>1. CASE Reached(job[p], "restart")
    BY <1>3, <2>1 DEF LeftBehind
  <2>2. CASE At(p, "advance") /\ job[p].stage = "integration"
    BY <1>2, <1>3, <2>2 DEF LeftBehind
  <2>3. CASE ~ Reached(job[p], "restart") /\ ~ (At(p, "advance") /\ job[p].stage = "integration")
    <3>1. job[p].stage \in {"backup", "backend", "integration"}
      BY <1>2, <2>3 DEF Reached, StageNumber, Stages, Jobs
    <3>2. job[p].stage \in {"backup", "backend"}
      BY <1>1, <1>2, <1>3, <2>3, <3>1 DEF SavePoint, AtStage, UpToDate
    <3>3. j.stage \in {"backend", "integration"}
      BY <1>2, <1>3, <3>2 DEF StageAfter, UpToDate
    <3> QED BY <3>3 DEF Reached, StageNumber
  <2> QED BY <2>1, <2>2, <2>3
<1>9. /\ job'[p].id = job[p].id /\ job'[p].target = job[p].target
      /\ Checkpoint(job'[p]) = Checkpoint(job[p])
  BY <1>6 DEF SamePlan, Checkpoint
<1>10. restarts'[p] > 0 => Reached(job'[p], "wait_ha")
  <2>1. restarts[p] > 0 => Reached(job[p], "wait_ha")
    BY <1>3 DEF LeftBehind
  <2> QED BY <1>1, <1>2, <1>4, <1>6, <2>1, ReachedOn DEF Stages
<1>11. /\ Reached(job'[p], "restart") => installed'[p] = job'[p].target
       /\ Reached(worker'[p].job, "restart") => installed'[p] = job'[p].target
  <2>1. Reached(job'[p], "restart") => Reached(j, "restart")
    BY <1>2, <1>4, <1>6, ReachedOn DEF Stages
  <2> QED BY <1>1, <1>5, <1>8, <1>9, <2>1
<1>12. evidence'[p] # None =>
         /\ evidence'[p].id <= job'[p].id
         /\ evidence'[p].id = job'[p].id => evidence'[p] = Checkpoint(job'[p])
  BY <1>1, <1>3, <1>9 DEF LeftBehind
<1>13. restarts'[p] <= 1
  BY <1>1, <1>3 DEF LeftBehind
<1>14. LeftBehind(p)'
  BY <1>4, <1>5, <1>10, <1>11, <1>12, <1>13 DEF LeftBehind, Working, At, Reached, Checkpoint
<1> QED BY <1>1, <1>4, <1>5, <1>7, <1>14, OthersGood DEF Good

(* Raising at its first reading, its claim or its release, a worker has    *)
(* changed nothing of its job.                                             *)
LEMMA DiskRaisesGood ==
  ASSUME InOrder, NEW p \in Projects, DiskRaises(p)
  PROVE  \A q \in Projects : Good(q)'
<1>1. UNCHANGED <<job, evidence, request, restarts, installed, backend, loaded>>
      /\ worker[p].pc \in {"start", "claim", "release"}
  BY DEF DiskRaises, ha, history, At
<1>2. UpToDate(p) /\ LeftBehind(p) /\ request[p] = Idle /\ request[p].pc = "idle"
  BY <1>1, AloneWithJob DEF InOrder
<1>3. CASE At(p, "start")
  <2>1. Goes(p, "end", None)
    BY <1>3 DEF DiskRaises, At
  <2>2. /\ worker'[p].pc = "end"
        /\ \A q \in Projects \ {p} : worker'[q] = worker[q]
    BY <2>1, GoesWhere DEF WorkerPC, InOrder, Inductive, TypeOK, Workers
  <2>3. Job(p, "running")
    BY <1>2, <1>3 DEF UpToDate
  <2>4. UpToDate(p)'
    BY <1>1, <1>2, <2>2, <2>3 DEF UpToDate, Working, At, Job, WithoutWorker, Idle
  <2>5. LeftBehind(p)'
    BY <1>1, <1>2, <2>2 DEF LeftBehind, Working, At, Reached, Checkpoint
  <2> QED BY <1>1, <2>2, <2>4, <2>5, OthersGood DEF Good
<1>4. CASE At(p, "claim") \/ At(p, "release")
  <2>1. /\ worker[p].job = job[p] /\ job[p] \in Jobs /\ job[p] # None
        /\ job[p].status \in {"running", "success"}
    BY <1>2, <1>4, DistinctAssumption DEF UpToDate, InOrder, Inductive, WorksOnJob, At
  <2>2. Goes(p, "fail", worker[p].job)
    BY <1>4 DEF DiskRaises, At, Raises, Continues
  <2>3. /\ worker'[p].pc = "fail" /\ worker'[p].job = job[p]
        /\ \A q \in Projects \ {p} : worker'[q] = worker[q]
    BY <2>1, <2>2, GoesWhere DEF WorkerPC, InOrder, Inductive, TypeOK, Workers
  <2>4. SamePlan(job[p], job[p]) /\ Reached(job[p], job[p].stage)
    BY <2>1, StageOrder DEF SamePlan
  <2>5. UpToDate(p)'
    BY <1>1, <1>2, <2>1, <2>3, <2>4
    DEF UpToDate, Working, At, Job, WithoutWorker, Idle, SamePlan, Reached
  <2>6. LeftBehind(p)'
    BY <1>1, <1>2, <2>1, <2>3 DEF LeftBehind, Working, At, Reached, Checkpoint
  <2> QED BY <1>1, <2>3, <2>5, <2>6, OthersGood DEF Good
<1> QED BY <1>3, <1>4 DEF DiskRaises

LEMMA FreesGood ==
  ASSUME InOrder, NEW p \in Projects, Frees(p)
  PROVE  \A q \in Projects : Good(q)'
<1> DEFINE j == worker[p].job
<1>1. UNCHANGED <<job, evidence, request, restarts, installed, backend, loaded>>
      /\ worker[p].pc = "release"
  BY DEF Frees, ha, history, At
<1>2. UpToDate(p) /\ LeftBehind(p) /\ request[p] = Idle /\ request[p].pc = "idle"
  BY <1>1, AloneWithJob DEF InOrder
<1>3. j = job[p] /\ job[p] \in Jobs /\ job[p].status = "success" /\ job[p] # None
  BY <1>1, <1>2 DEF UpToDate, At, Job, InOrder, Inductive, WorksOnJob
<1>4. PICK pc \in {"end", "fail"} : Goes(p, pc, j)
  BY DEF Frees, Continues, Raises
<1>5. /\ worker'[p].pc = pc /\ worker'[p].job = job[p]
      /\ \A q \in Projects \ {p} : worker'[q] = worker[q]
  BY <1>3, <1>4, GoesWhere DEF WorkerPC, InOrder, Inductive, TypeOK, Workers
<1>6. UpToDate(p)'
  <2>1. SamePlan(job[p], job[p]) /\ Reached(job[p], job[p].stage)
    BY <1>3, StageOrder DEF SamePlan
  <2> QED BY <1>1, <1>2, <1>3, <1>5, <2>1
          DEF UpToDate, Working, At, Job, WithoutWorker, Idle, SamePlan, Reached
<1>7. LeftBehind(p)'
  BY <1>1, <1>2, <1>3, <1>5 DEF LeftBehind, Working, At, Reached, Checkpoint
<1> QED BY <1>1, <1>5, <1>6, <1>7, OthersGood DEF Good

LEMMA FailsGood ==
  ASSUME InOrder, NEW p \in Projects, Fails(p)
  PROVE  \A q \in Projects : Good(q)'
<1> DEFINE j == worker[p].job
<1>1. UNCHANGED <<evidence, request, restarts, installed, backend, loaded>>
      /\ worker[p].pc = "fail" /\ Goes(p, "end", j)
  BY DEF Fails, ha, history, At, Continues
<1>2. UpToDate(p) /\ LeftBehind(p) /\ request[p] = Idle /\ request[p].pc = "idle"
  BY <1>1, AloneWithJob DEF InOrder
<1>3. /\ j \in Jobs /\ job[p] \in Jobs /\ job[p] # None
      /\ job[p].status \in {"running", "success"}
  BY <1>1, DistinctAssumption DEF InOrder, Inductive, WorksOnJob
<1>4. SamePlan(j, job[p]) /\ Reached(j, job[p].stage)
  BY <1>1, <1>2 DEF UpToDate, At
<1>5. /\ worker'[p].pc = "end"
      /\ \A q \in Projects \ {p} : worker'[q] = worker[q]
  BY <1>1, <1>3, GoesWhere DEF WorkerPC, InOrder, Inductive, TypeOK, Workers
<1>6. /\ \A q \in Projects \ {p} : job'[q] = job[q]
      /\ job'[p] = job[p] \/ job'[p] = Failed(j)
  BY DEF Fails, InOrder, Inductive, TypeOK
<1>7. CASE job'[p] = job[p]
  <2>1. UpToDate(p)'
    BY <1>1, <1>2, <1>3, <1>5, <1>7 DEF UpToDate, Working, At, Job, WithoutWorker, Idle
  <2>2. LeftBehind(p)'
    BY <1>1, <1>2, <1>3, <1>5, <1>7 DEF LeftBehind, Working, At, Reached, Checkpoint
  <2> QED BY <1>1, <1>5, <1>6, <2>1, <2>2, OthersGood DEF Good
<1>8. CASE job'[p] = Failed(j)
  <2>1. /\ Failed(j) \in Jobs /\ Failed(j) # None /\ Failed(j).status = "failed"
        /\ Failed(j).stage = j.stage
        /\ Failed(j).id = job[p].id /\ Failed(j).target = job[p].target
        /\ Checkpoint(Failed(j)) = Checkpoint(job[p])
    BY <1>3, <1>4, DistinctAssumption DEF Failed, Jobs, SamePlan, Checkpoint
  <2>2. UpToDate(p)'
    BY <1>1, <1>2, <1>5, <1>8, <2>1 DEF UpToDate, Working, At, Job, WithoutWorker, Idle
  <2>3. Reached(Failed(j), job[p].stage)
    BY <1>4, <2>1 DEF Reached
  <2>4. restarts'[p] > 0 => Reached(job'[p], "wait_ha")
    <3>1. restarts[p] > 0 => Reached(job[p], "wait_ha")
      BY <1>2 DEF LeftBehind
    <3> QED BY <1>1, <1>3, <1>8, <2>1, <2>3, <3>1, ReachedOn DEF Stages
  <2>5. Reached(job'[p], "restart") => installed'[p] = job'[p].target
    <3>1. Reached(j, "restart") => installed[p] = job[p].target
      BY <1>1, <1>2 DEF LeftBehind, At
    <3> QED BY <1>1, <1>8, <2>1, <3>1 DEF Reached
  <2>6. evidence'[p] # None =>
          /\ evidence'[p].id <= job'[p].id
          /\ evidence'[p].id = job'[p].id => evidence'[p] = Checkpoint(job'[p])
    BY <1>1, <1>2, <1>8, <2>1 DEF LeftBehind
  <2>7. restarts'[p] <= 1
    BY <1>1, <1>2 DEF LeftBehind
  <2>8. LeftBehind(p)'
    BY <1>5, <1>8, <2>1, <2>4, <2>5, <2>6, <2>7
    DEF LeftBehind, Working, At, Reached, Checkpoint
  <2> QED BY <1>1, <1>5, <1>6, <2>2, <2>8, OthersGood DEF Good
<1> QED BY <1>6, <1>7, <1>8

LEMMA EndsGood ==
  ASSUME InOrder, NEW p \in Projects, Ends(p)
  PROVE  \A q \in Projects : Good(q)'
<1>1. UNCHANGED <<job, evidence, request, restarts, installed, backend, loaded>>
      /\ worker' = [worker EXCEPT ![p] = Idle]
  BY DEF Ends, files, ha, history
<1>2. /\ worker'[p] = Idle /\ worker'[p].pc = "idle"
      /\ \A q \in Projects \ {p} : worker'[q] = worker[q]
  BY <1>1 DEF Idle, InOrder, Inductive, TypeOK
<1>3. UpToDate(p) /\ LeftBehind(p)
  BY DEF InOrder
<1>4. UpToDate(p)'
  BY <1>1, <1>2, <1>3 DEF UpToDate, Working, At, Job, WithoutWorker
<1>5. LeftBehind(p)'
  BY <1>1, <1>2, <1>3 DEF LeftBehind, Working, At, Reached, Checkpoint
<1> QED BY <1>1, <1>2, <1>4, <1>5, OthersGood DEF Good

LEMMA WorkerStepGood ==
  ASSUME InOrder, NEW p \in Projects, WorkerStep(p)
  PROVE  \A q \in Projects : Good(q)'
BY ReadsGood, ClaimsGood, BackupGood, DeployBackendGood, InstallGood, RequestRestartGood,
   ApplyDashboardsGood, LooksGood, SavesGood, SaveRaisesGood, DiskRaisesGood, FreesGood, FailsGood,
   EndsGood
DEF WorkerStep

-----------------------------------------------------------------------------
(* Steps of a request.                                                     *)

(* A request that only moves, with the job of job.json.                    *)
LEMMA RequestGoesOn ==
  ASSUME InOrder, NEW p \in Projects, NEW pc \in RequestPC \ {"idle"},
         Requesting(p, pc, job[p]), job[p] \in Jobs,
         pc \in {"resume", "claim_resume", "save_resume"} =>
           Job(p, "failed") \/ (Job(p, "running") /\ WithoutWorker(p)),
         pc \in {"claim", "launch"} => Job(p, "running") /\ WithoutWorker(p),
         UNCHANGED <<job, evidence, worker, restarts, installed, backend, loaded>>
  PROVE  \A q \in Projects : Good(q)'
<1>1. /\ request'[p].pc = pc /\ request'[p].job = job[p]
      /\ \A q \in Projects \ {p} : request'[q] = request[q]
  BY RequestWhere DEF InOrder
<1>2. UpToDate(p) /\ LeftBehind(p)
  BY DEF InOrder
<1>3. UpToDate(p)'
  BY <1>1, <1>2 DEF UpToDate, Working, At, Job, WithoutWorker, SamePlan, Reached
<1>4. LeftBehind(p)'
  BY <1>2 DEF LeftBehind, Working, At, Reached, Checkpoint
<1> QED BY <1>1, <1>3, <1>4, OthersGood DEF Good

LEMMA RequestLeaves ==
  ASSUME InOrder, NEW p \in Projects, RequestEnds(p),
         UNCHANGED <<job, evidence, worker, restarts, installed, backend, loaded>>
  PROVE  \A q \in Projects : Good(q)'
<1>1. /\ request'[p] = Idle /\ request'[p].pc = "idle"
      /\ \A q \in Projects \ {p} : request'[q] = request[q]
  BY DEF RequestEnds, Idle, InOrder, Inductive, TypeOK
<1>2. UpToDate(p) /\ LeftBehind(p)
  BY DEF InOrder
<1>3. UpToDate(p)'
  BY <1>1, <1>2 DEF UpToDate, Working, At, Job, WithoutWorker, SamePlan, Reached
<1>4. LeftBehind(p)'
  BY <1>2 DEF LeftBehind, Working, At, Reached, Checkpoint
<1> QED BY <1>1, <1>3, <1>4, OthersGood DEF Good

(* A request on its way has the job of job.json.                           *)
LEMMA RequestHasTheJob ==
  ASSUME InOrder, NEW p \in Projects, request[p].pc # "idle"
  PROVE  request[p].job = job[p] /\ job[p] \in Jobs /\ job[p] # None /\ Serving
<1>1. request[p] # Idle
  BY DEF Idle
<1> QED BY <1>1, DistinctAssumption DEF InOrder, Inductive, RequestInOrder, UpToDate

LEMMA RequestStartsGood ==
  ASSUME Undisturbed, InOrder, NEW p \in Projects, Approve(p) \/ Resume(p) \/ ResumeChecks(p)
  PROVE  \A q \in Projects : Good(q)'
<1>1. UNCHANGED <<job, evidence, worker, restarts, installed, backend, loaded>>
  BY DEF Approve, Resume, ResumeChecks, files, ha, history
<1>2. CASE Approve(p)
  <2>1. \/ Job(p, "review") /\ Requesting(p, "claim_review", job[p])
        \/ Job(p, "running") /\ WithoutWorker(p) /\ Requesting(p, "claim", job[p])
    BY <1>2 DEF Approve, MayRepeat, Undisturbed
  <2>2. job[p] \in Jobs
    BY <2>1 DEF Job, InOrder, Inductive, TypeOK
  <2> QED BY <1>1, <2>1, <2>2, RequestGoesOn DEF RequestPC
<1>3. CASE Resume(p)
  <2>1. /\ Job(p, "failed") \/ (Job(p, "running") /\ WithoutWorker(p))
        /\ Requesting(p, "resume", job[p])
    BY <1>3 DEF Resume, MayRepeat, Undisturbed
  <2>2. job[p] \in Jobs
    BY <2>1 DEF Job, InOrder, Inductive, TypeOK
  <2> QED BY <1>1, <2>1, <2>2, RequestGoesOn DEF RequestPC
<1>4. CASE ResumeChecks(p)
  <2>1. /\ request[p].job = job[p] /\ job[p] \in Jobs
        /\ Job(p, "failed") \/ (Job(p, "running") /\ WithoutWorker(p))
    BY <1>4, RequestHasTheJob DEF ResumeChecks, InOrder, UpToDate
  <2>2. CASE Requesting(p, "claim_resume", request[p].job)
    BY <1>1, <2>1, <2>2, RequestGoesOn DEF RequestPC
  <2>3. CASE RequestEnds(p)
    BY <1>1, <2>3, RequestLeaves
  <2> QED BY <1>4, <2>2, <2>3 DEF ResumeChecks
<1> QED BY <1>2, <1>3, <1>4

LEMMA RequestClaimsGood ==
  ASSUME InOrder, NEW p \in Projects, RequestClaims(p)
  PROVE  \A q \in Projects : Good(q)'
<1>1. UNCHANGED <<job, evidence, worker, restarts, installed, backend, loaded>>
  BY DEF RequestClaims, ha, history
<1>2. /\ request[p].pc \in {"claim_review", "claim_resume", "claim"}
      /\ request[p].job = job[p] /\ job[p] \in Jobs /\ UpToDate(p)
  BY RequestHasTheJob DEF RequestClaims, InOrder
<1>3. CASE RequestEnds(p)
  BY <1>1, <1>3, RequestLeaves
<1>4. CASE request[p].pc = "claim" /\ Requesting(p, "launch", job[p])
  <2>1. Job(p, "running") /\ WithoutWorker(p)
    BY <1>2, <1>4 DEF UpToDate
  <2> QED BY <1>1, <1>2, <1>4, <2>1, RequestGoesOn DEF RequestPC
<1>5. CASE request[p].pc = "claim_review" /\ Requesting(p, "save_review", job[p])
  BY <1>1, <1>2, <1>5, RequestGoesOn DEF RequestPC
<1>6. CASE request[p].pc = "claim_resume" /\ Requesting(p, "save_resume", job[p])
  <2>1. Job(p, "failed") \/ (Job(p, "running") /\ WithoutWorker(p))
    BY <1>2, <1>6 DEF UpToDate
  <2> QED BY <1>1, <1>2, <1>6, <2>1, RequestGoesOn DEF RequestPC
<1> QED BY <1>2, <1>3, <1>4, <1>5, <1>6 DEF RequestClaims

(* Approval and resumption leave the plan and the stage of the job alone.  *)
LEMMA RequestSavesGood ==
  ASSUME InOrder, NEW p \in Projects, RequestSaves(p)
  PROVE  \A q \in Projects : Good(q)'
<1> DEFINE j == Approved(job[p])
<1>1. UNCHANGED <<evidence, worker, restarts, installed, backend, loaded>>
      /\ request[p].pc \in {"save_review", "save_resume"}
  BY DEF RequestSaves, ha, history
<1>2. request[p].job = job[p] /\ job[p] \in Jobs /\ job[p] # None /\ UpToDate(p)
      /\ LeftBehind(p)
  BY <1>1, RequestHasTheJob DEF InOrder
<1>3. /\ j \in Jobs /\ j # None /\ j.status = "running" /\ j.stage = job[p].stage
      /\ j.id = job[p].id /\ j.target = job[p].target /\ Checkpoint(j) = Checkpoint(job[p])
  BY <1>2, DistinctAssumption DEF Approved, Jobs, Checkpoint
<1>4. job'[p] = j /\ \A q \in Projects \ {p} : job'[q] = job[q]
  BY <1>2, <1>3 DEF RequestSaves, InOrder, Inductive, TypeOK
<1>5. PICK pc \in {"claim", "launch"} : Requesting(p, pc, j)
  BY <1>4 DEF RequestSaves
<1>6. /\ request'[p].pc = pc /\ request'[p].job = j
      /\ \A q \in Projects \ {p} : request'[q] = request[q]
  BY <1>3, <1>5, RequestWhere DEF RequestPC, InOrder
<1>7. WithoutWorker(p)
  BY <1>1, <1>2 DEF UpToDate, InOrder, Inductive, RequestInOrder, Job
<1>8. UpToDate(p)'
  BY <1>1, <1>3, <1>4, <1>6, <1>7 DEF UpToDate, Working, At, Job, WithoutWorker, Idle
<1>9. LeftBehind(p)'
  <2>1. worker'[p].pc = "idle"
    BY <1>1, <1>7 DEF WithoutWorker, Idle
  <2> QED BY <1>1, <1>2, <1>3, <1>4, <2>1 DEF LeftBehind, Working, At, Reached, Checkpoint
<1> QED BY <1>1, <1>4, <1>6, <1>8, <1>9, OthersGood DEF Good

LEMMA LaunchStarts ==
  ASSUME InOrder, NEW p \in Projects, Launch(p)
  PROVE  /\ \A q \in Projects \ {p} : worker'[q] = worker[q]
         /\ \/ worker'[p] = worker[p]
            \/ worker[p] = Idle /\ worker'[p].pc = "start"
BY LaunchWhere DEF InOrder

(* A launched job is running.                                              *)
LEMMA LaunchesGood ==
  ASSUME InOrder, NEW p \in Projects, Launch(p), Job(p, "running"),
         \/ request' = request /\ request[p] = Idle
         \/ RequestEnds(p) /\ request[p].pc = "launch",
         UNCHANGED <<job, evidence, restarts, installed, backend, loaded>>
  PROVE  \A q \in Projects : Good(q)'
<1>1. /\ \A q \in Projects \ {p} : worker'[q] = worker[q]
      /\ \/ worker'[p] = worker[p]
         \/ worker[p] = Idle /\ worker'[p].pc = "start"
  BY LaunchStarts
<1>2. /\ \A q \in Projects \ {p} : request'[q] = request[q]
      /\ request'[p] = Idle /\ request'[p].pc = "idle"
  BY DEF RequestEnds, Idle, InOrder, Inductive, TypeOK
<1>3. UpToDate(p) /\ LeftBehind(p)
  BY DEF InOrder
<1>4. UpToDate(p)'
  BY <1>1, <1>2, <1>3 DEF UpToDate, Working, At, Job, WithoutWorker, SamePlan, Reached
<1>5. LeftBehind(p)'
  BY <1>1, <1>3 DEF LeftBehind, Working, At, Reached, Checkpoint
<1> QED BY <1>1, <1>2, <1>4, <1>5, OthersGood DEF Good

LEMMA RequestLaunchesGood ==
  ASSUME InOrder, NEW p \in Projects, RequestLaunches(p)
  PROVE  \A q \in Projects : Good(q)'
<1>1. UNCHANGED <<job, evidence, restarts, installed, backend, loaded>>
      /\ Launch(p) /\ RequestEnds(p) /\ request[p].pc = "launch"
  BY DEF RequestLaunches, files, ha, history
<1>2. Job(p, "running")
  BY <1>1 DEF InOrder, UpToDate
<1> QED BY <1>1, <1>2, LaunchesGood

LEMMA CancelGood ==
  ASSUME InOrder, NEW p \in Projects, Cancel(p)
  PROVE  \A q \in Projects : Good(q)'
<1> DEFINE j == [job[p] EXCEPT !.status = "cancelled"]
<1>1. UNCHANGED <<evidence, worker, restarts, installed, backend, loaded>>
      /\ request[p] = Idle /\ Job(p, "review") /\ UpToDate(p) /\ LeftBehind(p)
  BY DEF Cancel, ha, history, InOrder
<1>2. job[p] \in Jobs /\ job[p] # None
  BY <1>1 DEF Job, InOrder, Inductive, TypeOK
<1>3. /\ j \in Jobs /\ j # None /\ j.status = "cancelled" /\ j.stage = job[p].stage
      /\ j.id = job[p].id /\ j.target = job[p].target /\ Checkpoint(j) = Checkpoint(job[p])
  BY <1>2, DistinctAssumption DEF Jobs, Checkpoint
<1>4. job'[p] = j /\ \A q \in Projects \ {p} : job'[q] = job[q]
  BY <1>2 DEF Cancel, InOrder, Inductive, TypeOK
<1>5. /\ \A q \in Projects \ {p} : request'[q] = request[q]
      /\ \/ request'[p] = Idle /\ request'[p].pc = "idle"
         \/ request'[p].pc = "free" /\ request'[p].job = j
  <2>1. CASE Requesting(p, "free", job'[p])
    <3>1. Requesting(p, "free", j)
      BY <1>4, <2>1
    <3> QED BY <1>3, <3>1, RequestWhere DEF RequestPC, InOrder
  <2>2. CASE UNCHANGED request
    BY <1>1, <2>2 DEF Idle
  <2> QED BY <2>1, <2>2 DEF Cancel
<1>6. WithoutWorker(p)
  BY <1>1 DEF UpToDate
<1>7. UpToDate(p)'
  BY <1>1, <1>3, <1>4, <1>5, <1>6 DEF UpToDate, Working, At, Job, WithoutWorker, Idle
<1>8. LeftBehind(p)'
  <2>1. worker'[p].pc = "idle"
    BY <1>1, <1>6 DEF WithoutWorker, Idle
  <2> QED BY <1>1, <1>2, <1>3, <1>4, <2>1 DEF LeftBehind, Working, At, Reached, Checkpoint
<1> QED BY <1>1, <1>4, <1>5, <1>7, <1>8, OthersGood DEF Good

LEMMA CancelFreesGood ==
  ASSUME InOrder, NEW p \in Projects, CancelFrees(p)
  PROVE  \A q \in Projects : Good(q)'
<1>1. UNCHANGED <<job, evidence, worker, restarts, installed, backend, loaded>> /\ RequestEnds(p)
  BY DEF CancelFrees, ha, history
<1> QED BY <1>1, RequestLeaves

(* A request that raises leaves the job as it was, or approved.            *)
LEMMA RequestRaisesGood ==
  ASSUME InOrder, NEW p \in Projects, RequestRaises(p)
  PROVE  \A q \in Projects : Good(q)'
<1> DEFINE j == Approved(job[p])
<1>1. UNCHANGED <<evidence, worker, restarts, installed, backend, loaded>> /\ RequestEnds(p)
      /\ request[p].pc # "idle"
  BY DEF RequestRaises, ha, history
<1>2. request[p].job = job[p] /\ job[p] \in Jobs /\ job[p] # None /\ UpToDate(p)
      /\ LeftBehind(p)
  BY <1>1, RequestHasTheJob DEF InOrder
<1>3. CASE job' = job
  BY <1>1, <1>3, RequestLeaves
<1>4. CASE request[p].pc \in {"save_review", "save_resume"} /\ job' = [job EXCEPT ![p] = j]
  <2>1. /\ j \in Jobs /\ j # None /\ j.status = "running" /\ j.stage = job[p].stage
        /\ j.id = job[p].id /\ j.target = job[p].target /\ Checkpoint(j) = Checkpoint(job[p])
    BY <1>2, DistinctAssumption DEF Approved, Jobs, Checkpoint
  <2>2. job'[p] = j /\ \A q \in Projects \ {p} : job'[q] = job[q]
    BY <1>4 DEF InOrder, Inductive, TypeOK
  <2>3. /\ request'[p] = Idle /\ request'[p].pc = "idle"
        /\ \A q \in Projects \ {p} : request'[q] = request[q]
    BY <1>1 DEF RequestEnds, Idle, InOrder, Inductive, TypeOK
  <2>4. WithoutWorker(p) /\ worker'[p].pc = "idle"
    BY <1>1, <1>2, <1>4 DEF UpToDate, InOrder, Inductive, RequestInOrder, Job, WithoutWorker, Idle
  <2>5. UpToDate(p)'
    BY <1>1, <2>1, <2>2, <2>3, <2>4 DEF UpToDate, Working, At, Job, WithoutWorker, Idle
  <2>6. LeftBehind(p)'
    BY <1>1, <1>2, <2>1, <2>2, <2>4 DEF LeftBehind, Working, At, Reached, Checkpoint
  <2> QED BY <1>1, <2>2, <2>3, <2>5, <2>6, OthersGood DEF Good
<1> QED BY <1>2, <1>3, <1>4 DEF RequestRaises

LEMMA CancelRaisesGood ==
  ASSUME InOrder, NEW p \in Projects, CancelRaises(p)
  PROVE  \A q \in Projects : Good(q)'
<1> DEFINE j == [job[p] EXCEPT !.status = "cancelled"]
<1>1. UNCHANGED <<evidence, worker, request, restarts, installed, backend, loaded>>
      /\ request[p] = Idle /\ Job(p, "review") /\ UpToDate(p) /\ LeftBehind(p)
  BY DEF CancelRaises, threads, ha, history, InOrder
<1>2. job[p] \in Jobs /\ job[p] # None
  BY <1>1 DEF Job, InOrder, Inductive, TypeOK
<1>3. /\ j \in Jobs /\ j # None /\ j.status = "cancelled" /\ j.stage = job[p].stage
      /\ j.id = job[p].id /\ j.target = job[p].target /\ Checkpoint(j) = Checkpoint(job[p])
  BY <1>2, DistinctAssumption DEF Jobs, Checkpoint
<1>4. job'[p] = j /\ \A q \in Projects \ {p} : job'[q] = job[q]
  BY <1>2 DEF CancelRaises, InOrder, Inductive, TypeOK
<1>5. WithoutWorker(p) /\ worker'[p].pc = "idle" /\ request'[p].pc = "idle"
  BY <1>1 DEF UpToDate, WithoutWorker, Idle
<1>6. UpToDate(p)'
  BY <1>1, <1>3, <1>4, <1>5 DEF UpToDate, Working, At, Job, WithoutWorker, Idle
<1>7. LeftBehind(p)'
  BY <1>1, <1>2, <1>3, <1>4, <1>5 DEF LeftBehind, Working, At, Reached, Checkpoint
<1> QED BY <1>1, <1>4, <1>6, <1>7, OthersGood DEF Good

LEMMA RequestStepGood ==
  ASSUME Undisturbed, InOrder, NEW p \in Projects, RequestStep(p)
  PROVE  \A q \in Projects : Good(q)'
BY RequestStartsGood, RequestClaimsGood, RequestSavesGood, RequestLaunchesGood, CancelFreesGood,
   RequestRaisesGood
DEF RequestStep

(* A new job starts with nothing behind it.                                *)
LEMMA ReviewGood ==
  ASSUME InOrder, NEW p \in Projects, NEW target \in Releases, NEW after \in Contents,
         Review(p, target, after)
  PROVE  \A q \in Projects : Good(q)'
<1>1. /\ UNCHANGED <<evidence, worker, request, installed, backend, loaded>>
      /\ worker[p] = Idle /\ request[p] = Idle
      /\ restarts' = [restarts EXCEPT ![p] = 0]
      /\ UpToDate(p) /\ LeftBehind(p)
  BY DEF Review, WithoutWorker, threads, ha, InOrder
<1>2. PICK id \in JobIds :
        /\ id = IF job[p] = None THEN 1 ELSE job[p].id + 1
        /\ job' = [job EXCEPT ![p] =
              [id |-> id, status |-> "review", stage |-> "backup", target |-> target,
               backendBefore |-> backend[p], integrationBefore |-> installed[p],
               restart |-> target # installed[p] \/ target # loaded[p],
               before |-> dash[p], after |-> after, exported |-> FALSE]]
  BY DEF Review
<1>3. /\ job'[p].id = id /\ job'[p].status = "review" /\ job'[p].stage = "backup"
      /\ \A q \in Projects \ {p} : job'[q] = job[q]
  BY <1>2 DEF InOrder, Inductive, TypeOK
<1>4. job'[p] # None
  <2>1. job'[p] = [id |-> id, status |-> "review", stage |-> "backup", target |-> target,
               backendBefore |-> backend[p], integrationBefore |-> installed[p],
               restart |-> target # installed[p] \/ target # loaded[p],
               before |-> dash[p], after |-> after, exported |-> FALSE]
    BY <1>2 DEF InOrder, Inductive, TypeOK
  <2>2. job'[p] \in Jobs
    <3>1. (target # installed[p] \/ target # loaded[p]) \in BOOLEAN
      OBVIOUS
    <3>2. backend[p] \in Releases /\ installed[p] \in Releases /\ dash[p] \in Contents
      BY DEF InOrder, Inductive, TypeOK
    <3> QED BY <2>1, <3>1, <3>2 DEF Jobs, Stages
  <2> QED BY <2>2, DistinctAssumption
<1>5. restarts'[p] = 0 /\ \A q \in Projects \ {p} : restarts'[q] = restarts[q]
  BY <1>1 DEF InOrder, Inductive, TypeOK
<1>6. worker'[p].pc = "idle" /\ request'[p].pc = "idle" /\ request'[p] = Idle
      /\ WithoutWorker(p)'
  BY <1>1 DEF Idle, WithoutWorker
<1>7. UpToDate(p)'
  BY <1>3, <1>6 DEF UpToDate, Working, At, Job
<1>8. evidence'[p] # None => evidence'[p].id < job'[p].id
  <2>1. SUFFICES ASSUME evidence[p] # None PROVE evidence[p].id < id
    BY <1>1, <1>3
  <2>2. job[p] # None /\ evidence[p].id <= job[p].id
    BY <1>1, <2>1 DEF LeftBehind
  <2>3. evidence[p].id \in Int /\ job[p].id \in Int
    BY <2>1, <2>2 DEF InOrder, Inductive, TypeOK, Checkpoints, Jobs, JobIds
  <2> QED BY <1>2, <2>2, <2>3
<1>9. LeftBehind(p)'
  <2>1. evidence'[p] # None => evidence'[p].id \in Int /\ job'[p].id \in Int
    BY <1>1, <1>3 DEF InOrder, Inductive, TypeOK, Checkpoints, JobIds
  <2>2. ~ Reached(job'[p], "restart")
    BY <1>3 DEF Reached, StageNumber
  <2> QED BY <1>4, <1>5, <1>6, <1>8, <2>1, <2>2 DEF LeftBehind, Working, At, Reached
<1> QED BY <1>1, <1>3, <1>5, <1>7, <1>9, OthersGood DEF Good

LEMMA UserStepGood ==
  ASSUME Undisturbed, InOrder, NEW p \in Projects, UserStep(p)
  PROVE  \A q \in Projects : Good(q)'
BY ReviewGood, RequestStartsGood, CancelGood, CancelRaisesGood DEF UserStep

-----------------------------------------------------------------------------
(* The environment, crashes and startup.                                   *)

LEMMA OutsideGood ==
  ASSUME Undisturbed, InOrder, Environment
  PROVE  \A q \in Projects : Good(q)'
<1>1. CASE UNCHANGED <<job, evidence, worker, request, restarts, installed, backend, loaded>>
  BY <1>1, StaysGood DEF InOrder, Good, LeftBehind
<1>2. CASE \/ BeginOrdinaryApply \/ EndOrdinaryApply
           \/ \E p \in Projects, content \in Contents :
                OrdinaryApply(p, content) \/ EditDashboard(p, content)
  BY <1>1, <1>2 DEF BeginOrdinaryApply, EndOrdinaryApply, OrdinaryApply, EditDashboard,
                    files, threads, ha, history
<1>3. ASSUME NEW p \in Projects, NEW release \in Releases PROVE ~ ReplaceIntegration(p, release)
  BY DEF ReplaceIntegration, Fault, Undisturbed
<1>4. CASE HaRestarts
  <2>1. UNCHANGED <<job, evidence, worker, request, restarts, installed, backend>>
        /\ loaded' = installed
    BY <1>4 DEF HaRestarts, files, threads, history
  <2>2. ASSUME NEW q \in Projects PROVE Good(q)'
    <3>1. UpToDate(q) /\ LeftBehind(q)
      BY <2>2 DEF InOrder
    <3>2. ASSUME At(q, "export") \/ At(q, "finish") PROVE loaded'[q] = job[q].target
      <4>1. Working(q)
        BY <3>2 DEF At, Working
      <4>2. job[q] \in Jobs /\ job[q] # None /\ job[q].stage = "verify"
        BY <3>1, <3>2, <4>1, HasTheJob DEF UpToDate
      <4>3. Reached(job[q], "restart")
        BY <4>2, StageOrder
      <4> QED BY <2>1, <3>1, <4>2, <4>3 DEF LeftBehind
    <3>3. At(q, "export") \/ At(q, "finish") => backend[q] = job[q].target
      BY <3>1 DEF LeftBehind
    <3> QED BY <2>1, <3>1, <3>2, <3>3, StaysGood DEF Good
  <2> QED BY <2>2
<1>5. CASE Crash
  <2>1. UNCHANGED <<job, evidence, restarts, installed, backend, loaded>>
    BY <1>5 DEF Crash, files, ha, history
  <2>2. ASSUME NEW q \in Projects PROVE Good(q)'
    <3>1. /\ worker'[q] = Idle /\ request'[q] = Idle
          /\ worker'[q].pc = "idle" /\ request'[q].pc = "idle"
      BY <1>5, <2>2 DEF Crash, Idle
    <3>2. UpToDate(q) /\ LeftBehind(q)
      BY <2>2 DEF InOrder
    <3>3. UpToDate(q)'
      BY <3>1, <3>2 DEF UpToDate, Working, At, Job, WithoutWorker
    <3>4. LeftBehind(q)'
      BY <2>1, <3>1, <3>2 DEF LeftBehind, Working, At, Reached, Checkpoint
    <3> QED BY <3>3, <3>4 DEF Good
  <2> QED BY <2>2
<1> QED BY <1>2, <1>3, <1>4, <1>5 DEF Environment

LEMMA RecoverGood ==
  ASSUME InOrder, NEW p \in Projects, Recover(p) \/ RecoverRaises(p)
  PROVE  \A q \in Projects : Good(q)'
<1>1. UNCHANGED <<job, evidence, request, restarts, installed, backend, loaded>>
  BY DEF Recover, RecoverRaises, files, ha, history
<1>2. request[p] = Idle
  BY DEF Recover, RecoverRaises, InOrder, Inductive, TypeOK, RequestInOrder, Serving
<1>3. CASE Launch(p) /\ Job(p, "running")
  BY <1>1, <1>2, <1>3, LaunchesGood
<1>4. CASE UNCHANGED worker
  BY <1>1, <1>4, StaysGood DEF InOrder, Good, LeftBehind
<1> QED BY <1>3, <1>4 DEF Recover, RecoverRaises, LaunchesAtBoot

LEMMA InitGood == Init => InOrder
<1> SUFFICES ASSUME Init PROVE InOrder
  OBVIOUS
<1>1. Inductive
  BY InitHolds
<1>2. ASSUME NEW p \in Projects PROVE UpToDate(p) /\ LeftBehind(p)
  BY <1>2 DEF Init, UpToDate, LeftBehind, Working, At, Job, WithoutWorker, Idle
<1> QED BY <1>1, <1>2 DEF InOrder

LEMMA NextGood ==
  ASSUME Undisturbed, InOrder, [Next]_vars
  PROVE  InOrder'
<1>1. Inductive'
  BY NextKeeps DEF InOrder
<1>2. \A q \in Projects : Good(q)'
  <2>1. CASE Environment
    BY <2>1, OutsideGood
  <2>2. ASSUME NEW p \in Projects,
               UserStep(p) \/ RequestStep(p) \/ WorkerStep(p) \/ Recover(p) \/ RecoverRaises(p)
        PROVE  \A q \in Projects : Good(q)'
    BY <2>2, UserStepGood, RequestStepGood, WorkerStepGood, RecoverGood
  <2>3. CASE UNCHANGED vars
    <3>1. UNCHANGED <<job, evidence, worker, request, restarts, installed, backend, loaded>>
      BY <2>3 DEF vars, files, threads, ha, history
    <3> QED BY <3>1, StaysGood DEF InOrder, Good, LeftBehind
  <2> QED BY <2>1, <2>2, <2>3 DEF Next
<1> QED BY <1>1, <1>2 DEF InOrder, Good

-----------------------------------------------------------------------------

(* Requests and workers know the job in job.json, and the stages it has    *)
(* reached have left what they promise: one restart at most, the           *)
(* checkpoint, the installed release.                                      *)
THEOREM JobsInOrder ==
  ASSUME Undisturbed
  PROVE  Spec => []InOrder
<1>1. InOrder /\ [Next]_vars => InOrder'
  BY NextGood
<1> QED BY <1>1, InitGood, PTL DEF Spec

(* HA is asked for at most one restart per job, whatever fails and however *)
(* often Import stops (the stage is saved before the request is sent).     *)
THEOREM OneRestart ==
  ASSUME Undisturbed
  PROVE  Spec => []RestartAtMostOnce
<1>1. InOrder => RestartAtMostOnce
  BY DEF InOrder, LeftBehind, RestartAtMostOnce
<1> QED BY <1>1, JobsInOrder, PTL

-----------------------------------------------------------------------------
(* What a step may never do to a job.                                      *)

LEMMA ProjectFrame ==
  ASSUME InOrder, NEW p \in Projects, NEW r \in Projects, p # r,
         UserStep(r) \/ RequestStep(r) \/ WorkerStep(r) \/ Recover(r) \/ RecoverRaises(r)
  PROVE  job'[p] = job[p]
<1>1. CASE UserStep(r)
  <2>1. \/ job' = job
        \/ \E j : job' = [job EXCEPT ![r] = j]
    BY <1>1 DEF UserStep, Review, Approve, Resume, Cancel, CancelRaises, files
  <2> QED BY <2>1 DEF InOrder, Inductive, TypeOK
<1>2. CASE RequestStep(r)
  <2>1. \/ job' = job
        \/ \E j : job' = [job EXCEPT ![r] = j]
    BY <1>2 DEF RequestStep, ResumeChecks, RequestClaims, RequestSaves, RequestLaunches,
                CancelFrees, RequestRaises, files
  <2> QED BY <2>1 DEF InOrder, Inductive, TypeOK
<1>3. CASE WorkerStep(r)
  <2>1. \/ job' = job
        \/ \E j : job' = [job EXCEPT ![r] = j]
    BY <1>3 DEF WorkerStep, Reads, Claims, Backup, DeployBackend, Install, RequestRestart,
                WaitsForHa, EntersOperation, ApplyDashboards, FinalCheck, Saves, SaveRaises,
                CallRaises, DiskRaises, Frees, Fails, Ends, files
  <2> QED BY <2>1 DEF InOrder, Inductive, TypeOK
<1>4. CASE Recover(r) \/ RecoverRaises(r)
  BY <1>4 DEF Recover, RecoverRaises, files
<1> QED BY <1>1, <1>2, <1>3, <1>4

(* Only a new review, an approval or resumption, a cancellation and the    *)
(* worker write job.json.                                                  *)
LEMMA WhoWritesJobs ==
  ASSUME InOrder, Next, NEW p \in Projects, job[p] # None, job'[p] # job[p]
  PROVE  \/ job'[p].id # job[p].id /\ job'[p].status = "review"
         \/ job'[p] = Approved(job[p]) /\ job[p].status \in {"review", "failed", "running"}
         \/ job'[p] = [job[p] EXCEPT !.status = "cancelled"] /\ job[p].status = "review"
         \/ (Saves(p) \/ SaveRaises(p)) /\ job'[p] = Saving(p)
         \/ Fails(p)
<1>1. job[p] \in Jobs
  BY DEF InOrder, Inductive, TypeOK
<1>2. ~ Environment
  BY DEF Environment, BeginOrdinaryApply, EndOrdinaryApply, OrdinaryApply, EditDashboard,
         ReplaceIntegration, HaRestarts, Crash, files
<1>3. UserStep(p) \/ RequestStep(p) \/ WorkerStep(p) \/ Recover(p) \/ RecoverRaises(p)
  BY <1>2, ProjectFrame DEF Next
<1>4. CASE UserStep(p)
  <2>1. CASE \E target \in Releases, after \in Contents : Review(p, target, after)
    <3>1. PICK target \in Releases, after \in Contents : Review(p, target, after)
      BY <2>1
    <3>2. PICK id \in JobIds :
            /\ id = job[p].id + 1
            /\ job' = [job EXCEPT ![p] =
                 [id |-> id, status |-> "review", stage |-> "backup", target |-> target,
                  backendBefore |-> backend[p], integrationBefore |-> installed[p],
                  restart |-> target # installed[p] \/ target # loaded[p],
                  before |-> dash[p], after |-> after, exported |-> FALSE]]
      BY <3>1 DEF Review
    <3>3. job'[p].id = job[p].id + 1 /\ job'[p].status = "review"
      BY <3>2 DEF InOrder, Inductive, TypeOK
    <3> QED BY <1>1, <3>3 DEF Jobs, JobIds
  <2>2. CASE Cancel(p) \/ CancelRaises(p)
    BY <2>2 DEF Cancel, CancelRaises, Job, InOrder, Inductive, TypeOK
  <2>3. CASE Approve(p) \/ Resume(p)
    BY <2>3 DEF Approve, Resume, files
  <2> QED BY <1>4, <2>1, <2>2, <2>3 DEF UserStep
<1>5. CASE RequestStep(p)
  <2>1. /\ request[p].pc \in {"save_review", "save_resume"}
        /\ job' = [job EXCEPT ![p] = Approved(request[p].job)]
    BY <1>5 DEF RequestStep, ResumeChecks, RequestClaims, RequestSaves, RequestLaunches,
                CancelFrees, RequestRaises, files
  <2>2. request[p].job = job[p] /\ UpToDate(p)
    BY <2>1, RequestHasTheJob DEF InOrder
  <2>3. job'[p] = Approved(job[p])
    BY <2>1, <2>2 DEF InOrder, Inductive, TypeOK
  <2>4. job[p].status \in {"review", "failed", "running"}
    BY <2>1, <2>2 DEF UpToDate, Job, InOrder, Inductive, RequestInOrder
  <2> QED BY <2>3, <2>4
<1>6. CASE WorkerStep(p)
  <2>1. Saves(p) \/ SaveRaises(p) \/ Fails(p)
    BY <1>6 DEF WorkerStep, Reads, Claims, Backup, DeployBackend, Install, RequestRestart,
                WaitsForHa, EntersOperation, ApplyDashboards, FinalCheck,
                CallRaises, DiskRaises, Frees, Ends, files
  <2>2. CASE Saves(p) \/ SaveRaises(p)
    BY <2>2 DEF Saves, SaveRaises, InOrder, Inductive, TypeOK
  <2> QED BY <2>1, <2>2
<1>7. CASE Recover(p) \/ RecoverRaises(p)
  BY <1>7 DEF Recover, RecoverRaises, files
<1> QED BY <1>3, <1>4, <1>5, <1>6, <1>7

LEMMA OnlyForward ==
  ASSUME InOrder, [Next]_vars, NEW p \in Projects,
         job[p] # None, job'[p] # None, job'[p].id = job[p].id
  PROVE  /\ Reached(job'[p], job[p].stage)
         /\ Job(p, "success") => job'[p].status \in {"success", "failed"}
<1>1. job[p] \in Jobs
  BY DEF InOrder, Inductive, TypeOK
<1>2. CASE job'[p] = job[p]
  BY <1>1, <1>2, StageOrder DEF Job
<1>3. CASE job'[p] = Approved(job[p]) /\ job[p].status \in {"review", "failed", "running"}
  <2>1. Approved(job[p]).stage = job[p].stage
    BY <1>1 DEF Approved, Jobs
  <2> QED BY <1>1, <1>3, <2>1, StageOrder DEF Job, Reached
<1>4. CASE job'[p] = [job[p] EXCEPT !.status = "cancelled"] /\ job[p].status = "review"
  <2>1. [job[p] EXCEPT !.status = "cancelled"].stage = job[p].stage
    BY <1>1 DEF Jobs
  <2> QED BY <1>1, <1>4, <2>1, StageOrder DEF Job, Reached
<1>5. CASE (Saves(p) \/ SaveRaises(p)) /\ job'[p] = Saving(p)
  <2>1. job'[p] = Saving(p) /\ SavePoint(p)
    BY <1>5 DEF Saves, SaveRaises
  <2>2. Reached(Saving(p), job[p].stage) /\ Working(p)
    BY <2>1, SavingWhat
  <2>3. job[p].status = "running"
    BY <2>2, HasTheJob
  <2> QED BY <2>1, <2>2, <2>3 DEF Job
<1>6. CASE Fails(p)
  <2>1. worker[p].job \in Jobs /\ Reached(worker[p].job, job[p].stage)
    BY <1>6 DEF Fails, At, InOrder, Inductive, WorksOnJob, UpToDate
  <2>2. job'[p] = job[p] \/ job'[p] = Failed(worker[p].job)
    BY <1>6 DEF Fails, InOrder, Inductive, TypeOK
  <2>3. Failed(worker[p].job).stage = worker[p].job.stage /\ Failed(worker[p].job).status = "failed"
    BY <2>1 DEF Failed, Jobs
  <2> QED BY <1>2, <2>1, <2>2, <2>3 DEF Reached
<1>7. CASE UNCHANGED vars
  <2>1. job' = job
    BY <1>7 DEF vars, files
  <2> QED BY <1>2, <2>1
<1> QED BY <1>2, <1>3, <1>4, <1>5, <1>6, <1>7, WhoWritesJobs

LEMMA OnlyDeployedSucceed ==
  ASSUME InOrder, [Next]_vars, NEW p \in Projects, Job(p, "running"), Job(p, "success")'
  PROVE  backend[p] = job[p].target /\ loaded[p] = job[p].target
<1>1. job[p] # None /\ job[p].status = "running" /\ job'[p].status = "success"
      /\ job[p] \in Jobs
  BY DEF Job, InOrder, Inductive, TypeOK
<1>2. Next /\ job'[p] # job[p]
  BY <1>1 DEF vars, files
<1>3. CASE job'[p] = Approved(job[p])
  BY <1>1, <1>3 DEF Approved, Jobs
<1>4. CASE (Saves(p) \/ SaveRaises(p)) /\ job'[p] = Saving(p)
  <2>1. job'[p] = Saving(p) /\ SavePoint(p)
    BY <1>4 DEF Saves, SaveRaises
  <2>2. At(p, "finish")
    BY <1>1, <2>1, SavingWhat
  <2> QED BY <2>2 DEF InOrder, LeftBehind
<1>5. CASE Fails(p)
  <2>1. worker[p].job \in Jobs
    BY <1>5 DEF Fails, At, InOrder, Inductive, WorksOnJob
  <2>2. job'[p] = Failed(worker[p].job)
    BY <1>2, <1>5 DEF Fails, InOrder, Inductive, TypeOK
  <2> QED BY <1>1, <2>1, <2>2 DEF Failed, Jobs
<1>6. CASE job'[p] = [job[p] EXCEPT !.status = "cancelled"]
  BY <1>1, <1>6 DEF Jobs
<1> QED BY <1>1, <1>2, <1>3, <1>4, <1>5, <1>6, WhoWritesJobs

(* A deployment that changes HA or the executor has its checkpoint.        *)
LEMMA OnlyWithEvidence ==
  ASSUME InOrder, [Next]_vars, NEW p \in Projects,
         worker[p].job # None, last' # last, last' = Mine(p, worker[p].job)
  PROVE  evidence[p] = Checkpoint(worker[p].job)
<1>1. worker[p].job \in Jobs
  BY DEF InOrder, Inductive, TypeOK
<1>2. last' # Ordinary
  BY <1>1, MineIsOwner
<1>3. ~ Environment
  BY <1>2 DEF Environment, BeginOrdinaryApply, EndOrdinaryApply, OrdinaryApply, EditDashboard,
              ReplaceIntegration, HaRestarts, Crash, history
<1>4. PICK r \in Projects :
        UserStep(r) \/ RequestStep(r) \/ WorkerStep(r) \/ Recover(r) \/ RecoverRaises(r)
  BY <1>3 DEF Next, vars, history
<1>5. /\ DeployBackend(r) \/ Install(r) \/ RequestRestart(r) \/ ApplyDashboards(r)
      /\ last' = Mine(r, worker[r].job)
  <2>1. ~ UserStep(r) /\ ~ RequestStep(r) /\ ~ Recover(r) /\ ~ RecoverRaises(r)
    BY DEF UserStep, Review, Approve, Resume, Cancel, CancelRaises, RequestStep, ResumeChecks,
           RequestClaims, RequestSaves, RequestLaunches, CancelFrees, RequestRaises, Recover,
           RecoverRaises, threads, history
  <2> QED BY <1>4, <2>1
          DEF WorkerStep, Reads, Claims, Backup, DeployBackend, Install, RequestRestart,
              WaitsForHa, EntersOperation, ApplyDashboards, FinalCheck, Saves, SaveRaises,
              CallRaises, DiskRaises, Frees, Fails, Ends, history, Changes
<1>6. r = p
  BY <1>5, DifferentOwners
<1>7. Working(p) /\ worker[p].job.stage # "backup"
  BY <1>5, <1>6 DEF DeployBackend, Install, RequestRestart, ApplyDashboards, AtStage, At, Working,
                    InOrder, UpToDate
<1> QED BY <1>7, HasTheJob DEF InOrder, LeftBehind

(* A job never returns to a stage it has left, and one that has succeeded  *)
(* is not started again.                                                   *)
THEOREM OnlyMovesForward ==
  ASSUME Undisturbed
  PROVE  Spec => JobMovesForward
<1>1. InOrder /\ [Next]_vars =>
        [\A p \in Projects :
          job[p] # None /\ job'[p] # None /\ job'[p].id = job[p].id =>
            /\ StageNumber[job'[p].stage] >= StageNumber[job[p].stage]
            /\ Job(p, "success") => job'[p].status \in {"success", "failed"}]_vars
  BY OnlyForward DEF Reached
<1> QED BY <1>1, JobsInOrder, PTL DEF Spec, JobMovesForward

(* A job is reported successful only while the executor runs its release   *)
(* and HA has loaded it.                                                   *)
THEOREM SuccessIsDeployed ==
  ASSUME Undisturbed
  PROVE  Spec => SuccessMeansDeployed
<1>1. InOrder /\ [Next]_vars =>
        [\A p \in Projects :
          Job(p, "running") /\ Job(p, "success")' =>
            backend[p] = job[p].target /\ loaded[p] = job[p].target]_vars
  BY OnlyDeployedSucceed
<1> QED BY <1>1, JobsInOrder, PTL DEF Spec, SuccessMeansDeployed

(* Before a job changes anything, what it was reviewed against is in its   *)
(* recovery checkpoint.                                                    *)
THEOREM EvidenceIsFirst ==
  ASSUME Undisturbed
  PROVE  Spec => EvidenceFirst
<1>1. InOrder /\ [Next]_vars =>
        [\A p \in Projects :
          worker[p].job # None /\ last' # last /\ last' = Mine(p, worker[p].job)
            => evidence[p] = Checkpoint(worker[p].job)]_vars
  BY OnlyWithEvidence
<1> QED BY <1>1, JobsInOrder, PTL DEF Spec, EvidenceFirst
=============================================================================
