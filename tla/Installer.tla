----------------------------- MODULE Installer ------------------------------
(***************************************************************************)
(* How an approved deployment replaces the code of a Home Assistant        *)
(* integration: Installer.install and finish with every directory          *)
(* operation, called from the stages "integration" and "verify" of         *)
(* Deployments._run, after the takeover from HACS.  The stages in between  *)
(* touch no code and are in Deployments.                                   *)
(*                                                                         *)
(* custom_components/<domain> is the target; <domain>-stage and            *)
(* <domain>-previous lie in a directory HA does not scan.  Import may stop *)
(* between any two operations, and any operation may raise.                *)
(***************************************************************************)
EXTENDS Naturals

CONSTANTS
  Files,      (* Project.files: the managed files of the integration.      *)
  Unmanaged,  (* Any other file in the directory.                          *)
  Contents,   (* What a file may hold.                                     *)
  NoFile,     (* No such file.                                             *)
  Missing,    (* No such directory.                                        *)
  None,       (* No job yet.                                               *)
  MaxJobs,    (* Bound: approved jobs.                                     *)
  MaxEdits,   (* Bound: changes of the code by users and HACS.             *)
  MaxFaults   (* Bound: operations that raise and stops of Import.         *)

Names == Files \cup {Unmanaged}
Trees == [Names -> Contents \cup {NoFile}]
Directories == Trees \cup {Missing}
Empty == [f \in Names |-> NoFile]

(* What unpack() accepts: every managed file and nothing else.             *)
Releases == {t \in Trees : t[Unmanaged] = NoFile /\ \A f \in Files : t[f] # NoFile}

Jobs == [status : {"running", "failed", "success"}, stage : {"integration", "verify"},
         before : Trees, after : Releases]

ASSUME ConstantsAssumption ==
  /\ Files # {} /\ Unmanaged \notin Files
  /\ NoFile \notin Contents
  /\ Missing \notin Trees
  /\ None \notin Jobs /\ None \notin [before : Trees, after : Trees]
  /\ MaxJobs \in Nat /\ MaxEdits \in Nat /\ MaxFaults \in Nat

VARIABLES
  target, stage, previous,  (* The three directories.                      *)
  hacs,       (* HACS manages the integration.                             *)
  job,        (* What job.json says of it.                                 *)
  pc,         (* The worker: what it does next.                            *)
  todo,       (* The files it has still to write to the stage.             *)
  saw,        (* The code it saw before HACS gave up the integration.      *)
  touched,    (* History: who changed the target since it was reviewed and *)
              (* nothing of an earlier job was left.                       *)
  jobs, edits, faults

dirs   == <<target, stage, previous>>
bounds == <<jobs, edits, faults>>
vars   == <<dirs, hacs, job, pc, todo, saw, touched, bounds>>

(* Installer.snapshot: a missing directory and one without files have the  *)
(* same hash; an unmanaged file raises.                                    *)
Snapshot(d) == IF d = Missing THEN Empty ELSE d
Readable(d) == Snapshot(d)[Unmanaged] = NoFile

Init ==
  /\ target \in Releases \cup {Missing}
  /\ stage = Missing /\ previous = Missing
  /\ hacs \in BOOLEAN
  /\ job = None /\ pc = "idle"
  /\ todo = {} /\ saw = Empty
  /\ touched = {}
  /\ jobs = 0 /\ edits = 0 /\ faults = 0

-----------------------------------------------------------------------------
(* The job: approval, failure, startup, resumption.                        *)

Status(s) == job # None /\ job.status = s
At(position) == pc = position
Goto(position) == pc' = position

(* Steps of the worker change nothing outside it.                          *)
WorkerOnly == UNCHANGED <<touched, jobs, edits>>

(* The review takes a snapshot and approve() compares it again.            *)
Approve(after) ==
  /\ At("idle") /\ (job = None \/ Status("success"))
  /\ jobs < MaxJobs
  /\ Readable(target)
  /\ job' = [status |-> "running", stage |-> "integration",
             before |-> Snapshot(target), after |-> after]
  /\ Goto("takeover")
  /\ touched' = IF stage = Missing THEN {} ELSE touched
  /\ jobs' = jobs + 1
  /\ UNCHANGED <<dirs, hacs, todo, saw, edits, faults>>

(* Mutant: a resumed job is started over.                                  *)
EntryAtStart == "takeover"

(* Where _run takes up a job.                                              *)
Entry == IF job.stage = "integration" THEN "takeover" ELSE "finish"

(* recover_approved: a job that was running is continued.                  *)
Recover ==
  /\ At("boot")
  /\ Goto(IF Status("running") THEN Entry ELSE "idle")
  /\ UNCHANGED <<dirs, hacs, job, todo, saw, touched, bounds>>

(* resume, also for a job whose failure could not be saved.                *)
Resume ==
  /\ At("idle") /\ (Status("failed") \/ Status("running"))
  /\ job' = [job EXCEPT !.status = "running"]
  /\ Goto(Entry)
  /\ UNCHANGED <<dirs, hacs, todo, saw, touched, bounds>>

Fault == faults < MaxFaults /\ faults' = faults + 1
NoFault == UNCHANGED faults

Fails == Goto("idle") /\ job' = [job EXCEPT !.status = "failed"]

(* An exception of the code's own ends the worker; that the job has failed *)
(* may be impossible to save.                                              *)
Raises == (Fails /\ NoFault) \/ (Goto("idle") /\ UNCHANGED job /\ Fault)

(* A file being written when Import stops may hold part of its content.    *)
Torn(f) == \E c \in Contents : stage' = [stage EXCEPT ![f] = c]

Crash ==
  /\ Fault
  /\ Goto("boot")
  /\ UNCHANGED stage \/ (At("write") /\ \E f \in todo : Torn(f))
  /\ todo' = {}
  /\ UNCHANGED <<target, previous, hacs, job, saw>> /\ WorkerOnly

(* A call raises before it did anything: to HA, the file system, job.json. *)
CallRaises ==
  /\ Fault
  /\ pc \in {"takeover", "removed", "look", "out", "again", "back", "advance",
             "finish", "remove", "success"}
  /\ Fails
  /\ UNCHANGED <<dirs, hacs, todo, saw>> /\ WorkerOnly

-----------------------------------------------------------------------------
(* The stage "integration".                                                *)

(* Mutant: HACS keeps the repository.                                      *)
TakeOverByName ==
  /\ At("takeover") /\ Goto("look")
  /\ UNCHANGED <<dirs, hacs, job, todo, saw, faults>> /\ WorkerOnly

(* ha("takeover"): HACS forgets the repository; the answer may be lost.    *)
TakeOver ==
  /\ At("takeover")
  /\ \/ ~ hacs /\ Goto("look") /\ UNCHANGED <<hacs, job, saw, faults>>
     \/ hacs /\ ~ Readable(target) /\ Raises /\ UNCHANGED <<hacs, saw>>
     \/ /\ hacs /\ Readable(target)
        /\ hacs' = FALSE /\ saw' = Snapshot(target)
        /\ (Goto("removed") /\ NoFault /\ UNCHANGED job) \/ (Fails /\ Fault)
  /\ UNCHANGED <<dirs, todo>> /\ WorkerOnly

(* The files must have outlived it.                                        *)
ConfirmTakeover ==
  /\ At("removed")
  /\ IF Readable(target) /\ Snapshot(target) = saw
     THEN Goto("look") /\ UNCHANGED <<job, faults>> ELSE Raises
  /\ UNCHANGED <<dirs, hacs, todo, saw>> /\ WorkerOnly

IsInstalled ==
  /\ Readable(target) /\ Snapshot(target) = job.after
  /\ previous # Missing => Readable(previous) /\ previous = job.before

Interrupted == target = Missing /\ previous # Missing

(* Mutants: an interrupted installation is completed without a look at the *)
(* directories, or never.                                                  *)
MayCompleteAnything == stage # Missing
MayCompleteNothing == FALSE

(* A stop between the two renames is made good if both directories are     *)
(* what the job says.                                                      *)
MayComplete ==
  /\ Readable(previous) /\ previous = job.before
  /\ Readable(stage) /\ Snapshot(stage) = job.after

(* Mutant: a stage that is there is taken for complete.                    *)
MayReuseAnything == stage # Missing

(* Only an exact stage is reused.                                          *)
MayReuse == stage # Missing /\ Readable(stage) /\ stage = job.after

(* The reviewed code is still there, and nothing is left of an earlier     *)
(* attempt but a complete stage.                                           *)
MayReplace ==
  /\ Readable(target) /\ Snapshot(target) = job.before
  /\ previous = Missing
  /\ stage = Missing \/ MayReuse

AlreadyInstalled ==
  /\ At("look") /\ IsInstalled
  /\ Goto("advance")
  /\ UNCHANGED <<dirs, hacs, job, todo, saw, faults>> /\ WorkerOnly

CompletesInterrupted ==
  /\ At("look") /\ Interrupted /\ MayComplete
  /\ Goto("again")
  /\ UNCHANGED <<dirs, hacs, job, todo, saw, faults>> /\ WorkerOnly

StartsReplacing ==
  /\ At("look") /\ Snapshot(target) # job.after /\ ~ Interrupted /\ MayReplace
  /\ stage' = Snapshot(stage)
  /\ todo' = IF stage = Missing THEN Files ELSE {}
  /\ Goto(IF stage = Missing THEN "write" ELSE "out")
  /\ UNCHANGED <<target, previous, hacs, job, saw, faults>> /\ WorkerOnly

Refuses ==
  /\ At("look")
  /\ IF Snapshot(target) = job.after THEN ~ IsInstalled
     ELSE IF Interrupted THEN ~ MayComplete ELSE ~ MayReplace
  /\ Raises
  /\ UNCHANGED <<dirs, hacs, todo, saw>> /\ WorkerOnly

(* One file of the stage is written and synced, or the write raises.       *)
WriteFile(f) ==
  /\ At("write") /\ f \in todo
  /\ \/ /\ stage' = [stage EXCEPT ![f] = job.after[f]]
        /\ todo' = todo \ {f}
        /\ Goto(IF todo' = {} THEN "out" ELSE "write")
        /\ UNCHANGED <<job, faults>>
     \/ Torn(f) /\ todo' = {} /\ Fails /\ Fault
  /\ UNCHANGED <<target, previous, hacs, saw>> /\ WorkerOnly

(* Mutant: the old code is deleted.                                        *)
SetNothingAside == target' = Missing /\ UNCHANGED previous

(* target.rename(previous), if there is a target.                          *)
SetAside == target' = Missing /\ previous' = target

MoveOut ==
  /\ At("out")
  /\ SetAside
  /\ Goto("in")
  /\ UNCHANGED <<stage, hacs, job, todo, saw, faults>> /\ WorkerOnly

(* rename() replaces an empty directory, and no other.                     *)
Free(d) == d \in {Missing, Empty}

(* stage.rename(target)                                                    *)
MoveIn ==
  /\ At("in") \/ At("again")
  /\ Free(target)
  /\ target' = stage /\ stage' = Missing
  /\ Goto("advance")
  /\ UNCHANGED <<previous, hacs, job, todo, saw, faults>> /\ WorkerOnly

MoveInRaises ==
  /\ \/ At("in") /\ Goto("back") /\ UNCHANGED job /\ (Fault \/ (~ Free(target) /\ NoFault))
     \/ At("again") /\ ~ Free(target) /\ Raises
  /\ UNCHANGED <<dirs, hacs, todo, saw>> /\ WorkerOnly

(* The old code is put back, if nobody put other code there.               *)
MoveBack ==
  /\ At("back")
  /\ IF previous # Missing /\ Free(target)
     THEN target' = previous /\ previous' = Missing
     ELSE UNCHANGED <<target, previous>>
  /\ Raises
  /\ UNCHANGED <<stage, hacs, todo, saw>> /\ WorkerOnly

(* The job leaves the stage; backend, restart and dashboards follow.       *)
Advance ==
  /\ At("advance")
  /\ job' = [job EXCEPT !.stage = "verify"]
  /\ Goto("finish")
  /\ UNCHANGED <<dirs, hacs, todo, saw, faults>> /\ WorkerOnly

-----------------------------------------------------------------------------
(* The end of the stage "verify".                                          *)

(* finish: the old code is removed, if it can be read.                     *)
Finish ==
  /\ At("finish")
  /\ \/ previous = Missing /\ Goto("success") /\ UNCHANGED <<job, faults>>
     \/ previous # Missing /\ Readable(previous) /\ Goto("remove") /\ UNCHANGED <<job, faults>>
     \/ previous # Missing /\ ~ Readable(previous) /\ Raises
  /\ UNCHANGED <<dirs, hacs, todo, saw>> /\ WorkerOnly

(* rmtree: file by file, then the directory.                               *)
RemoveFile(f) ==
  /\ At("remove") /\ previous[f] # NoFile
  /\ previous' = [previous EXCEPT ![f] = NoFile]
  /\ UNCHANGED <<target, stage, hacs, job, pc, todo, saw, faults>> /\ WorkerOnly

RemoveDirectory ==
  /\ At("remove") /\ previous = Empty
  /\ previous' = Missing
  /\ Goto("success")
  /\ UNCHANGED <<target, stage, hacs, job, todo, saw, faults>> /\ WorkerOnly

Succeed ==
  /\ At("success")
  /\ job' = [job EXCEPT !.status = "success"]
  /\ Goto("idle")
  /\ UNCHANGED <<dirs, hacs, todo, saw, faults>> /\ WorkerOnly

-----------------------------------------------------------------------------
(* HACS and users.                                                         *)

Changes(who, code) ==
  /\ edits < MaxEdits /\ code # target
  /\ target' = code
  /\ touched' = touched \cup {who}
  /\ edits' = edits + 1
  /\ UNCHANGED <<stage, previous, hacs, job, pc, todo, saw, jobs, faults>>

(* HACS replaces the directory with a release's.                           *)
HacsUpdates(code) == hacs /\ Changes("hacs", code)

(* A user deletes the directory, unpacks a release by hand, or writes or    *)
(* deletes a file.                                                         *)
UserEdits(code) ==
  /\ \/ code \in {Missing, Empty} \cup Releases
     \/ \E f \in Names, c \in Contents \cup {NoFile} :
          code = [Snapshot(target) EXCEPT ![f] = c]
  /\ Changes("user", code)

Worker ==
  \/ TakeOver \/ ConfirmTakeover
  \/ AlreadyInstalled \/ CompletesInterrupted \/ StartsReplacing \/ Refuses
  \/ \E f \in Files : WriteFile(f)
  \/ MoveOut \/ MoveIn \/ MoveInRaises \/ MoveBack \/ Advance
  \/ Finish \/ (\E f \in Names : RemoveFile(f)) \/ RemoveDirectory \/ Succeed

Next ==
  \/ \E after \in Releases : Approve(after)
  \/ Recover \/ Resume \/ Crash
  \/ Worker \/ CallRaises
  \/ \E code \in Releases : HacsUpdates(code)
  \/ \E code \in Directories : UserEdits(code)

Spec == Init /\ [][Next]_vars

(* The worker goes on, Import is started again, and the user resumes a job *)
(* that stopped.                                                           *)
FairSpec == Spec /\ WF_vars(Worker) /\ WF_vars(Recover) /\ WF_vars(Resume)

-----------------------------------------------------------------------------
(* Properties.                                                             *)

Positions == {"idle", "boot", "takeover", "removed", "look", "write", "out", "in", "again",
              "back", "advance", "finish", "remove", "success"}

TypeOK ==
  /\ target \in Directories /\ stage \in Directories /\ previous \in Directories
  /\ hacs \in BOOLEAN
  /\ job \in Jobs \cup {None}
  /\ pc \in Positions
  /\ todo \subseteq Files /\ saw \in Trees
  /\ touched \subseteq {"hacs", "user"}
  /\ jobs \in Nat /\ edits \in Nat /\ faults \in Nat

Unfinished == Status("running") \/ Status("failed")
Installing == Unfinished /\ job.stage = "integration"

(* What is known of the worker, its job and the directories whoever edits  *)
(* the target.                                                             *)
Positioned ==
  /\ job = None => At("idle") \/ At("boot")
  /\ ~ At("idle") /\ ~ At("boot") => Status("running")
  /\ pc \in {"takeover", "removed", "look", "write", "out", "in", "again", "back", "advance"}
       => job.stage = "integration"
  /\ pc \in {"finish", "remove", "success"} => job.stage = "verify"
  /\ Status("success") => job.stage = "verify"

Staged ==
  /\ At("write") =>
       /\ stage # Missing /\ previous = Missing /\ stage[Unmanaged] = NoFile
       /\ \A f \in Files \ todo : stage[f] = job.after[f]
  /\ pc \in {"out", "in", "again", "back"} => stage = job.after
  /\ At("advance") /\ stage # Missing /\ previous # Missing => previous = job.before
  /\ At("out") \/ At("success") \/ Status("success") => previous = Missing
  /\ At("remove") => previous # Missing
  /\ job = None => stage = Missing /\ previous = Missing
  /\ hacs => (stage = Missing /\ previous = Missing
               /\ (job = None \/ (job.stage = "integration" /\ pc \in {"idle", "boot", "takeover"})))

(* The three directories while the code is replaced.                       *)
NotYet  == Snapshot(target) = job.before /\ previous = Missing
Halfway == target = Missing /\ previous = job.before /\ stage = job.after
Done    == target = job.after /\ stage = Missing

(* Without edits by users, the directories are where the job is.  HACS can *)
(* only have changed the code before anything was staged.                  *)
Followed ==
  job # None /\ "user" \notin touched =>
    IF job.stage = "integration"
    THEN /\ \/ NotYet \/ Halfway
            \/ Done /\ (touched = {} => Snapshot(previous) = job.before)
            \/ "hacs" \in touched /\ stage = Missing /\ previous = Missing
         /\ job.before = job.after => stage = Missing
         /\ pc \in {"write", "out"} => NotYet
         /\ At("in") \/ At("back") => Halfway \/ (NotYet /\ target = Missing)
         /\ At("again") => Halfway
         /\ At("advance") => Done
    ELSE Done

Inductive == TypeOK /\ Positioned /\ Staged /\ Followed

(* The reviewed code is kept until the job is being finished: whatever     *)
(* fails or stops while the new code is written and moved in place, it is  *)
(* the target or the previous directory, unless somebody changed it.       *)
OldCodeKept ==
  Installing /\ touched = {} => job.before \in {Snapshot(target), Snapshot(previous)}

(* HA never finds half of a release: the target is the reviewed code, the  *)
(* approved code or, between the two renames, missing, and then both are   *)
(* there to complete it with.                                              *)
NeverHalfInstalled ==
  job # None /\ touched = {} =>
    \/ Snapshot(target) \in {job.before, job.after}
    \/ target = Missing /\ stage = job.after /\ previous = job.before

(* A job that succeeded without a user's interference has installed the    *)
(* approved code, HACS did not replace it, and nothing of the attempts is  *)
(* left that would stop the next job.                                      *)
SuccessMeansInstalled ==
  Status("success") /\ "user" \notin touched =>
    (target = job.after /\ stage = Missing /\ previous = Missing)

(* The stage was being written when Import stopped or a write failed: this *)
(* has to be looked into by hand.                                          *)
Damaged == stage # Missing /\ Unfinished /\ ~ At("write") /\ stage # job.after

(* A job that is resumed gets through, wherever it had stopped, unless the *)
(* code was changed or the stage is incomplete.                            *)
ResumedGetsThrough == Unfinished ~> (~ Unfinished \/ touched # {} \/ Damaged)

(* While the old code is set aside and the new is not in place, the        *)
(* installation has not happened yet.                                      *)
Between ==
  /\ job # None /\ job.stage = "integration" /\ ~ At("advance")
  /\ Free(target) /\ previous # Missing /\ stage # Missing

Code == IF Between THEN previous ELSE Snapshot(target)
Plan == IF job = None THEN None ELSE [before |-> job.before, after |-> job.after]
Looked == pc \in {"write", "out", "in", "again"}

Atomic == INSTANCE AtomicInstall WITH
  Gone <- Empty, code <- Code, plan <- Plan, looked <- Looked, changes <- edits

(* With all its directory operations, stops and failures, an installation  *)
(* is one step from the reviewed to the approved code.                     *)
AtomicInstallSpec == Atomic!Spec
=============================================================================
