-------------------------- MODULE InstallerProofs --------------------------
(***************************************************************************)
(* Theorems about Installer, for every set of files and contents and every *)
(* bound: its invariants, and that it implements AtomicInstall.            *)
(***************************************************************************)
EXTENDS Installer, TLAPS

LEMMA TreeFacts ==
  /\ Empty \in Trees /\ Empty # Missing /\ Empty \notin Releases
  /\ Empty[Unmanaged] = NoFile
  /\ \A f \in Names : Empty[f] = NoFile
  /\ \A t \in Releases : t \in Trees /\ t # Missing /\ t # Empty /\ t[Unmanaged] = NoFile
  /\ \A t \in Trees : t # Missing
  /\ \A t \in Trees, f \in Names, c \in Contents \cup {NoFile} : [t EXCEPT ![f] = c] \in Trees
  /\ Files \subseteq Names /\ Unmanaged \in Names
BY ConstantsAssumption DEF Empty, Trees, Releases, Names

LEMMA JobFacts ==
  /\ None \notin Jobs
  /\ \A j \in Jobs : j.before \in Trees /\ j.after \in Releases
  /\ \A j \in Jobs : j.status \in {"running", "failed", "success"} /\ j.stage \in
           {"integration", "verify"}
BY ConstantsAssumption DEF Jobs

SameCode(j, k) == j.before = k.before /\ j.after = k.after

(* What saving a status or a stage leaves alone.                           *)
LEMMA StatusSaved ==
  ASSUME NEW j \in Jobs, NEW s \in {"running", "failed", "success"}
  PROVE  LET k == [j EXCEPT !.status = s]
         IN  k \in Jobs /\ k.status = s /\ k.stage = j.stage /\ SameCode(k, j)
BY DEF Jobs, SameCode

LEMMA StageSaved ==
  ASSUME NEW j \in Jobs, NEW s \in {"integration", "verify"}
  PROVE  LET k == [j EXCEPT !.stage = s]
         IN  k \in Jobs /\ k.status = j.status /\ k.stage = s /\ SameCode(k, j)
BY DEF Jobs, SameCode

(* The worker has ended and the job has not succeeded.                     *)
Stopped ==
  /\ pc' = "idle" /\ faults' \in Nat
  /\ job' \in Jobs /\ job'.status # "success"
  /\ job'.stage = job.stage /\ SameCode(job', job)

(* A worker has the running job of job.json.                               *)
LEMMA AtWork ==
  ASSUME Inductive, ~ At("idle"), ~ At("boot")
  PROVE  job \in Jobs /\ job # None /\ job.status = "running"
BY JobFacts DEF Inductive, TypeOK, Positioned, Status, At

LEMMA Stopping ==
  ASSUME Inductive, ~ At("idle"), ~ At("boot"), Raises \/ (Fails /\ (Fault \/ NoFault))
  PROVE  Stopped
<1>1. job \in Jobs /\ job.status = "running"
  BY AtWork
<1>2. faults' \in Nat
  BY DEF Inductive, TypeOK, Raises, Fault, NoFault
<1>3. CASE Fails
  BY <1>1, <1>2, <1>3, StatusSaved DEF Fails, Goto, Stopped
<1>4. CASE Goto("idle") /\ UNCHANGED job
  BY <1>1, <1>2, <1>4 DEF Goto, Stopped, SameCode
<1> QED BY <1>3, <1>4 DEF Raises

LEMMA StoppedPreserves ==
  ASSUME Inductive, ~ At("idle"), ~ At("boot"), Stopped,
         UNCHANGED <<dirs, hacs, todo, saw>>, WorkerOnly
  PROVE  Inductive'
<1>1. TypeOK'
  BY DEF Inductive, TypeOK, Stopped, dirs, WorkerOnly, Positions
<1>2. Positioned'
  BY JobFacts DEF Inductive, TypeOK, Positioned, Stopped, Status, At
<1>3. Staged'
  BY AtWork, JobFacts DEF Inductive, TypeOK, Staged, Positioned, Stopped, Status, At, dirs
<1>4. Followed'
  BY AtWork, JobFacts
     DEF Inductive, TypeOK, Followed, NotYet, Halfway, Done, Snapshot, SameCode, Stopped,
         At, dirs, WorkerOnly
<1> QED BY <1>1, <1>2, <1>3, <1>4 DEF Inductive

-----------------------------------------------------------------------------
(* Every action preserves the invariant.                                   *)

LEMMA ApprovePreserves ==
  ASSUME Inductive, NEW after \in Releases, Approve(after)
  PROVE  Inductive'
<1>0. /\ job' \in Jobs /\ job'.status = "running" /\ job'.stage = "integration"
      /\ job'.before = Snapshot(target) /\ job'.after = after
      /\ touched' \subseteq {"hacs", "user"} /\ jobs' \in Nat
  BY TreeFacts DEF Approve, Jobs, Snapshot, Inductive, TypeOK, Directories
<1>1. TypeOK'
  BY <1>0, ConstantsAssumption, TreeFacts, JobFacts
     DEF Inductive, TypeOK, Positioned, Staged, Approve, At, Goto, Status, dirs,
         Snapshot, Directories, Positions
<1>2. Positioned'
  BY <1>0, ConstantsAssumption, TreeFacts, JobFacts
     DEF Inductive, TypeOK, Positioned, Staged, Approve, At, Goto, Status, dirs,
         Snapshot, Directories
<1>3. Staged'
  BY <1>0, ConstantsAssumption, TreeFacts, JobFacts
     DEF Inductive, TypeOK, Positioned, Staged, Approve, At, Goto, Status, dirs,
         Snapshot, Directories
<1>4. Followed'
  BY <1>0, ConstantsAssumption, TreeFacts, JobFacts
     DEF Inductive, TypeOK, Positioned, Staged, Followed, Approve, At, Goto, Status,
         dirs, Snapshot, Directories, NotYet, Halfway, Done, SameCode
<1> QED BY <1>1, <1>2, <1>3, <1>4 DEF Inductive

LEMMA RecoverPreserves ==
  ASSUME Inductive, Recover
  PROVE  Inductive'
<1>1. TypeOK'
  BY ConstantsAssumption, TreeFacts, JobFacts
     DEF Inductive, TypeOK, Positioned, Staged, Recover, Entry, At, Goto, Status, dirs,
         bounds, Directories, Positions
<1>2. Positioned'
  BY ConstantsAssumption, TreeFacts, JobFacts
     DEF Inductive, TypeOK, Positioned, Staged, Recover, Entry, At, Goto, Status, dirs,
         bounds, Directories
<1>3. Staged'
  BY ConstantsAssumption, TreeFacts, JobFacts
     DEF Inductive, TypeOK, Positioned, Staged, Recover, Entry, At, Goto, Status, dirs,
         bounds, Directories
<1>4. Followed'
  BY ConstantsAssumption, TreeFacts, JobFacts
     DEF Inductive, TypeOK, Positioned, Staged, Followed, Recover, Entry, At, Goto,
         Status, dirs, bounds, Snapshot, Directories, NotYet, Halfway, Done, SameCode
<1> QED BY <1>1, <1>2, <1>3, <1>4 DEF Inductive

LEMMA ResumePreserves ==
  ASSUME Inductive, Resume
  PROVE  Inductive'
<1>0. /\ job \in Jobs /\ job # None /\ job' \in Jobs /\ job'.status = "running"
      /\ job'.stage = job.stage /\ SameCode(job', job)
  BY StatusSaved, JobFacts DEF Resume, Status, Inductive, TypeOK
<1>1. TypeOK'
  BY <1>0, ConstantsAssumption, TreeFacts, JobFacts
     DEF Inductive, TypeOK, Positioned, Staged, Resume, Entry, At, Goto, Status, dirs,
         bounds, Directories, Positions
<1>2. Positioned'
  BY <1>0, ConstantsAssumption, TreeFacts, JobFacts
     DEF Inductive, TypeOK, Positioned, Staged, Resume, Entry, At, Goto, Status, dirs,
         bounds, Directories
<1>3. Staged'
  BY <1>0, ConstantsAssumption, TreeFacts, JobFacts
     DEF Inductive, TypeOK, Positioned, Staged, Resume, Entry, At, Goto, Status, dirs,
         bounds, Directories
<1>4. Followed'
  BY <1>0, ConstantsAssumption, TreeFacts, JobFacts
     DEF Inductive, TypeOK, Positioned, Staged, Followed, Resume, Entry, At, Goto,
         Status, dirs, bounds, Snapshot, Directories, NotYet, Halfway, Done, SameCode
<1> QED BY <1>1, <1>2, <1>3, <1>4 DEF Inductive

LEMMA CrashPreserves ==
  ASSUME Inductive, Crash
  PROVE  Inductive'
<1>1. TypeOK'
  BY ConstantsAssumption, TreeFacts, JobFacts
     DEF Inductive, TypeOK, Positioned, Staged, Crash, Torn, Fault, WorkerOnly, At, Goto,
         Status, Directories, Positions
<1>2. Positioned'
  BY ConstantsAssumption, TreeFacts, JobFacts
     DEF Inductive, TypeOK, Positioned, Staged, Crash, Torn, Fault, WorkerOnly, At, Goto,
         Status, Directories
<1>3. Staged'
  BY ConstantsAssumption, TreeFacts, JobFacts
     DEF Inductive, TypeOK, Positioned, Staged, Crash, Torn, Fault, WorkerOnly, At, Goto,
         Status, Directories
<1>4. Followed'
  BY ConstantsAssumption, TreeFacts, JobFacts
     DEF Inductive, TypeOK, Positioned, Staged, Followed, Crash, Torn, Fault, WorkerOnly,
         At, Goto, Status, Snapshot, Directories, NotYet, Halfway, Done, SameCode
<1> QED BY <1>1, <1>2, <1>3, <1>4 DEF Inductive

LEMMA CallRaisesPreserves ==
  ASSUME Inductive, CallRaises
  PROVE  Inductive'
<1>1. ~ At("idle") /\ ~ At("boot") /\ Stopped
  BY Stopping DEF CallRaises, At
<1> QED BY <1>1, StoppedPreserves DEF CallRaises

LEMMA TakeOverPreserves ==
  ASSUME Inductive, TakeOver
  PROVE  Inductive'
<1>1. CASE ~ hacs /\ Goto("look") /\ UNCHANGED <<hacs, job, saw, faults>>
  <2>1. TypeOK'
    BY <1>1, ConstantsAssumption, TreeFacts, JobFacts
       DEF Inductive, TypeOK, Positioned, Staged, TakeOver, WorkerOnly, At, Goto,
           Status, dirs, Snapshot, Directories, Positions
  <2>2. Positioned'
    BY <1>1, ConstantsAssumption, TreeFacts, JobFacts
       DEF Inductive, TypeOK, Positioned, Staged, TakeOver, WorkerOnly, At, Goto,
           Status, dirs, Snapshot, Directories
  <2>3. Staged'
    BY <1>1, ConstantsAssumption, TreeFacts, JobFacts
       DEF Inductive, TypeOK, Positioned, Staged, TakeOver, WorkerOnly, At, Goto,
           Status, dirs, Snapshot, Directories
  <2>4. Followed'
    BY <1>1, ConstantsAssumption, TreeFacts, JobFacts
       DEF Inductive, TypeOK, Positioned, Staged, Followed, TakeOver, WorkerOnly, At,
           Goto, Status, dirs, Snapshot, Directories, NotYet, Halfway, Done, SameCode
  <2> QED BY <2>1, <2>2, <2>3, <2>4 DEF Inductive
<1>2. CASE hacs /\ ~ Readable(target) /\ Raises /\ UNCHANGED <<hacs, saw>>
  <2>1. ~ At("idle") /\ ~ At("boot") /\ Stopped
    BY <1>2, Stopping DEF TakeOver, At
  <2>2. UNCHANGED <<dirs, hacs, todo, saw>> /\ WorkerOnly
    BY <1>2 DEF TakeOver, dirs
  <2> QED BY <2>1, <2>2, StoppedPreserves
<1>3. CASE hacs /\ Readable(target) /\ hacs' = FALSE /\ saw' = Snapshot(target) /\
         Goto("removed") /\ NoFault /\ UNCHANGED job
  <2>1. TypeOK'
    BY <1>3, ConstantsAssumption, TreeFacts, JobFacts
       DEF Inductive, TypeOK, Positioned, Staged, TakeOver, NoFault, WorkerOnly, At,
           Goto, Status, dirs, Snapshot, Directories, Positions
  <2>2. Positioned'
    BY <1>3, ConstantsAssumption, TreeFacts, JobFacts
       DEF Inductive, TypeOK, Positioned, Staged, TakeOver, NoFault, WorkerOnly, At,
           Goto, Status, dirs, Snapshot, Directories
  <2>3. Staged'
    BY <1>3, ConstantsAssumption, TreeFacts, JobFacts
       DEF Inductive, TypeOK, Positioned, Staged, TakeOver, NoFault, WorkerOnly, At,
           Goto, Status, dirs, Snapshot, Directories
  <2>4. Followed'
    BY <1>3, ConstantsAssumption, TreeFacts, JobFacts
       DEF Inductive, TypeOK, Positioned, Staged, Followed, TakeOver, NoFault,
           WorkerOnly, At, Goto, Status, dirs, Snapshot, Directories, NotYet, Halfway,
           Done, SameCode
  <2> QED BY <2>1, <2>2, <2>3, <2>4 DEF Inductive
<1>4. CASE hacs /\ Readable(target) /\ hacs' = FALSE /\ saw' = Snapshot(target) /\ Fails /\
         Fault
  <2>0. job \in Jobs /\ job # None /\ job.stage = "integration" /\ Stopped /\ At("takeover")
    BY <1>4, AtWork, Stopping DEF TakeOver, At, Inductive, Positioned
  <2>1. TypeOK'
    BY <1>4, <2>0, ConstantsAssumption, TreeFacts, JobFacts
       DEF Inductive, TypeOK, Positioned, Staged, Stopped, TakeOver, WorkerOnly, At,
           Goto, Status, dirs, Snapshot, Directories, Positions
  <2>2. Positioned'
    BY <1>4, <2>0, ConstantsAssumption, TreeFacts, JobFacts
       DEF Inductive, TypeOK, Positioned, Staged, Stopped, TakeOver, WorkerOnly, At,
           Goto, Status, dirs, Snapshot, Directories
  <2>3. Staged'
    BY <1>4, <2>0, ConstantsAssumption, TreeFacts, JobFacts
       DEF Inductive, TypeOK, Positioned, Staged, Stopped, TakeOver, WorkerOnly, At,
           Goto, Status, dirs, Snapshot, Directories
  <2>4. Followed'
    BY <1>4, <2>0, ConstantsAssumption, TreeFacts, JobFacts
       DEF Inductive, TypeOK, Positioned, Staged, Followed, Stopped, TakeOver,
           WorkerOnly, At, Goto, Status, dirs, Snapshot, Directories, NotYet, Halfway,
           Done, SameCode
  <2> QED BY <2>1, <2>2, <2>3, <2>4 DEF Inductive
<1> QED BY <1>1, <1>2, <1>3, <1>4 DEF TakeOver

LEMMA ConfirmTakeoverPreserves ==
  ASSUME Inductive, ConfirmTakeover
  PROVE  Inductive'
<1>1. CASE Goto("look") /\ UNCHANGED <<job, faults>>
  <2>1. TypeOK'
    BY <1>1, ConstantsAssumption, TreeFacts, JobFacts
       DEF Inductive, TypeOK, Positioned, Staged, ConfirmTakeover, WorkerOnly, At,
           Goto, Status, dirs, Snapshot, Directories, Positions
  <2>2. Positioned'
    BY <1>1, ConstantsAssumption, TreeFacts, JobFacts
       DEF Inductive, TypeOK, Positioned, Staged, ConfirmTakeover, WorkerOnly, At,
           Goto, Status, dirs, Snapshot, Directories
  <2>3. Staged'
    BY <1>1, ConstantsAssumption, TreeFacts, JobFacts
       DEF Inductive, TypeOK, Positioned, Staged, ConfirmTakeover, WorkerOnly, At,
           Goto, Status, dirs, Snapshot, Directories
  <2>4. Followed'
    BY <1>1, ConstantsAssumption, TreeFacts, JobFacts
       DEF Inductive, TypeOK, Positioned, Staged, Followed, ConfirmTakeover,
           WorkerOnly, At, Goto, Status, dirs, Snapshot, Directories, NotYet, Halfway,
           Done, SameCode
  <2> QED BY <2>1, <2>2, <2>3, <2>4 DEF Inductive
<1>2. CASE Raises
  <2>1. ~ At("idle") /\ ~ At("boot") /\ Stopped
    BY <1>2, Stopping DEF ConfirmTakeover, At
  <2>2. UNCHANGED <<dirs, hacs, todo, saw>> /\ WorkerOnly
    BY <1>2 DEF ConfirmTakeover, dirs
  <2> QED BY <2>1, <2>2, StoppedPreserves
<1> QED BY <1>1, <1>2 DEF ConfirmTakeover

LEMMA AlreadyInstalledPreserves ==
  ASSUME Inductive, AlreadyInstalled
  PROVE  Inductive'
<1>1. TypeOK'
  BY ConstantsAssumption, TreeFacts, JobFacts
     DEF Inductive, TypeOK, Positioned, Staged, AlreadyInstalled, IsInstalled,
         WorkerOnly, At, Goto, Status, dirs, Snapshot, Directories, Positions
<1>2. Positioned'
  BY ConstantsAssumption, TreeFacts, JobFacts
     DEF Inductive, TypeOK, Positioned, Staged, AlreadyInstalled, IsInstalled,
         WorkerOnly, At, Goto, Status, dirs, Snapshot, Directories
<1>3. Staged'
  BY ConstantsAssumption, TreeFacts, JobFacts
     DEF Inductive, TypeOK, Positioned, Staged, AlreadyInstalled, IsInstalled,
         WorkerOnly, At, Goto, Status, dirs, Snapshot, Directories
<1>4. Followed'
  BY ConstantsAssumption, TreeFacts, JobFacts
     DEF Inductive, TypeOK, Positioned, Staged, Followed, AlreadyInstalled, IsInstalled,
         WorkerOnly, At, Goto, Status, dirs, Snapshot, Directories, NotYet, Halfway,
         Done, SameCode
<1> QED BY <1>1, <1>2, <1>3, <1>4 DEF Inductive

LEMMA CompletesInterruptedPreserves ==
  ASSUME Inductive, CompletesInterrupted
  PROVE  Inductive'
<1>1. TypeOK'
  BY ConstantsAssumption, TreeFacts, JobFacts
     DEF Inductive, TypeOK, Positioned, Staged, CompletesInterrupted, Interrupted,
         MayComplete, WorkerOnly, At, Goto, Status, dirs, Snapshot, Directories,
         Positions
<1>2. Positioned'
  BY ConstantsAssumption, TreeFacts, JobFacts
     DEF Inductive, TypeOK, Positioned, Staged, CompletesInterrupted, Interrupted,
         MayComplete, WorkerOnly, At, Goto, Status, dirs, Snapshot, Directories
<1>3. Staged'
  BY ConstantsAssumption, TreeFacts, JobFacts
     DEF Inductive, TypeOK, Positioned, Staged, CompletesInterrupted, Interrupted,
         MayComplete, WorkerOnly, At, Goto, Status, dirs, Snapshot, Directories
<1>4. Followed'
  BY ConstantsAssumption, TreeFacts, JobFacts
     DEF Inductive, TypeOK, Positioned, Staged, Followed, CompletesInterrupted,
         Interrupted, MayComplete, WorkerOnly, At, Goto, Status, dirs, Snapshot,
         Directories, NotYet, Halfway, Done, SameCode
<1> QED BY <1>1, <1>2, <1>3, <1>4 DEF Inductive

LEMMA StartsReplacingPreserves ==
  ASSUME Inductive, StartsReplacing
  PROVE  Inductive'
<1>1. TypeOK'
  BY ConstantsAssumption, TreeFacts, JobFacts
     DEF Inductive, TypeOK, Positioned, Staged, StartsReplacing, Interrupted, MayReplace,
         MayReuse, Readable, WorkerOnly, At, Goto, Status, Snapshot, Directories,
         Positions
<1>2. Positioned'
  BY ConstantsAssumption, TreeFacts, JobFacts
     DEF Inductive, TypeOK, Positioned, Staged, StartsReplacing, Interrupted, MayReplace,
         MayReuse, Readable, WorkerOnly, At, Goto, Status, Snapshot, Directories
<1>3. Staged'
  BY ConstantsAssumption, TreeFacts, JobFacts
     DEF Inductive, TypeOK, Positioned, Staged, StartsReplacing, Interrupted, MayReplace,
         MayReuse, Readable, WorkerOnly, At, Goto, Status, Snapshot, Directories
<1>4. Followed'
  BY ConstantsAssumption, TreeFacts, JobFacts
     DEF Inductive, TypeOK, Positioned, Staged, Followed, StartsReplacing, Interrupted,
         MayReplace, MayReuse, Readable, WorkerOnly, At, Goto, Status, Snapshot,
         Directories, NotYet, Halfway, Done, SameCode
<1> QED BY <1>1, <1>2, <1>3, <1>4 DEF Inductive

LEMMA RefusesPreserves ==
  ASSUME Inductive, Refuses
  PROVE  Inductive'
<1>1. ~ At("idle") /\ ~ At("boot") /\ Stopped
  BY Stopping DEF Refuses, At
<1> QED BY <1>1, StoppedPreserves DEF Refuses

LEMMA WriteFilePreserves ==
  ASSUME Inductive, NEW f \in Files, WriteFile(f)
  PROVE  Inductive'
<1>0. /\ job \in Jobs /\ job # None /\ job.status = "running" /\ job.stage = "integration"
      /\ stage \in Trees /\ stage # Missing /\ previous = Missing /\ stage[Unmanaged] = NoFile
      /\ f # Unmanaged /\ f \in Names
      /\ At("write") /\ hacs = FALSE
      /\ \A g \in Files \ todo : stage[g] = job.after[g]
  BY AtWork, TreeFacts, ConstantsAssumption
     DEF WriteFile, At, Inductive, TypeOK, Positioned, Staged, Directories
<1>1. CASE stage' = [stage EXCEPT ![f] = job.after[f]] /\ todo' = todo \ {f} 
         /\ Goto(IF todo' = {} THEN "out" ELSE "write") /\ UNCHANGED <<job, faults>>
  <2>0. /\ stage' \in Trees /\ stage' # Missing /\ stage'[Unmanaged] = NoFile
        /\ \A g \in Files \ todo' : stage'[g] = job.after[g]
        /\ todo' \subseteq Files
    <3>1. job.after[f] \in Contents \cup {NoFile}
      BY <1>0, JobFacts, TreeFacts DEF Trees
    <3>2. stage' \in Trees
      BY <1>0, <1>1, <3>1, TreeFacts
    <3>3. \A g \in Names : stage'[g] = IF g = f THEN job.after[f] ELSE stage[g]
      BY <1>0, <1>1 DEF Trees
    <3> QED BY <1>0, <1>1, <3>2, <3>3, TreeFacts DEF Inductive, TypeOK
  <2>00. todo' = {} => stage' = job.after
    <3> SUFFICES ASSUME todo' = {} PROVE stage' = job.after OBVIOUS
    <3>1. job.after \in Trees /\ job.after[Unmanaged] = NoFile
      BY <1>0, JobFacts, TreeFacts
    <3>2. \A g \in Names : stage'[g] = job.after[g]
      BY <2>0, <3>1 DEF Names
    <3> QED BY <2>0, <3>1, <3>2 DEF Trees
  <2>1. TypeOK'
    BY <1>0, <1>1, <2>0, <2>00, ConstantsAssumption, TreeFacts, JobFacts
       DEF Inductive, TypeOK, Positioned, Staged, WriteFile, WorkerOnly, At, Goto,
           Status, Directories, Positions
  <2>2. Positioned'
    BY <1>0, <1>1, <2>0, <2>00, ConstantsAssumption, TreeFacts, JobFacts
       DEF Inductive, TypeOK, Positioned, Staged, WriteFile, WorkerOnly, At, Goto,
           Status, Directories
  <2>3. Staged'
    BY <1>0, <1>1, <2>0, <2>00, ConstantsAssumption, TreeFacts, JobFacts
       DEF Inductive, TypeOK, Positioned, Staged, WriteFile, WorkerOnly, At, Goto,
           Status, Directories
  <2>4. Followed'
    BY <1>0, <1>1, <2>0, <2>00, ConstantsAssumption, TreeFacts, JobFacts
       DEF Inductive, TypeOK, Positioned, Staged, Followed, WriteFile, WorkerOnly, At,
           Goto, Status, Snapshot, Directories, NotYet, Halfway, Done, SameCode
  <2> QED BY <2>1, <2>2, <2>3, <2>4 DEF Inductive
<1>2. CASE Torn(f) /\ todo' = {} /\ Fails /\ Fault
  <2>0. stage' \in Trees /\ stage' # Missing /\ Stopped
    BY <1>0, <1>2, TreeFacts, Stopping DEF Torn, At
  <2>1. TypeOK'
    BY <1>0, <1>2, <2>0, ConstantsAssumption, TreeFacts, JobFacts
       DEF Inductive, TypeOK, Positioned, Staged, WriteFile, Stopped, WorkerOnly, At,
           Goto, Status, Directories, Positions
  <2>2. Positioned'
    BY <1>0, <1>2, <2>0, ConstantsAssumption, TreeFacts, JobFacts
       DEF Inductive, TypeOK, Positioned, Staged, WriteFile, Stopped, WorkerOnly, At,
           Goto, Status, Directories
  <2>3. Staged'
    BY <1>0, <1>2, <2>0, ConstantsAssumption, TreeFacts, JobFacts
       DEF Inductive, TypeOK, Positioned, Staged, WriteFile, Stopped, WorkerOnly, At,
           Goto, Status, Directories
  <2>4. Followed'
    BY <1>0, <1>2, <2>0, ConstantsAssumption, TreeFacts, JobFacts
       DEF Inductive, TypeOK, Positioned, Staged, Followed, WriteFile, Stopped,
           WorkerOnly, At, Goto, Status, Snapshot, Directories, NotYet, Halfway, Done,
           SameCode
  <2> QED BY <2>1, <2>2, <2>3, <2>4 DEF Inductive
<1> QED BY <1>1, <1>2 DEF WriteFile

LEMMA MoveOutPreserves ==
  ASSUME Inductive, MoveOut
  PROVE  Inductive'
<1>1. TypeOK'
  BY ConstantsAssumption, TreeFacts, JobFacts
     DEF Inductive, TypeOK, Positioned, Staged, MoveOut, SetAside, WorkerOnly, At, Goto,
         Status, Directories, Positions
<1>2. Positioned'
  BY ConstantsAssumption, TreeFacts, JobFacts
     DEF Inductive, TypeOK, Positioned, Staged, MoveOut, SetAside, WorkerOnly, At, Goto,
         Status, Directories
<1>3. Staged'
  BY ConstantsAssumption, TreeFacts, JobFacts
     DEF Inductive, TypeOK, Positioned, Staged, MoveOut, SetAside, WorkerOnly, At, Goto,
         Status, Directories
<1>4. Followed'
  BY ConstantsAssumption, TreeFacts, JobFacts
     DEF Inductive, TypeOK, Positioned, Staged, Followed, MoveOut, SetAside, WorkerOnly,
         At, Goto, Status, Snapshot, Directories, NotYet, Halfway, Done, SameCode
<1> QED BY <1>1, <1>2, <1>3, <1>4 DEF Inductive

LEMMA MoveInPreserves ==
  ASSUME Inductive, MoveIn
  PROVE  Inductive'
<1>1. TypeOK'
  BY ConstantsAssumption, TreeFacts, JobFacts
     DEF Inductive, TypeOK, Positioned, Staged, MoveIn, Free, WorkerOnly, At, Goto,
         Status, Directories, Positions
<1>2. Positioned'
  BY ConstantsAssumption, TreeFacts, JobFacts
     DEF Inductive, TypeOK, Positioned, Staged, MoveIn, Free, WorkerOnly, At, Goto,
         Status, Directories
<1>3. Staged'
  BY ConstantsAssumption, TreeFacts, JobFacts
     DEF Inductive, TypeOK, Positioned, Staged, MoveIn, Free, WorkerOnly, At, Goto,
         Status, Directories
<1>4. Followed'
  BY ConstantsAssumption, TreeFacts, JobFacts
     DEF Inductive, TypeOK, Positioned, Staged, Followed, MoveIn, Free, WorkerOnly, At,
         Goto, Status, Snapshot, Directories, NotYet, Halfway, Done, SameCode
<1> QED BY <1>1, <1>2, <1>3, <1>4 DEF Inductive

LEMMA MoveInRaisesPreserves ==
  ASSUME Inductive, MoveInRaises
  PROVE  Inductive'
<1>1. CASE At("in") /\ Goto("back") /\ UNCHANGED job /\ (Fault \/ (~ Free(target) /\ NoFault))
  <2>1. TypeOK'
    BY <1>1, ConstantsAssumption, TreeFacts, JobFacts
       DEF Inductive, TypeOK, Positioned, Staged, MoveInRaises, Free, Fault, NoFault,
           WorkerOnly, At, Goto, Status, dirs, Directories, Positions
  <2>2. Positioned'
    BY <1>1, ConstantsAssumption, TreeFacts, JobFacts
       DEF Inductive, TypeOK, Positioned, Staged, MoveInRaises, Free, Fault, NoFault,
           WorkerOnly, At, Goto, Status, dirs, Directories
  <2>3. Staged'
    BY <1>1, ConstantsAssumption, TreeFacts, JobFacts
       DEF Inductive, TypeOK, Positioned, Staged, MoveInRaises, Free, Fault, NoFault,
           WorkerOnly, At, Goto, Status, dirs, Directories
  <2>4. Followed'
    BY <1>1, ConstantsAssumption, TreeFacts, JobFacts
       DEF Inductive, TypeOK, Positioned, Staged, Followed, MoveInRaises, Free, Fault,
           NoFault, WorkerOnly, At, Goto, Status, dirs, Snapshot, Directories, NotYet,
           Halfway, Done, SameCode
  <2> QED BY <2>1, <2>2, <2>3, <2>4 DEF Inductive
<1>2. CASE At("again") /\ ~ Free(target) /\ Raises
  <2>1. ~ At("idle") /\ ~ At("boot") /\ Stopped
    BY <1>2, Stopping DEF MoveInRaises, At
  <2>2. UNCHANGED <<dirs, hacs, todo, saw>> /\ WorkerOnly
    BY <1>2 DEF MoveInRaises, dirs
  <2> QED BY <2>1, <2>2, StoppedPreserves
<1> QED BY <1>1, <1>2 DEF MoveInRaises

LEMMA MoveBackPreserves ==
  ASSUME Inductive, MoveBack
  PROVE  Inductive'
<1>0. /\ job \in Jobs /\ job # None /\ job.stage = "integration"
      /\ Stopped /\ At("back") /\ hacs = FALSE
  BY AtWork, Stopping DEF MoveBack, At, Inductive, Positioned, Staged
<1>5. CASE UNCHANGED <<target, previous>>
  BY <1>0, <1>5, StoppedPreserves DEF MoveBack, dirs, At
<1>6. CASE previous # Missing /\ Free(target) /\ target' = previous /\ previous' = Missing
  <2>1. TypeOK'
    BY <1>0, <1>6, ConstantsAssumption, TreeFacts, JobFacts
       DEF Inductive, TypeOK, Positioned, Staged, MoveBack, Stopped, Free, WorkerOnly,
           At, Status, Directories, Positions
  <2>2. Positioned'
    BY <1>0, <1>6, ConstantsAssumption, TreeFacts, JobFacts
       DEF Inductive, TypeOK, Positioned, Staged, MoveBack, Stopped, Free, WorkerOnly,
           At, Status, Directories
  <2>3. Staged'
    BY <1>0, <1>6, ConstantsAssumption, TreeFacts, JobFacts
       DEF Inductive, TypeOK, Positioned, Staged, MoveBack, Stopped, Free, WorkerOnly,
           At, Status, Directories
  <2>4. Followed'
    BY <1>0, <1>6, ConstantsAssumption, TreeFacts, JobFacts
       DEF Inductive, TypeOK, Positioned, Staged, Followed, MoveBack, Stopped, Free,
           WorkerOnly, At, Status, Snapshot, Directories, NotYet, Halfway, Done,
           SameCode
  <2> QED BY <2>1, <2>2, <2>3, <2>4 DEF Inductive
<1> QED BY <1>5, <1>6 DEF MoveBack

LEMMA AdvancePreserves ==
  ASSUME Inductive, Advance
  PROVE  Inductive'
<1>0. /\ job \in Jobs /\ job # None /\ job' \in Jobs /\ job'.status = "running"
      /\ job'.stage = "verify"
      /\ SameCode(job', job) /\ At("advance") /\ job.stage = "integration" /\ job' # None
  <2>1. At("advance") /\ job' = [job EXCEPT !.stage = "verify"]
    BY DEF Advance
  <2>2. job \in Jobs /\ job # None /\ job.status = "running" /\ job.stage = "integration"
    BY <2>1, AtWork DEF At, Inductive, Positioned
  <2>3. /\ job' \in Jobs /\ job'.status = job.status /\ job'.stage = "verify" /\ SameCode(job',
           job)
    BY <2>1, <2>2, StageSaved
  <2> QED BY <2>1, <2>2, <2>3, JobFacts
<1>1. TypeOK'
  BY <1>0, ConstantsAssumption, TreeFacts, JobFacts
     DEF Inductive, TypeOK, Positioned, Staged, Advance, WorkerOnly, At, Goto, Status,
         dirs, Directories, Positions
<1>2. Positioned'
  BY <1>0, ConstantsAssumption, TreeFacts, JobFacts
     DEF Inductive, TypeOK, Positioned, Staged, Advance, WorkerOnly, At, Goto, Status,
         dirs, Directories
<1>3. Staged'
  BY <1>0, ConstantsAssumption, TreeFacts, JobFacts
     DEF Inductive, TypeOK, Positioned, Staged, Advance, WorkerOnly, At, Goto, Status,
         dirs, Directories
<1>4. Followed'
  BY <1>0, ConstantsAssumption, TreeFacts, JobFacts
     DEF Inductive, TypeOK, Positioned, Staged, Followed, Advance, WorkerOnly, At, Goto,
         Status, dirs, Snapshot, Directories, NotYet, Halfway, Done, SameCode
<1> QED BY <1>1, <1>2, <1>3, <1>4 DEF Inductive

LEMMA FinishPreserves ==
  ASSUME Inductive, Finish
  PROVE  Inductive'
<1>1. CASE previous = Missing /\ Goto("success") /\ UNCHANGED <<job, faults>>
  <2>1. TypeOK'
    BY <1>1, ConstantsAssumption, TreeFacts, JobFacts
       DEF Inductive, TypeOK, Positioned, Staged, Finish, WorkerOnly, At, Goto, Status,
           dirs, Directories, Positions
  <2>2. Positioned'
    BY <1>1, ConstantsAssumption, TreeFacts, JobFacts
       DEF Inductive, TypeOK, Positioned, Staged, Finish, WorkerOnly, At, Goto, Status,
           dirs, Directories
  <2>3. Staged'
    BY <1>1, ConstantsAssumption, TreeFacts, JobFacts
       DEF Inductive, TypeOK, Positioned, Staged, Finish, WorkerOnly, At, Goto, Status,
           dirs, Directories
  <2>4. Followed'
    BY <1>1, ConstantsAssumption, TreeFacts, JobFacts
       DEF Inductive, TypeOK, Positioned, Staged, Followed, Finish, WorkerOnly, At,
           Goto, Status, dirs, Snapshot, Directories, NotYet, Halfway, Done, SameCode
  <2> QED BY <2>1, <2>2, <2>3, <2>4 DEF Inductive
<1>2. CASE previous # Missing /\ Readable(previous) /\ Goto("remove") /\ UNCHANGED <<job,
         faults>>
  <2>1. TypeOK'
    BY <1>2, ConstantsAssumption, TreeFacts, JobFacts
       DEF Inductive, TypeOK, Positioned, Staged, Finish, WorkerOnly, At, Goto, Status,
           dirs, Directories, Positions
  <2>2. Positioned'
    BY <1>2, ConstantsAssumption, TreeFacts, JobFacts
       DEF Inductive, TypeOK, Positioned, Staged, Finish, WorkerOnly, At, Goto, Status,
           dirs, Directories
  <2>3. Staged'
    BY <1>2, ConstantsAssumption, TreeFacts, JobFacts
       DEF Inductive, TypeOK, Positioned, Staged, Finish, WorkerOnly, At, Goto, Status,
           dirs, Directories
  <2>4. Followed'
    BY <1>2, ConstantsAssumption, TreeFacts, JobFacts
       DEF Inductive, TypeOK, Positioned, Staged, Followed, Finish, WorkerOnly, At,
           Goto, Status, dirs, Snapshot, Directories, NotYet, Halfway, Done, SameCode
  <2> QED BY <2>1, <2>2, <2>3, <2>4 DEF Inductive
<1>3. CASE previous # Missing /\ ~ Readable(previous) /\ Raises
  <2>1. ~ At("idle") /\ ~ At("boot") /\ Stopped
    BY <1>3, Stopping DEF Finish, At
  <2>2. UNCHANGED <<dirs, hacs, todo, saw>> /\ WorkerOnly
    BY <1>3 DEF Finish, dirs
  <2> QED BY <2>1, <2>2, StoppedPreserves
<1> QED BY <1>1, <1>2, <1>3 DEF Finish

LEMMA RemoveFilePreserves ==
  ASSUME Inductive, NEW f \in Names, RemoveFile(f)
  PROVE  Inductive'
<1>1. TypeOK'
  BY ConstantsAssumption, TreeFacts, JobFacts
     DEF Inductive, TypeOK, Positioned, Staged, RemoveFile, WorkerOnly, At, Status,
         Directories, Positions
<1>2. Positioned'
  BY ConstantsAssumption, TreeFacts, JobFacts
     DEF Inductive, TypeOK, Positioned, Staged, RemoveFile, WorkerOnly, At, Status,
         Directories
<1>3. Staged'
  BY ConstantsAssumption, TreeFacts, JobFacts
     DEF Inductive, TypeOK, Positioned, Staged, RemoveFile, WorkerOnly, At, Status,
         Directories
<1>4. Followed'
  BY ConstantsAssumption, TreeFacts, JobFacts
     DEF Inductive, TypeOK, Positioned, Staged, Followed, RemoveFile, WorkerOnly, At,
         Status, Snapshot, Directories, NotYet, Halfway, Done, SameCode
<1> QED BY <1>1, <1>2, <1>3, <1>4 DEF Inductive

LEMMA RemoveDirectoryPreserves ==
  ASSUME Inductive, RemoveDirectory
  PROVE  Inductive'
<1>1. TypeOK'
  BY ConstantsAssumption, TreeFacts, JobFacts
     DEF Inductive, TypeOK, Positioned, Staged, RemoveDirectory, WorkerOnly, At, Goto,
         Status, Directories, Positions
<1>2. Positioned'
  BY ConstantsAssumption, TreeFacts, JobFacts
     DEF Inductive, TypeOK, Positioned, Staged, RemoveDirectory, WorkerOnly, At, Goto,
         Status, Directories
<1>3. Staged'
  BY ConstantsAssumption, TreeFacts, JobFacts
     DEF Inductive, TypeOK, Positioned, Staged, RemoveDirectory, WorkerOnly, At, Goto,
         Status, Directories
<1>4. Followed'
  BY ConstantsAssumption, TreeFacts, JobFacts
     DEF Inductive, TypeOK, Positioned, Staged, Followed, RemoveDirectory, WorkerOnly,
         At, Goto, Status, Snapshot, Directories, NotYet, Halfway, Done, SameCode
<1> QED BY <1>1, <1>2, <1>3, <1>4 DEF Inductive

LEMMA SucceedPreserves ==
  ASSUME Inductive, Succeed
  PROVE  Inductive'
<1>0. /\ job \in Jobs /\ job # None /\ job' \in Jobs /\ job'.status = "success"
      /\ job'.stage = "verify"
      /\ SameCode(job', job) /\ At("success") /\ job.stage = "verify" /\ job' # None
      /\ hacs = FALSE
  <2>1. At("success") /\ job' = [job EXCEPT !.status = "success"]
    BY DEF Succeed
  <2>2. job \in Jobs /\ job # None /\ job.stage = "verify" /\ hacs = FALSE
    BY <2>1, AtWork DEF At, Inductive, TypeOK, Positioned, Staged
  <2>3. /\ job' \in Jobs /\ job'.status = "success" /\ job'.stage = job.stage /\ SameCode(job',
           job)
    BY <2>1, <2>2, StatusSaved
  <2> QED BY <2>1, <2>2, <2>3, JobFacts
<1>1. TypeOK'
  BY <1>0, ConstantsAssumption, TreeFacts, JobFacts
     DEF Inductive, TypeOK, Positioned, Staged, Succeed, WorkerOnly, At, Goto, Status,
         dirs, Directories, Positions
<1>2. Positioned'
  BY <1>0, ConstantsAssumption, TreeFacts, JobFacts
     DEF Inductive, TypeOK, Positioned, Staged, Succeed, WorkerOnly, At, Goto, Status,
         dirs, Directories
<1>3. Staged'
  BY <1>0, ConstantsAssumption, TreeFacts, JobFacts
     DEF Inductive, TypeOK, Positioned, Staged, Succeed, WorkerOnly, At, Goto, Status,
         dirs, Directories
<1>4. Followed'
  BY <1>0, ConstantsAssumption, TreeFacts, JobFacts
     DEF Inductive, TypeOK, Positioned, Staged, Followed, Succeed, WorkerOnly, At, Goto,
         Status, dirs, Snapshot, Directories, NotYet, Halfway, Done, SameCode
<1> QED BY <1>1, <1>2, <1>3, <1>4 DEF Inductive

LEMMA HacsUpdatesPreserves ==
  ASSUME Inductive, NEW code \in Releases, HacsUpdates(code)
  PROVE  Inductive'
<1>1. TypeOK'
  BY ConstantsAssumption, TreeFacts, JobFacts
     DEF Inductive, TypeOK, Positioned, Staged, HacsUpdates, Changes, At, Status,
         Directories, Positions
<1>2. Positioned'
  BY ConstantsAssumption, TreeFacts, JobFacts
     DEF Inductive, TypeOK, Positioned, Staged, HacsUpdates, Changes, At, Status,
         Directories
<1>3. Staged'
  BY ConstantsAssumption, TreeFacts, JobFacts
     DEF Inductive, TypeOK, Positioned, Staged, HacsUpdates, Changes, At, Status,
         Directories
<1>4. Followed'
  BY ConstantsAssumption, TreeFacts, JobFacts
     DEF Inductive, TypeOK, Positioned, Staged, Followed, HacsUpdates, Changes, At,
         Status, Snapshot, Directories, NotYet, Halfway, Done, SameCode
<1> QED BY <1>1, <1>2, <1>3, <1>4 DEF Inductive

LEMMA UserEditsPreserves ==
  ASSUME Inductive, NEW code \in Directories, UserEdits(code)
  PROVE  Inductive'
<1>1. TypeOK'
  BY ConstantsAssumption, TreeFacts, JobFacts
     DEF Inductive, TypeOK, Positioned, Staged, UserEdits, Changes, At, Status, Snapshot,
         Directories, Positions
<1>2. Positioned'
  BY ConstantsAssumption, TreeFacts, JobFacts
     DEF Inductive, TypeOK, Positioned, Staged, UserEdits, Changes, At, Status, Snapshot,
         Directories
<1>3. Staged'
  BY ConstantsAssumption, TreeFacts, JobFacts
     DEF Inductive, TypeOK, Positioned, Staged, UserEdits, Changes, At, Status, Snapshot,
         Directories
<1>4. Followed'
  BY ConstantsAssumption, TreeFacts, JobFacts
     DEF Inductive, TypeOK, Positioned, Staged, Followed, UserEdits, Changes, At, Status,
         Snapshot, Directories, NotYet, Halfway, Done, SameCode
<1> QED BY <1>1, <1>2, <1>3, <1>4 DEF Inductive

LEMMA StutterPreserves ==
  ASSUME Inductive, UNCHANGED vars
  PROVE  Inductive'
<1>1. UNCHANGED <<target, stage, previous, hacs, job, pc, todo, saw, touched, jobs, edits,
         faults>>
  BY DEF vars, dirs, bounds
<1> QED BY <1>1 DEF Inductive, TypeOK, Positioned, Staged, Followed, NotYet, Halfway, Done,
           Snapshot, Status, At

LEMMA NextPreserves ==
  ASSUME Inductive, [Next]_vars
  PROVE  Inductive'
<1>1. CASE Worker
  BY <1>1, TakeOverPreserves, ConfirmTakeoverPreserves, AlreadyInstalledPreserves,
     CompletesInterruptedPreserves, StartsReplacingPreserves, RefusesPreserves,
     WriteFilePreserves, MoveOutPreserves, MoveInPreserves, MoveInRaisesPreserves,
     MoveBackPreserves, AdvancePreserves, FinishPreserves, RemoveFilePreserves,
     RemoveDirectoryPreserves, SucceedPreserves DEF Worker
<1>2. CASE \/ \E after \in Releases : Approve(after)
           \/ Recover \/ Resume \/ Crash \/ CallRaises
           \/ \E code \in Releases : HacsUpdates(code)
           \/ \E code \in Directories : UserEdits(code)
  BY <1>2, ApprovePreserves, RecoverPreserves, ResumePreserves, CrashPreserves,
     CallRaisesPreserves, HacsUpdatesPreserves, UserEditsPreserves
<1> QED BY <1>1, <1>2, StutterPreserves DEF Next

LEMMA InitInductive == Init => Inductive
BY ConstantsAssumption, TreeFacts, JobFacts
   DEF Init, Inductive, TypeOK, Positioned, Staged, Followed, Directories, Positions, Status, At

(* The inductive invariant.                                                *)
THEOREM Invariance == Spec => []Inductive
BY InitInductive, NextPreserves, PTL DEF Spec

(* The reviewed code is kept until the job is being finished.              *)
THEOREM KeepsOldCode == Spec => []OldCodeKept
<1>1. Inductive => OldCodeKept
  BY TreeFacts, JobFacts DEF Inductive, TypeOK, Followed, NotYet, Halfway, Done, OldCodeKept,
     Installing, Unfinished, Status, Snapshot
<1> QED BY <1>1, Invariance, PTL

(* HA never finds half of a release.                                       *)
THEOREM InstallsWhole == Spec => []NeverHalfInstalled
<1>1. Inductive => NeverHalfInstalled
  BY TreeFacts, JobFacts DEF Inductive, TypeOK, Followed, NotYet, Halfway, Done,
     NeverHalfInstalled, Snapshot
<1> QED BY <1>1, Invariance, PTL

(* A job that succeeded has installed the approved code and cleaned up.    *)
THEOREM SuccessInstalls == Spec => []SuccessMeansInstalled
<1>1. Inductive => SuccessMeansInstalled
  BY DEF Inductive, Positioned, Staged, Followed, Done, SuccessMeansInstalled, Status
<1> QED BY <1>1, Invariance, PTL

-----------------------------------------------------------------------------
(* The refinement: each step is one of AtomicInstall's or changes nothing. *)

AtomicStep == [Atomic!Next]_(Atomic!vars)

Same == Code' = Code /\ Plan' = Plan /\ edits' = edits

LEMMA CodeIsTree == Inductive => Code \in Trees
BY TreeFacts DEF Inductive, TypeOK, Code, Between, Snapshot, Directories

LEMMA PlanIs ==
  ASSUME Inductive, job # None
  PROVE  Plan.before = job.before /\ Plan.after = job.after /\ Plan # None
<1>1. job.before \in Trees /\ job.after \in Trees
  BY JobFacts, TreeFacts DEF Inductive, TypeOK
<1> QED BY <1>1, ConstantsAssumption DEF Plan

LEMMA Waits ==
  ASSUME Same, Looked' = Looked \/ ~ Looked'
  PROVE  AtomicStep
BY DEF AtomicStep, Same, Atomic!Next, Atomic!vars, Atomic!GiveUp, Looked

LEMMA Looks ==
  ASSUME Inductive, Same, Looked', job # None, Code = job.before
  PROVE  AtomicStep
BY PlanIs DEF AtomicStep, Same, Atomic!Next, Atomic!Look, Looked

LEMMA Installs ==
  ASSUME Inductive, job # None, Looked, ~ Looked', Code' = job.after, Plan' = Plan,
         edits' = edits
  PROVE  AtomicStep
BY PlanIs DEF AtomicStep, Atomic!Next, Atomic!Install, Looked

LEMMA IsPutBack ==
  ASSUME Inductive, job # None, ~ Looked', Code = Empty, Code' = job.before, Plan' = Plan,
         edits' = edits
  PROVE  AtomicStep
BY PlanIs DEF AtomicStep, Atomic!Next, Atomic!PutBack, Looked

LEMMA SamePlan ==
  ASSUME job # None, job' # None, SameCode(job', job)
  PROVE  Plan' = Plan
BY DEF Plan, SameCode

(* The job stays in its stage and no directory changes: neither does the   *)
(* code, unless an attempt that had found the approved code is given up    *)
(* after the code was deleted.                                             *)
LEMMA NothingMoves ==
  ASSUME Inductive, UNCHANGED dirs, edits' = edits, job # None, job' # None,
         SameCode(job', job), job'.stage = job.stage, Looked' = Looked \/ ~ Looked',
         ~ At("advance")' \/ ~ Free(target)
  PROVE  AtomicStep
<1>1. Plan' = Plan
  BY SamePlan
<1>2. CASE Code' = Code
  BY <1>1, <1>2, Waits DEF Same
<1>3. CASE Code' # Code
  <2>1. At("advance") /\ job.stage = "integration" /\ Free(target) /\ previous # Missing /\
           stage # Missing
        /\ ~ At("advance")'
    BY <1>3 DEF Code, Between, dirs, Free, Snapshot
  <2>2. Code = Empty /\ Code' = job.before
    BY <2>1 DEF Code, Between, dirs, Free, Snapshot, Inductive, Staged
  <2>3. ~ Looked'
    BY <2>1 DEF Looked, At
  <2> QED BY <1>1, <2>2, <2>3, IsPutBack
<1> QED BY <1>2, <1>3

LEMMA StoppedIsAtomic ==
  ASSUME Inductive, ~ At("idle"), ~ At("boot"), Stopped, UNCHANGED dirs, WorkerOnly
  PROVE  AtomicStep
<1>1. job # None /\ job' # None /\ ~ Looked' /\ ~ At("advance")'
  BY AtWork, JobFacts DEF Stopped, Looked, At
<1> QED BY <1>1, NothingMoves DEF Stopped, WorkerOnly

LEMMA RequestIsAtomic ==
  ASSUME Inductive, (\E after \in Releases : Approve(after)) \/ Recover \/ Resume \/ Crash
  PROVE  AtomicStep
<1>1. ASSUME NEW after \in Releases, Approve(after) PROVE AtomicStep
  <2>1. /\ job' = [status |-> "running", stage |-> "integration", before |-> Snapshot(target),
                   after |-> after]
        /\ UNCHANGED dirs /\ edits' = edits /\ ~ Looked'
    BY <1>1 DEF Approve, Looked, Goto
  <2>2. job' \in Jobs /\ job' # None
    BY <2>1, TreeFacts, JobFacts DEF Jobs, Inductive, TypeOK, Snapshot, Directories
  <2>3. previous = Missing /\ ~ Between /\ ~ Between'
    BY <1>1, <2>1 DEF Approve, Inductive, Positioned, Staged, Status, Between, dirs
  <2>4. Code' = Code /\ Code = Snapshot(target)
    BY <2>1, <2>3 DEF Code, dirs, Snapshot
  <2>5. Plan' = [before |-> Code, after |-> after]
    BY <2>1, <2>2, <2>4 DEF Plan
  <2>6. Atomic!Approve(after)
    BY <2>1, <2>4, <2>5 DEF Atomic!Approve, Looked
  <2> QED BY <2>6, TreeFacts DEF AtomicStep, Atomic!Next
<1>2. CASE Recover
  <2>1. UNCHANGED <<dirs, job, edits>> /\ ~ Looked' /\ ~ At("advance") /\ ~ At("advance")'
    BY <1>2 DEF Recover, bounds, Looked, At, Goto, Entry
  <2>2. CASE job = None
    BY <2>1, <2>2, Waits DEF Same, Code, Between, Plan, dirs, Snapshot
  <2> QED BY <2>1, <2>2, NothingMoves DEF SameCode
<1>3. CASE Resume
  <2>1. job \in Jobs /\ job # None /\ job' = [job EXCEPT !.status = "running"]
    BY <1>3 DEF Resume, Status, Inductive, TypeOK
  <2>2. job' \in Jobs /\ job'.stage = job.stage /\ SameCode(job', job)
    BY <2>1, StatusSaved
  <2>3. job' # None
    BY <2>2, JobFacts
  <2>4. UNCHANGED <<dirs, edits>> /\ ~ Looked' /\ ~ At("advance")'
    BY <1>3 DEF Resume, bounds, Looked, At, Goto, Entry
  <2> QED BY <2>1, <2>2, <2>3, <2>4, NothingMoves
<1>4. CASE Crash
  <2>1. UNCHANGED <<target, previous, job, edits>> /\ ~ Looked' /\ ~ At("advance")'
    BY <1>4 DEF Crash, WorkerOnly, Goto, Looked, At
  <2>2. CASE stage' = stage
    <3>1. CASE job = None
      BY <2>1, <2>2, <3>1, Waits DEF Same, Code, Between, Plan, Snapshot
    <3> QED BY <2>1, <2>2, <3>1, NothingMoves DEF SameCode, dirs
  <2>3. CASE At("write")
    BY <2>1, <2>3, Waits DEF Inductive, Staged, Same, Code, Between, Plan, Snapshot
  <2> QED BY <1>4, <2>2, <2>3 DEF Crash
<1> QED BY <1>1, <1>2, <1>3, <1>4

LEMMA WorkerIsAtomic ==
  ASSUME Inductive, Worker \/ CallRaises
  PROVE  AtomicStep
<1>1. CASE CallRaises
  <2>1. ~ At("idle") /\ ~ At("boot") /\ Stopped
    BY <1>1, Stopping DEF CallRaises, At
  <2> QED BY <1>1, <2>1, StoppedIsAtomic DEF CallRaises
<1>2. ASSUME At("takeover") \/ At("removed") \/ At("look") \/ At("finish") \/ At("in") \/
         At("again"),
             UNCHANGED dirs, WorkerOnly, UNCHANGED job, ~ Looked' /\ ~ At("advance")'
      PROVE  AtomicStep
  <2>1. job # None
    BY <1>2, AtWork DEF At
  <2> QED BY <1>2, <2>1, NothingMoves DEF WorkerOnly, SameCode
<1>3. ASSUME At("takeover") \/ At("removed") \/ At("look") \/ At("finish") \/ At("again"),
             UNCHANGED dirs, WorkerOnly, Raises \/ (Fails /\ Fault)
      PROVE  AtomicStep
  <2>1. ~ At("idle") /\ ~ At("boot")
    BY <1>3 DEF At
  <2> QED BY <1>3, <2>1, Stopping, StoppedIsAtomic
<1>4. CASE TakeOver
  BY <1>2, <1>3, <1>4 DEF TakeOver, dirs, Looked, At, Goto
<1>5. CASE ConfirmTakeover
  BY <1>2, <1>3, <1>5 DEF ConfirmTakeover, dirs, Looked, At, Goto
<1>6. CASE AlreadyInstalled
  <2>1. UNCHANGED <<dirs, job, edits>> /\ ~ Looked' /\ job # None /\ job \in Jobs
    BY <1>6, AtWork DEF AlreadyInstalled, WorkerOnly, Looked, Goto, At
  <2>2. ~ Free(target)
    BY <1>6, <2>1, JobFacts, TreeFacts DEF AlreadyInstalled, IsInstalled, Snapshot, Free
  <2> QED BY <2>1, <2>2, NothingMoves DEF SameCode
<1>7. CASE CompletesInterrupted
  <2>1. UNCHANGED <<dirs, job, edits>> /\ Looked' /\ job # None /\ job \in Jobs
        /\ ~ At("advance") /\ ~ At("advance")' /\ job.stage = "integration"
    BY <1>7, AtWork
       DEF CompletesInterrupted, WorkerOnly, Looked, Goto, At, Inductive, Positioned
  <2>2. Code = job.before /\ Same
    BY <1>7, <2>1, JobFacts, TreeFacts DEF CompletesInterrupted, Interrupted, MayComplete,
       Code, Between, Free, Same, Plan, dirs, Snapshot
  <2> QED BY <2>1, <2>2, Looks
<1>8. CASE StartsReplacing
  <2>1. /\ UNCHANGED <<target, previous, job, edits>> /\ Looked' /\ job # None
        /\ previous = Missing /\ Snapshot(target) = job.before
    BY <1>8, AtWork DEF StartsReplacing, MayReplace, WorkerOnly, Looked, Goto, At
  <2>2. Code = job.before /\ Same
    BY <2>1 DEF Code, Between, Same, Plan, Snapshot
  <2> QED BY <2>1, <2>2, Looks
<1>9. CASE Refuses
  BY <1>3, <1>9 DEF Refuses
<1>10. ASSUME NEW f \in Files, WriteFile(f) PROVE AtomicStep
  <2>1. ~ At("idle") /\ ~ At("boot") /\ At("write") /\ Looked /\ previous = Missing
    BY <1>10 DEF WriteFile, At, Looked, Inductive, Staged
  <2>2. job # None /\ job' # None /\ SameCode(job', job)
    BY <1>10, <2>1, AtWork, Stopping, JobFacts DEF WriteFile, Stopped, SameCode
  <2>3. Looked' \/ ~ Looked'
    OBVIOUS
  <2>4. Same
    BY <1>10, <2>1, <2>2, SamePlan DEF WriteFile, Same, Code, Between, Snapshot, WorkerOnly
  <2> QED BY <2>1, <2>4, Waits DEF Looked
<1>11. CASE MoveOut
  <2>1. /\ At("out") /\ target' = Missing /\ previous' = target /\ previous = Missing
        /\ UNCHANGED <<stage, job, edits>> /\ Looked /\ Looked'
        /\ ~ At("advance")' /\ job # None /\ job \in Jobs
        /\ job.stage = "integration" /\ stage = job.after
    BY <1>11, AtWork
       DEF MoveOut, SetAside, WorkerOnly, Looked, At, Goto, Inductive, Positioned,
           Staged
  <2>2. Same
    BY <2>1, JobFacts, TreeFacts DEF Same, Code, Between, Free, Plan, Snapshot
  <2> QED BY <2>1, <2>2, Waits DEF Looked
<1>12. CASE MoveIn
  <2>1. /\ Looked /\ ~ Looked' /\ job # None /\ job \in Jobs
        /\ target' = job.after /\ stage' = Missing /\ UNCHANGED <<job, edits>>
    BY <1>12, AtWork DEF MoveIn, WorkerOnly, Looked, At, Goto, Inductive, Staged
  <2>2. Code' = job.after /\ Plan' = Plan
    BY <2>1, JobFacts, TreeFacts DEF Code, Between, Plan, Snapshot
  <2> QED BY <2>1, <2>2, Installs
<1>13. CASE MoveInRaises
  BY <1>2, <1>3, <1>13 DEF MoveInRaises, dirs, Looked, At, Goto
<1>14. CASE MoveBack
  <2>1. /\ ~ At("idle") /\ ~ At("boot") /\ At("back") /\ Stopped /\ ~ At("advance") /\ ~ Looked'
        /\ ~ At("advance")'
    BY <1>14, Stopping DEF MoveBack, At, Looked, Stopped
  <2>2. CASE UNCHANGED <<target, previous>>
    BY <1>14, <2>1, <2>2, StoppedIsAtomic DEF MoveBack, dirs
  <2>3. CASE previous # Missing /\ Free(target) /\ target' = previous /\ previous' = Missing
    <3>1. job # None /\ job \in Jobs /\ job' # None /\ job.stage = "integration"
          /\ stage = job.after
      BY <2>1, AtWork, JobFacts DEF Stopped, Inductive, Positioned, Staged, At
    <3>2. Code' = Code
      BY <2>1, <2>3, <3>1, JobFacts, TreeFacts DEF Code, Between, Snapshot
    <3>3. Plan' = Plan /\ edits' = edits
      BY <1>14, <2>1, <3>1, SamePlan DEF Stopped, MoveBack, WorkerOnly
    <3> QED BY <2>1, <3>2, <3>3, Waits DEF Same
  <2> QED BY <1>14, <2>2, <2>3 DEF MoveBack
<1>15. CASE Advance
  <2>1. At("advance") /\ UNCHANGED <<dirs, edits>> /\ job' = [job EXCEPT !.stage = "verify"] /\
           ~ Looked'
    BY <1>15 DEF Advance, WorkerOnly, Looked, Goto
  <2>2. job \in Jobs /\ job # None
    BY <2>1, AtWork DEF At
  <2>3. job' \in Jobs /\ job'.stage = "verify" /\ SameCode(job', job)
    BY <2>1, <2>2, StageSaved
  <2>4. job' # None
    BY <2>3, JobFacts
  <2>5. Same
    BY <2>1, <2>2, <2>3, <2>4, SamePlan DEF Same, Code, Between, dirs, Snapshot
  <2> QED BY <2>1, <2>5, Waits
<1>16. CASE Finish
  BY <1>2, <1>3, <1>16 DEF Finish, dirs, Looked, At, Goto
<1>17. ASSUME At("remove"), UNCHANGED <<target, job, edits>>, ~ Looked', ~ At("advance")'
       PROVE  AtomicStep
  <2>1. job # None /\ job.stage = "verify"
    BY <1>17, AtWork DEF At, Inductive, Positioned
  <2> QED BY <1>17, <2>1, Waits DEF Same, Code, Between, Plan, Snapshot
<1>18. ASSUME NEW f \in Names, RemoveFile(f) PROVE AtomicStep
  BY <1>17, <1>18 DEF RemoveFile, WorkerOnly, Looked, At
<1>19. CASE RemoveDirectory
  BY <1>17, <1>19 DEF RemoveDirectory, WorkerOnly, Looked, At, Goto
<1>20. CASE Succeed
  <2>1. At("success") /\ UNCHANGED <<dirs, edits>> /\ job' = [job EXCEPT !.status = "success"]
           /\ ~ Looked'
    BY <1>20 DEF Succeed, WorkerOnly, Looked, Goto
  <2>2. job \in Jobs /\ job # None /\ job.stage = "verify"
    BY <2>1, AtWork DEF At, Inductive, Positioned
  <2>3. job' \in Jobs /\ job'.stage = "verify" /\ SameCode(job', job)
    BY <2>1, <2>2, StatusSaved
  <2>4. job' # None
    BY <2>3, JobFacts
  <2>5. Same
    BY <2>1, <2>2, <2>3, <2>4, SamePlan DEF Same, Code, Between, dirs, Snapshot
  <2> QED BY <2>1, <2>5, Waits
<1> QED BY <1>1, <1>4, <1>5, <1>6, <1>7, <1>8, <1>9, <1>10, <1>11, <1>12, <1>13, <1>14, <1>15,
           <1>16, <1>18, <1>19, <1>20 DEF Worker

LEMMA OutsideIsAtomic ==
  ASSUME Inductive, Inductive', NEW who, NEW code \in Directories, Changes(who, code)
  PROVE  AtomicStep
<1>1. Code' \in Trees
  BY CodeIsTree, TreeFacts DEF Inductive, TypeOK, Code, Between, Snapshot, Directories
<1>2. edits' = edits + 1 /\ Plan' = Plan /\ Looked' = Looked
  BY DEF Changes, Plan, Looked
<1> QED BY <1>1, <1>2 DEF AtomicStep, Atomic!Next, Atomic!FromOutside, Looked

(* With all its directory operations, stops and failures, an installation  *)
(* is one step from the reviewed to the approved code.                     *)
THEOREM ImplementsAtomicInstall == Spec => AtomicInstallSpec
<1>1. Init => Atomic!Init
  BY ConstantsAssumption, TreeFacts
     DEF Init, Atomic!Init, Code, Between, Snapshot, Plan, Looked
<1>2. Inductive /\ Inductive' /\ [Next]_vars => AtomicStep
  <2> SUFFICES ASSUME Inductive, Inductive', [Next]_vars PROVE AtomicStep
    OBVIOUS
  <2>1. CASE UNCHANGED vars
    BY <2>1, Waits DEF vars, dirs, bounds, Same, Code, Between, Plan, Looked, At, Snapshot, Free
  <2>2. CASE Worker \/ CallRaises
    BY <2>2, WorkerIsAtomic
  <2>3. CASE (\E after \in Releases : Approve(after)) \/ Recover \/ Resume \/ Crash
    BY <2>3, RequestIsAtomic
  <2>4. CASE \/ \E code \in Releases : HacsUpdates(code)
             \/ \E code \in Directories : UserEdits(code)
    BY <2>4, OutsideIsAtomic, TreeFacts DEF HacsUpdates, UserEdits, Directories
  <2> QED BY <2>1, <2>2, <2>3, <2>4 DEF Next
<1> QED BY <1>1, <1>2, Invariance, PTL DEF Spec, AtomicInstallSpec, Atomic!Spec, AtomicStep
=============================================================================
