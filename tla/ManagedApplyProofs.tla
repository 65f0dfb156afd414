------------------------ MODULE ManagedApplyProofs -------------------------
(***************************************************************************)
(* Theorems about ManagedApply, for every set of files, contents and       *)
(* faults and every bound.                                                 *)
(***************************************************************************)
EXTENDS ManagedApply, TLAPS

(* A step that leaves the job's files alone.                               *)
FilesKept(k, j) ==
    /\ k.planned = j.planned /\ k.backup = j.backup /\ k.written = j.written
    /\ k.unrestored = j.unrestored /\ k.touched = j.touched /\ k.reported = j.reported
NotesKept(k, j) == k.created = j.created /\ k.lost = j.lost

(* What a job in progress is.                                              *)
LEMMA JobFields ==
    ASSUME NEW j \in Jobs
    PROVE  /\ j.pc \in PCs /\ j.said \subseteq Reports
           /\ j.planned \subseteq Files /\ j.written \subseteq Files
           /\ j.unrestored \subseteq Files /\ j.touched \subseteq Files
           /\ j.reported \subseteq Files
           /\ j.backup \in UNION {[S -> Values] : S \in SUBSET Files}
           /\ j.bust \subseteq Modules /\ j.modules \subseteq Modules
           /\ j.created \subseteq Resources /\ j.lost \subseteq Resources
BY DEF Jobs

LEMMA BackupFields ==
    ASSUME NEW b \in UNION {[S -> Values] : S \in SUBSET Files}
    PROVE  b \in [DOMAIN b -> Values] /\ DOMAIN b \subseteq Files
OBVIOUS

(* Changing the position of a job.                                         *)
LEMMA Moved ==
    ASSUME NEW j \in Jobs, NEW p \in PCs
    PROVE  LET k == [j EXCEPT !.pc = p]
           IN  /\ k \in Jobs /\ k.pc = p /\ k.said = j.said /\ k.bust = j.bust
               /\ FilesKept(k, j) /\ NotesKept(k, j)
BY DEF Jobs, FilesKept, NotesKept

LEMMA RollingBack ==
    ASSUME NEW j \in Jobs, RollsBack(j)
    PROVE  /\ job' \in Jobs /\ job'.pc = AfterRestore(j)
           /\ job'.said = IF j.written = {} THEN j.said \cup {"rolled back"} ELSE j.said
           /\ FilesKept(job', j) /\ NotesKept(job', j)
BY DEF RollsBack, AfterRestore, Jobs, PCs, Reports, FilesKept, NotesKept

(* Whatever starts or continues the rollback, the job stays in order if    *)
(* what remains of it does.                                                *)
LEMMA RollbackInOrder ==
    ASSUME NEW j \in Jobs, RollsBack(j), UNCHANGED form,
           j.said = {},
           j.planned \cup j.written \subseteq DOMAIN j.backup,
           (j.planned \cup j.unrestored) \cap j.written = {},
           \A f \in j.planned \cup j.written : form.git[f] # Absent,
           \A f \in Files : f \in j.written => form.git[f] \in seen'[f],
           \A f \in Files : f \in j.written \ j.touched => live'[f] = form.git[f],
           \A f \in Files :
               f \in DOMAIN j.backup \ (j.written \cup j.unrestored \cup j.touched) =>
                   live'[f] = j.backup[f]
    PROVE  InOrder' /\ Followed'
<1>1. /\ FilesKept(job', j)
      /\ job'.said = IF j.written = {} THEN {"rolled back"} ELSE {}
      /\ job'.pc = AfterRestore(j)
  BY RollingBack
<1>2. /\ job'.pc \in {"rollback", "reload", "list"}
      /\ job'.pc = "rollback" => j.written # {}
  BY <1>1 DEF AfterRestore
<1>3. /\ job'.pc \notin Writing \cup {"write", "packages", "others", "bust"}
      /\ job'.pc = "rollback" => job'.said = {}
      /\ ~ GoingWell'
      /\ "rolled back" \in job'.said => j.written = {}
      /\ job'.pc = "reload" => "rolled back" \in job'.said
  <2>1. job'.pc \notin Writing \cup {"write", "packages", "others", "bust"}
    BY <1>2 DEF Writing
  <2>2. CASE j.written = {}
    <3>1. job'.said = {"rolled back"} /\ job'.pc # "rollback"
      BY <1>1, <1>2, <2>2
    <3> QED BY <2>1, <2>2, <3>1 DEF GoingWell
  <2>3. CASE j.written # {}
    BY <1>1, <2>1, <2>3 DEF GoingWell, AfterRestore
  <2> QED BY <2>2, <2>3
<1>4. InOrder'
  BY <1>1, <1>3 DEF InOrder, FilesKept
<1>5. Followed'
  BY <1>1, <1>2, <1>3 DEF Followed, FilesKept
<1> QED BY <1>4, <1>5

(* A step of the resources or the dashboards: it may report a failure.     *)
After == {"resources", "undo", "dashboards", "unwind"}
LaterStep ==
    /\ job' \in Jobs /\ job'.pc \in After /\ FilesKept(job', job)
    /\ job'.said \in {job.said, job.said \cup {"resources failed"}}

LEMMA LaterInOrder ==
    ASSUME Inductive, job # NoJob, job.pc \in After \cup {"list"},
           LaterStep \/ Aborts,
           UNCHANGED <<live, loaded, seen, bases, form>>
    PROVE  InOrder' /\ Followed' /\ LiveWasSeen' /\ BasesWereLive'
<1>1. LiveWasSeen' /\ BasesWereLive'
  BY DEF Inductive, LiveWasSeen, BasesWereLive
<1>2. CASE Aborts
  BY <1>1, <1>2 DEF Aborts, InOrder, Followed
<1>3. CASE LaterStep
  <2>1. /\ job'.pc \notin Writing
        /\ job'.pc \notin {"rollback", "others", "reload", "write", "packages", "bust"}
        /\ job.pc \notin Writing
        /\ "rolled back" \in job'.said <=> "rolled back" \in job.said
        /\ GoingWell' <=> GoingWell
    BY <1>3 DEF LaterStep, After, Writing, GoingWell
  <2>2. InOrder'
    BY <1>3, <2>1 DEF LaterStep, FilesKept, Inductive, InOrder, Writing
  <2>3. Followed'
    BY <1>3, <2>1 DEF LaterStep, FilesKept, Inductive, Followed
  <2> QED BY <1>1, <2>2, <2>3
<1> QED BY <1>2, <1>3

(* The end of a job, whatever it leaves.                                   *)
LEMMA Ending ==
    ASSUME Inductive, Aborts, UNCHANGED <<resources, git, head, applies, edits>>,
           form' \in {form, NoForm},
           live' \in [Files -> Values], loaded' \in [Loadable -> Values],
           seen' \in [Files -> SUBSET Values], LiveWasSeen',
           bases' \in [Files -> Contents \cup {NoBase}], BasesWereLive'
    PROVE  Inductive'
<1>1. TypeOK'
  BY DEF Inductive, TypeOK, Aborts
<1>2. InOrder' /\ Followed' /\ Owned'
  BY DEF Inductive, InOrder, Followed, Owned, Aborts
<1> QED BY <1>1, <1>2 DEF Inductive

LEMMA InJob ==
    ASSUME Inductive, job # NoJob
    PROVE  /\ job \in Jobs /\ form # NoForm
           /\ form.live \in [Files -> Values] /\ form.git \in [Files -> Values]
           /\ \A f \in job.planned \cup job.written : form.git[f] \in Contents
<1>1. /\ job \in Jobs /\ form # NoForm
      /\ form.live \in [Files -> Values] /\ form.git \in [Files -> Values]
  BY DEF Inductive, TypeOK
<1>2. \A f \in job.planned \cup job.written : f \in Files /\ form.git[f] # Absent
  BY <1>1, JobFields DEF Inductive, InOrder
<1> QED BY <1>1, <1>2 DEF Values

LEMMA StillOwned ==
    ASSUME Inductive, UNCHANGED <<resources, applies>>,
           job' = NoJob \/ (job # NoJob /\ NotesKept(job', job))
    PROVE  Owned'
BY DEF Inductive, Owned, NotesKept

(* A file that is written, restored or edited.                             *)
LEMMA LiveSet ==
    ASSUME Inductive, NEW f \in Files, NEW c \in Values, SetLive(f, c)
    PROVE  /\ live' \in [Files -> Values] /\ seen' \in [Files -> SUBSET Values]
           /\ live'[f] = c /\ c \in seen'[f]
           /\ \A g \in Files \ {f} : live'[g] = live[g]
           /\ \A g \in Files : seen[g] \subseteq seen'[g]
           /\ LiveWasSeen'
           /\ UNCHANGED bases => BasesWereLive'
<1>1. /\ live \in [Files -> Values] /\ seen \in [Files -> SUBSET Values]
      /\ LiveWasSeen /\ BasesWereLive
  BY DEF Inductive, TypeOK
<1>2. /\ live' \in [Files -> Values] /\ seen' \in [Files -> SUBSET Values]
      /\ live'[f] = c /\ c \in seen'[f]
      /\ \A g \in Files \ {f} : live'[g] = live[g]
      /\ \A g \in Files : seen[g] \subseteq seen'[g]
  BY <1>1 DEF SetLive
<1>3. LiveWasSeen'
  BY <1>1, <1>2 DEF LiveWasSeen
<1>4. UNCHANGED bases => BasesWereLive'
  BY <1>1, <1>2 DEF BasesWereLive
<1> QED BY <1>2, <1>3, <1>4

-----------------------------------------------------------------------------
(* Every action preserves the invariant.                                   *)

LEMMA InitEstablishes ==
    ASSUME Init PROVE Inductive
<1>1. TypeOK
  <2>1. resources \subseteq Resources
    BY DEF Init, EarlierResource, Resources
  <2>2. loaded \in [Loadable -> Values]
    BY InitialValues DEF Init, Loadable, Files
  <2> QED BY <2>1, <2>2, InitialValues DEF Init, TypeOK
<1>2. LiveWasSeen /\ BasesWereLive /\ InOrder /\ Followed
  BY DEF Init, LiveWasSeen, BasesWereLive, InOrder, Followed
<1>3. Owned
  BY DEF Init, Owned, EarlierResource
<1> QED BY <1>1, <1>2, <1>3 DEF Inductive

LEMMA ReviewPreserves ==
    ASSUME Inductive, Review
    PROVE  Inductive'
<1>1. TypeOK'
  BY DEF Inductive, TypeOK, Review, FormOf, haVars, gitVars
<1>2. LiveWasSeen' /\ BasesWereLive' /\ InOrder' /\ Followed' /\ Owned'
  BY DEF Inductive, LiveWasSeen, BasesWereLive, InOrder, Followed, Owned, Review, haVars, gitVars
<1> QED BY <1>1, <1>2 DEF Inductive

(* A file without a base that gets one holds what Git has.                 *)
LEMMA MissingBaseAgrees ==
    ASSUME NEW d, NEW c, NEW b, Classify(d, c, b) = "MISSING BASE"
    PROVE  d # Absent /\ d = c
BY DEF Classify

LEMMA ApplyableHasContent ==
    ASSUME NEW d, NEW c, NEW b, Applyable(Classify(d, c, b))
    PROVE  d # Absent
BY DEF Classify, Applyable

LEMMA InitializeBasesPreserves ==
    ASSUME Inductive, InitializeBases
    PROVE  Inductive'
<1>1. /\ bases' \in [Files -> Contents \cup {NoBase}]
      /\ \A f \in Files : bases'[f] = bases[f] \/ (bases'[f] = live[f])
  BY MissingBaseAgrees DEF InitializeBases, Inductive, TypeOK, Values
<1>2. TypeOK'
  BY <1>1 DEF Inductive, TypeOK, InitializeBases, haVars, gitVars
<1>3. LiveWasSeen' /\ BasesWereLive'
  BY <1>1 DEF Inductive, LiveWasSeen, BasesWereLive, InitializeBases, haVars
<1>4. InOrder' /\ Followed' /\ Owned'
  BY DEF Inductive, InOrder, Followed, Owned, InitializeBases, haVars, gitVars
<1> QED BY <1>2, <1>3, <1>4 DEF Inductive

LEMMA ApplyPreserves ==
    ASSUME Inductive, NEW files \in SUBSET Files, NEW modules \in SUBSET Modules,
           NEW dashboards \in BOOLEAN, Apply(files, modules, dashboards)
    PROVE  Inductive'
<1> DEFINE planned == {f \in files : MayWrite(f)}
<1>1. /\ live \in [Files -> Values] /\ form # NoForm
      /\ UNCHANGED <<live, seen, loaded, resources, git, head, bases, form, edits>>
      /\ applies' = applies + 1 /\ applies \in Nat
  BY DEF Apply, haVars, gitVars, Inductive, TypeOK
<1>2. job' = [pc |-> IF planned = {} THEN "list" ELSE "write",
              planned |-> planned, backup |-> [f \in planned |-> live[f]],
              written |-> {}, unrestored |-> {}, touched |-> {}, reported |-> {},
              repackage |-> FALSE, bust |-> {}, modules |-> modules, listed |-> {},
              created |-> {}, lost |-> {}, dashboards |-> dashboards, said |-> {}]
  BY DEF Apply
<1>3. planned \subseteq Files
  OBVIOUS
<1>4. \A f \in planned : form.git[f] # Absent /\ live[f] = form.live[f]
  BY ApplyableHasContent DEF MayWrite
<1> HIDE DEF planned
<1>5. [f \in planned |-> live[f]] \in UNION {[S -> Values] : S \in SUBSET Files}
  BY <1>1, <1>3
<1>6. job' \in Jobs
  BY <1>2, <1>3, <1>5 DEF Jobs, PCs, Reports
<1>7. /\ job'.pc \in {"list", "write"} /\ job'.planned = planned
      /\ job'.backup = [f \in planned |-> live[f]]
      /\ job'.written = {} /\ job'.unrestored = {} /\ job'.touched = {} /\ job'.bust = {}
      /\ job'.created = {} /\ job'.lost = {} /\ job'.said = {} /\ job'.reported = {}
  BY <1>2
<1>8. TypeOK'
  BY <1>1, <1>6 DEF Inductive, TypeOK
<1>9. LiveWasSeen' /\ BasesWereLive'
  BY <1>1 DEF Inductive, LiveWasSeen, BasesWereLive
<1>10. InOrder'
  BY <1>1, <1>4, <1>7 DEF InOrder, Writing, GoingWell
<1>11. Followed'
  BY <1>1, <1>3, <1>4, <1>7 DEF Followed, GoingWell
<1>12. Owned'
  BY <1>1, <1>7 DEF Inductive, TypeOK, Owned, Resources
<1> QED BY <1>8, <1>9, <1>10, <1>11, <1>12 DEF Inductive

LEMMA WriteFilePreserves ==
    ASSUME Inductive, NEW f \in Files, WriteFile(f)
    PROVE  Inductive'
<1> DEFINE rest == job.planned \ {f}
           written == job.written \cup {f}
<1>1. /\ job # NoJob /\ job \in Jobs /\ job.pc = "write" /\ f \in job.planned
      /\ form.git[f] \in Contents /\ form.git[f] \in Values /\ SetLive(f, form.git[f])
      /\ UNCHANGED <<loaded, resources, git, head, bases, form, applies, edits>>
  BY InJob DEF WriteFile, At, gitVars, Values
<1>2. job' = [job EXCEPT !.planned = rest, !.written = written,
                  !.bust = (written \cap Modules) \ job.modules,
                  !.pc = IF rest # {} THEN "write" ELSE AfterWrites(written)]
  BY DEF WriteFile
<1>3. /\ rest \subseteq Files /\ written \subseteq Files
      /\ (IF rest # {} THEN "write" ELSE AfterWrites(written)) \in PCs
  BY <1>1, JobFields DEF AfterWrites, PCs
<1>4. /\ job' \in Jobs
      /\ job'.planned = rest /\ job'.written = written
      /\ job'.bust = (written \cap Modules) \ job.modules
      /\ job'.pc = IF rest # {} THEN "write" ELSE AfterWrites(written)
      /\ job'.backup = job.backup /\ job'.unrestored = job.unrestored
      /\ job'.touched = job.touched /\ job'.said = job.said
      /\ job'.reported = job.reported /\ NotesKept(job', job)
  <2> HIDE DEF rest, written
  <2> QED BY <1>1, <1>2, <1>3 DEF Jobs, NotesKept
<1>5. /\ job'.pc \in {"write", "packages", "others"} /\ job'.pc \in Writing
      /\ job'.pc = "others" => job'.written \cap Packages = {}
  BY <1>4 DEF AfterWrites, Writing
<1>6. TypeOK'
  BY <1>1, <1>4, LiveSet DEF Inductive, TypeOK
<1>7. LiveWasSeen' /\ BasesWereLive'
  BY <1>1, LiveSet
<1>8. job.said = {} /\ job.unrestored = {} /\ f \notin job.written /\ job.reported = {}
  BY <1>1 DEF Inductive, InOrder, Writing
<1>9. InOrder'
  <2>1. job'.unrestored = {} /\ job'.said = {} /\ job'.reported = {}
    BY <1>4, <1>8
  <2> QED BY <1>1, <1>4, <1>5, <1>8, <2>1 DEF Inductive, InOrder
<1>10. Followed'
  <2>1. job'.reported = {} /\ (job'.pc = "others" => ~ TemplatesAreLoaded')
    BY <1>4, <1>5, <1>8 DEF TemplatesAreLoaded
  <2> QED BY <1>1, <1>4, <1>5, <1>8, <2>1, LiveSet DEF Inductive, Followed, InOrder
<1>11. Owned'
  BY <1>1, <1>4, StillOwned
<1> QED BY <1>6, <1>7, <1>9, <1>10, <1>11 DEF Inductive

(* An Apply that goes well so far is given up.                             *)
LEMMA GivingUp ==
    ASSUME Inductive, job # NoJob, job.pc \in Writing, RollsBack(job),
           UNCHANGED <<live, resources, seen, git, head, form, applies, edits>>,
           loaded' \in [Loadable -> Values],
           bases' \in [Files -> Contents \cup {NoBase}], BasesWereLive'
    PROVE  Inductive'
<1>1. job \in Jobs /\ form # NoForm
  BY InJob
<1>2. job' \in Jobs /\ NotesKept(job', job)
  BY <1>1, RollingBack
<1>3. TypeOK'
  BY <1>1, <1>2 DEF Inductive, TypeOK
<1>4. LiveWasSeen'
  BY DEF Inductive, LiveWasSeen
<1>5. job.said = {}
  BY DEF Inductive, InOrder
<1>6. InOrder' /\ Followed'
  <2>1. /\ job.planned \cup job.written \subseteq DOMAIN job.backup
        /\ (job.planned \cup job.unrestored) \cap job.written = {}
        /\ \A f \in job.planned \cup job.written : form.git[f] # Absent
    BY DEF Inductive, InOrder
  <2>2. \A f \in Files :
          /\ f \in job.written => form.git[f] \in seen'[f]
          /\ f \in job.written \ job.touched => live'[f] = form.git[f]
          /\ f \in DOMAIN job.backup \ (job.written \cup job.unrestored \cup job.touched) =>
                 live'[f] = job.backup[f]
    BY DEF Inductive, Followed
  <2> QED BY <1>1, <1>5, <2>1, <2>2, RollbackInOrder
<1>7. Owned'
  BY <1>2, StillOwned
<1> QED BY <1>3, <1>4, <1>6, <1>7 DEF Inductive

(* The same, with the journal failing too.                                 *)
LEMMA Failing ==
    ASSUME Inductive, job # NoJob, job.pc \in Writing, Fails(job),
           UNCHANGED <<live, resources, seen, git, head, form, applies, edits>>,
           loaded' \in [Loadable -> Values],
           bases' \in [Files -> Contents \cup {NoBase}], BasesWereLive'
    PROVE  Inductive'
<1>1. CASE RollsBack(job)
  BY <1>1, GivingUp
<1>2. CASE Aborts
  <2>1. LiveWasSeen' /\ live' \in [Files -> Values] /\ seen' \in [Files -> SUBSET Values]
    BY DEF Inductive, LiveWasSeen, TypeOK
  <2> QED BY <1>2, <2>1, Ending
<1> QED BY <1>1, <1>2 DEF Fails

LEMMA WriteFailsPreserves ==
    ASSUME Inductive, WriteFails
    PROVE  Inductive'
<1>1. BasesWereLive'
  BY DEF Inductive, BasesWereLive, WriteFails, haVars
<1> QED BY <1>1, Failing
        DEF WriteFails, At, Writing, haVars, gitVars, Inductive, TypeOK

LEMMA ReadbackFailsPreserves ==
    ASSUME Inductive, NEW f \in Files, ReadbackFails(f)
    PROVE  Inductive'
<1> DEFINE j == [job EXCEPT !.unrestored = @ \cup {f}]
<1>1. /\ job # NoJob /\ job \in Jobs /\ job.pc = "write" /\ f \in job.planned
      /\ form # NoForm /\ form.git[f] \in Values /\ SetLive(f, form.git[f])
      /\ UNCHANGED <<loaded, resources, git, head, bases, form, applies, edits>>
  BY InJob DEF ReadbackFails, At, gitVars, Values
<1>2. /\ j \in Jobs /\ j.unrestored = job.unrestored \cup {f} /\ j.said = job.said
      /\ j.planned = job.planned /\ j.backup = job.backup /\ j.written = job.written
      /\ j.touched = job.touched /\ NotesKept(j, job)
  BY <1>1 DEF Jobs, NotesKept
<1>3. RollsBack(j) \/ Aborts
  BY DEF ReadbackFails, Fails
<1> HIDE DEF j
<1>4. LiveWasSeen' /\ BasesWereLive'
  BY <1>1, LiveSet
<1>5. CASE Aborts
  BY <1>1, <1>4, <1>5, LiveSet, Ending DEF Inductive, TypeOK
<1> SUFFICES ASSUME RollsBack(j) PROVE Inductive'
  BY <1>3, <1>5
<1>6. job' \in Jobs /\ NotesKept(job', job)
  BY <1>2, RollingBack DEF NotesKept
<1>7. TypeOK'
  BY <1>1, <1>6, LiveSet DEF Inductive, TypeOK
<1>8. InOrder' /\ Followed'
  <2>1. /\ j.said = {}
        /\ j.planned \cup j.written \subseteq DOMAIN j.backup
        /\ (j.planned \cup j.unrestored) \cap j.written = {}
        /\ \A g \in j.planned \cup j.written : form.git[g] # Absent
    BY <1>1, <1>2 DEF Inductive, InOrder, Writing
  <2>2. \A g \in Files :
          /\ g \in j.written => form.git[g] \in seen'[g]
          /\ g \in j.written \ j.touched => live'[g] = form.git[g]
          /\ g \in DOMAIN j.backup \ (j.written \cup j.unrestored \cup j.touched) =>
                 live'[g] = j.backup[g]
    BY <1>1, <1>2, <2>1, LiveSet DEF Inductive, Followed
  <2> QED BY <1>1, <1>2, <2>1, <2>2, RollbackInOrder
<1>9. Owned'
  BY <1>1, <1>6, StillOwned
<1> QED BY <1>7, <1>4, <1>8, <1>9 DEF Inductive

(* A step of the job that changes its position only.                       *)
LEMMA GoingOn ==
    ASSUME job \in Jobs, NEW p \in PCs, Goto(p)
    PROVE  /\ job' \in Jobs /\ job'.pc = p /\ job'.said = job.said /\ job'.bust = job.bust
           /\ FilesKept(job', job) /\ NotesKept(job', job)
BY Moved DEF Goto

(* Some files are activated and reported.                                  *)
LEMMA ActivatePreserves ==
    ASSUME Inductive, ActivatePackages \/ \E f \in Files : ActivateOther(f)
    PROVE  Inductive'
<1>1. /\ job # NoJob /\ job \in Jobs /\ form # NoForm /\ job.pc \in {"packages", "others"}
      /\ UNCHANGED <<live, resources, seen, git, head, bases, form, applies, edits>>
  BY InJob DEF ActivatePackages, ActivateOther, At, gitVars
<1>2. /\ job.said = {} /\ job.unrestored = {} /\ GoingWell /\ job.bust \subseteq job.written
      /\ job.reported \subseteq job.written
  BY <1>1 DEF Inductive, InOrder, Writing, GoingWell
<1>3. PICK reported \in SUBSET job.written :
        /\ job' = [job EXCEPT !.reported = reported,
                   !.pc = IF reported = job.written THEN "bust" ELSE "others"]
        /\ job.written \cap Packages \subseteq reported
        /\ \A f \in (Loadable \cap reported) \ job.touched : loaded'[f] = form.git[f]
        /\ \A f \in (Loadable \cap job.written) \ job.touched :
               TemplatesAreLoaded => loaded'[f] = form.git[f]
  <2>1. \A f \in job.written \ job.touched : f \in Files /\ live[f] = form.git[f]
    BY <1>1, JobFields DEF Inductive, Followed
  <2>2. CASE ActivatePackages
    <3>1. \A f \in Loadable : loaded'[f] = live[f]
      BY <2>2 DEF ActivatePackages
    <3> QED BY <2>1, <2>2, <3>1 DEF ActivatePackages
  <2>3. ASSUME NEW f \in Files, ActivateOther(f)
        PROVE  /\ job.reported \cup {f} \in SUBSET job.written
               /\ job.written \cap Packages \subseteq job.reported \cup {f}
               /\ \A g \in (Loadable \cap (job.reported \cup {f})) \ job.touched :
                      loaded'[g] = form.git[g]
               /\ \A g \in (Loadable \cap job.written) \ job.touched :
                      TemplatesAreLoaded => loaded'[g] = form.git[g]
    <3>1. f \in job.written \ job.reported /\ job.written \cap Packages \subseteq job.reported
          /\ job.pc = "others"
      BY <2>3 DEF ActivateOther, At, Inductive, InOrder
    <3>2. \A g \in Loadable : loaded'[g] = IF g \in Templates /\ NeedsReload(f)
                                          THEN live[g] ELSE loaded[g]
      BY <2>3 DEF ActivateOther
    <3>3. \A g \in (Loadable \cap job.reported) \ job.touched : loaded[g] = form.git[g]
      BY <1>1, <1>2, JobFields DEF Inductive, Followed
    <3>4. TemplatesAreLoaded =>
            \A g \in (Loadable \cap job.written) \ job.touched : loaded[g] = form.git[g]
      BY <1>1, <3>1, JobFields DEF Inductive, Followed
    <3>5. f \in Loadable => f \in Templates
      BY <3>1 DEF Loadable
    <3>6. f \in Loadable \ job.touched => loaded'[f] = form.git[f]
      BY <2>1, <3>1, <3>2, <3>4, <3>5 DEF NeedsReload
    <3> QED BY <1>2, <2>1, <3>1, <3>2, <3>3, <3>4, <3>6
  <2>4. CASE \E f \in Files : ActivateOther(f)
    BY <2>3, <2>4 DEF ActivateOther
  <2> QED BY <2>2, <2>4
<1>4. /\ job' \in Jobs /\ job'.reported = reported /\ job'.said = {} /\ job'.unrestored = {}
      /\ job'.pc = IF reported = job.written THEN "bust" ELSE "others"
      /\ job'.planned = job.planned /\ job'.written = job.written /\ job'.backup = job.backup
      /\ job'.touched = job.touched /\ job'.bust = job.bust /\ NotesKept(job', job)
  <2>1. reported \subseteq Files
    BY <1>1, JobFields
  <2> QED BY <1>1, <1>2, <1>3, <2>1 DEF Jobs, PCs, NotesKept
<1>5. job'.pc \in {"bust", "others"} /\ job'.pc \in Writing /\ (TemplatesAreLoaded' <=> TemplatesAreLoaded)
  BY <1>4 DEF Writing, TemplatesAreLoaded
<1>6. TypeOK'
  <2>1. loaded' \in [Loadable -> Values]
    BY DEF Inductive, TypeOK, ActivatePackages, ActivateOther, Loadable, Files
  <2> QED BY <1>1, <1>4, <2>1 DEF Inductive, TypeOK
<1>7. LiveWasSeen' /\ BasesWereLive'
  BY <1>1 DEF Inductive, LiveWasSeen, BasesWereLive
<1>8. InOrder'
  <2>1. /\ job.planned \cup job.written \subseteq DOMAIN job.backup
        /\ job.planned \cap job.written = {}
        /\ \A f \in job.planned \cup job.written : form.git[f] # Absent
    BY <1>1 DEF Inductive, InOrder
  <2>2. GoingWell' /\ job'.pc \notin {"write", "packages", "rollback", "reload"}
    BY <1>4, <1>5 DEF GoingWell
  <2>3. job'.written \cap Packages \subseteq job'.reported /\ job'.reported \subseteq job'.written
    BY <1>3, <1>4
  <2> QED BY <1>1, <1>2, <1>4, <1>5, <2>1, <2>2, <2>3 DEF InOrder
<1>9. Followed'
  BY <1>1, <1>3, <1>4, <1>5 DEF Inductive, Followed
<1>10. Owned'
  BY <1>1, <1>4, StillOwned
<1> QED BY <1>6, <1>7, <1>8, <1>9, <1>10 DEF Inductive

LEMMA ActivationFailsPreserves ==
    ASSUME Inductive, ActivationFails
    PROVE  Inductive'
<1>1. loaded' \in [Loadable -> Values]
  BY DEF ActivationFails, Inductive, TypeOK, Loadable, Files
<1>2. BasesWereLive' /\ bases' \in [Files -> Contents \cup {NoBase}]
  BY DEF Inductive, TypeOK, BasesWereLive, ActivationFails
<1> QED BY <1>1, <1>2, Failing DEF ActivationFails, At, Writing, gitVars

(* Resources change their version and nothing else.                        *)
LEMMA VersionedFields ==
    ASSUME NEW m \in Modules, NEW rs \in SUBSET Resources,
           form.git[m] \in Contents
    PROVE  /\ Versioned(m, rs) \subseteq Resources
           /\ \A r \in Versioned(m, rs) : \E q \in rs :
                  r.by = q.by /\ r.n = q.n /\ r.file = q.file
           /\ \A q \in rs : \E r \in Versioned(m, rs) : SameResource(q, r)
<1>1. CASE Cardinality(Matches(m, rs)) # 1
  BY <1>1 DEF Versioned, SameResource
<1>2. CASE Cardinality(Matches(m, rs)) = 1
  <2> DEFINE v(r) == IF r.file = m THEN [r EXCEPT !.version = form.git[m]] ELSE r
  <2>1. Versioned(m, rs) = {v(r) : r \in rs}
    BY <1>2 DEF Versioned
  <2>2. ASSUME NEW r \in rs
        PROVE  v(r) \in Resources /\ v(r).by = r.by /\ v(r).n = r.n /\ v(r).file = r.file
    BY DEF Resources
  <2> HIDE DEF v
  <2> QED BY <2>1, <2>2 DEF SameResource
<1> QED BY <1>1, <1>2

LEMMA CacheBustPreserves ==
    ASSUME Inductive, NEW m \in Modules, CacheBust(m)
    PROVE  Inductive'
<1>1. /\ job # NoJob /\ job \in Jobs /\ form # NoForm /\ job.pc = "bust" /\ m \in job.bust
      /\ job' = [job EXCEPT !.bust = @ \ {m}]
      /\ UNCHANGED <<live, loaded, seen, git, head, bases, form, applies, edits>>
  BY InJob DEF CacheBust, At, gitVars
<1>2. /\ job' \in Jobs /\ job'.pc = "bust" /\ job'.said = job.said
      /\ job'.bust \subseteq job.bust /\ FilesKept(job', job) /\ NotesKept(job', job)
  BY <1>1 DEF Jobs, FilesKept, NotesKept
<1>3. form.git[m] \in Contents
  BY <1>1, InJob DEF Inductive, InOrder, Writing
<1>4. /\ resources' \subseteq Resources
      /\ \A r \in resources' : \E q \in resources : r.by = q.by /\ r.n = q.n /\ r.file = q.file
  BY <1>3, VersionedFields DEF CacheBust, Inductive, TypeOK
<1>5. TypeOK'
  BY <1>1, <1>2, <1>4 DEF Inductive, TypeOK
<1>6. LiveWasSeen' /\ BasesWereLive'
  BY <1>1 DEF Inductive, LiveWasSeen, BasesWereLive
<1>7. InOrder'
  BY <1>1, <1>2 DEF Inductive, InOrder, FilesKept, Writing
<1>8. Followed'
  BY <1>1, <1>2 DEF Inductive, Followed, FilesKept, GoingWell, Writing
<1>9. Owned'
  BY <1>1, <1>2, <1>4 DEF Inductive, Owned, NotesKept, SameResource
<1> QED BY <1>5, <1>6, <1>7, <1>8, <1>9 DEF Inductive

(* The bases an Apply sets were LIVE: it has written them itself.          *)
LEMMA NewBasesFields ==
    ASSUME Inductive, job # NoJob, job.pc = "bust"
    PROVE  /\ NewBases \in [Files -> Contents \cup {NoBase}]
           /\ \A f \in Files : NewBases[f] # NoBase => NewBases[f] \in seen[f]
           /\ \A f \in job.reported : NewBases[f] = form.git[f]
<1>1. job.reported = job.written
      /\ \A f \in job.written : f \in Files /\ form.git[f] \in Contents
  BY InJob, JobFields DEF Inductive, InOrder
<1>2. bases \in [Files -> Contents \cup {NoBase}]
  BY DEF Inductive, TypeOK
<1> QED BY <1>1, <1>2 DEF NewBases, Inductive, BasesWereLive, Followed

LEMMA SaveBasesPreserves ==
    ASSUME Inductive, SaveBases
    PROVE  Inductive'
<1>1. /\ job # NoJob /\ job \in Jobs /\ form # NoForm /\ job.pc = "bust" /\ bases' = NewBases
      /\ Goto("list")
      /\ UNCHANGED <<live, loaded, resources, seen, git, head, form, applies, edits>>
  BY InJob DEF SaveBases, At, haVars, gitVars
<1>2. /\ job' \in Jobs /\ job'.pc = "list" /\ job'.said = job.said
      /\ FilesKept(job', job) /\ NotesKept(job', job)
  BY <1>1, GoingOn DEF PCs
<1>3. TypeOK'
  BY <1>1, <1>2, NewBasesFields DEF Inductive, TypeOK
<1>4. LiveWasSeen' /\ BasesWereLive'
  BY <1>1, NewBasesFields DEF Inductive, LiveWasSeen, BasesWereLive
<1>5. job.said = {} /\ job.reported = job.written /\ GoingWell
  BY <1>1 DEF Inductive, InOrder, Writing, GoingWell
<1>6. InOrder'
  BY <1>1, <1>2, <1>5 DEF Inductive, InOrder, FilesKept, Writing
<1>7. Followed'
  BY <1>1, <1>2, <1>5, NewBasesFields DEF Inductive, Followed, FilesKept
<1>8. Owned'
  BY <1>1, <1>2, StillOwned
<1> QED BY <1>3, <1>4, <1>6, <1>7, <1>8 DEF Inductive

LEMMA SaveBasesFailsPreserves ==
    ASSUME Inductive, SaveBasesFails
    PROVE  Inductive'
<1>1. BasesWereLive'
  BY DEF Inductive, BasesWereLive, SaveBasesFails, haVars
<1> QED BY <1>1, Failing
        DEF SaveBasesFails, At, Writing, haVars, gitVars, Inductive, TypeOK

LEMMA JournalFailsPreserves ==
    ASSUME Inductive, JournalFails
    PROVE  Inductive'
<1>1. /\ job # NoJob
      /\ bases' = bases \/ (job.pc = "bust" /\ bases' = NewBases)
      /\ Aborts \/ (Fails(job) /\ job.pc \in Writing)
      /\ UNCHANGED <<live, loaded, resources, seen, git, head, form, applies, edits>>
  BY DEF JournalFails, At, Writing, haVars, gitVars
<1>2. bases' \in [Files -> Contents \cup {NoBase}] /\ BasesWereLive'
  <2>1. CASE bases' = bases
    BY <1>1, <2>1 DEF Inductive, TypeOK, BasesWereLive
  <2>2. CASE job.pc = "bust" /\ bases' = NewBases
    BY <1>1, <2>2, NewBasesFields DEF BasesWereLive
  <2> QED BY <1>1, <2>1, <2>2
<1>3. /\ live' \in [Files -> Values] /\ loaded' \in [Loadable -> Values]
      /\ seen' \in [Files -> SUBSET Values] /\ LiveWasSeen'
  BY <1>1 DEF Inductive, TypeOK, LiveWasSeen
<1>4. CASE Aborts
  BY <1>1, <1>2, <1>3, <1>4, Ending
<1>5. CASE Fails(job) /\ job.pc \in Writing
  BY <1>1, <1>2, <1>3, <1>5, Failing
<1> QED BY <1>1, <1>4, <1>5

LEMMA RestorePreserves ==
    ASSUME Inductive, NEW f \in Files, Restore(f)
    PROVE  Inductive'
<1> DEFINE j == [job EXCEPT !.written = @ \ {f}, !.repackage = @ \/ f \in Packages]
<1>1. /\ job # NoJob /\ job \in Jobs /\ form # NoForm
      /\ job.pc = "rollback" /\ f \in job.written /\ SetLive(f, job.backup[f])
      /\ UNCHANGED <<loaded, resources, git, head, bases, form, applies, edits>>
  BY InJob DEF Restore, At, gitVars
<1>2. job.backup[f] \in Values /\ f \in DOMAIN job.backup
  BY <1>1, JobFields, BackupFields DEF Inductive, InOrder
<1>3. /\ j \in Jobs /\ j.written = job.written \ {f} /\ j.said = job.said
      /\ j.planned = job.planned /\ j.backup = job.backup /\ j.unrestored = job.unrestored
      /\ j.touched = job.touched /\ NotesKept(j, job)
  BY <1>1 DEF Jobs, NotesKept
<1>4. RollsBack(j)
  BY DEF Restore
<1> HIDE DEF j
<1>5. job' \in Jobs /\ NotesKept(job', job)
  BY <1>3, <1>4, RollingBack DEF NotesKept
<1>6. TypeOK'
  BY <1>1, <1>2, <1>5, LiveSet DEF Inductive, TypeOK
<1>7. LiveWasSeen' /\ BasesWereLive'
  BY <1>1, <1>2, LiveSet
<1>8. InOrder' /\ Followed'
  <2>1. /\ j.said = {}
        /\ j.planned \cup j.written \subseteq DOMAIN j.backup
        /\ (j.planned \cup j.unrestored) \cap j.written = {}
        /\ \A g \in j.planned \cup j.written : form.git[g] # Absent
    BY <1>1, <1>3 DEF Inductive, InOrder
  <2>2. \A g \in Files :
          /\ g \in j.written => form.git[g] \in seen'[g]
          /\ g \in j.written \ j.touched => live'[g] = form.git[g]
          /\ g \in DOMAIN j.backup \ (j.written \cup j.unrestored \cup j.touched) =>
                 live'[g] = j.backup[g]
    BY <1>1, <1>2, <1>3, LiveSet DEF Inductive, Followed
  <2> QED BY <1>1, <1>3, <1>4, <2>1, <2>2, RollbackInOrder
<1>9. Owned'
  BY <1>1, <1>5, StillOwned
<1> QED BY <1>6, <1>7, <1>8, <1>9 DEF Inductive

LEMMA RestoreFailsPreserves ==
    ASSUME Inductive, NEW f \in Files, RestoreFails(f)
    PROVE  Inductive'
<1> DEFINE j == [job EXCEPT !.written = @ \ {f}, !.unrestored = @ \cup {f}]
<1>1. /\ job # NoJob /\ job \in Jobs /\ form # NoForm
      /\ job.pc = "rollback" /\ f \in job.written
      /\ UNCHANGED <<live, seen, loaded, resources, git, head, bases, form, applies, edits>>
  BY InJob DEF RestoreFails, At, haVars, gitVars
<1>2. /\ j \in Jobs /\ j.written = job.written \ {f} /\ j.said = job.said
      /\ j.planned = job.planned /\ j.backup = job.backup
      /\ j.unrestored = job.unrestored \cup {f}
      /\ j.touched = job.touched /\ NotesKept(j, job)
  BY <1>1 DEF Jobs, NotesKept
<1>3. RollsBack(j)
  BY DEF RestoreFails
<1> HIDE DEF j
<1>4. job' \in Jobs /\ NotesKept(job', job)
  BY <1>2, <1>3, RollingBack DEF NotesKept
<1>5. TypeOK'
  BY <1>1, <1>4 DEF Inductive, TypeOK
<1>6. LiveWasSeen' /\ BasesWereLive'
  BY <1>1 DEF Inductive, LiveWasSeen, BasesWereLive
<1>7. InOrder' /\ Followed'
  <2>1. /\ j.said = {}
        /\ j.planned \cup j.written \subseteq DOMAIN j.backup
        /\ (j.planned \cup j.unrestored) \cap j.written = {}
        /\ \A g \in j.planned \cup j.written : form.git[g] # Absent
    BY <1>1, <1>2 DEF Inductive, InOrder
  <2>2. \A g \in Files :
          /\ g \in j.written => form.git[g] \in seen'[g]
          /\ g \in j.written \ j.touched => live'[g] = form.git[g]
          /\ g \in DOMAIN j.backup \ (j.written \cup j.unrestored \cup j.touched) =>
                 live'[g] = j.backup[g]
    BY <1>1, <1>2 DEF Inductive, Followed
  <2> QED BY <1>1, <1>2, <1>3, <2>1, <2>2, RollbackInOrder
<1>8. Owned'
  BY <1>1, <1>4, StillOwned
<1> QED BY <1>5, <1>6, <1>7, <1>8 DEF Inductive

LEMMA ReloadAgainPreserves ==
    ASSUME Inductive, ReloadAgain
    PROVE  Inductive'
<1>1. /\ job # NoJob /\ job \in Jobs /\ form # NoForm /\ Goto("list") /\ job.pc = "reload"
      /\ UNCHANGED <<live, resources, seen, git, head, bases, form, applies, edits>>
  BY InJob DEF ReloadAgain, At, gitVars
<1>2. /\ job' \in Jobs /\ job'.pc = "list" /\ job'.said = job.said
      /\ FilesKept(job', job) /\ NotesKept(job', job)
  BY <1>1, GoingOn DEF PCs
<1>3. loaded' \in [Loadable -> Values]
  BY DEF ReloadAgain, Inductive, TypeOK, Loadable, Files
<1>4. TypeOK'
  BY <1>1, <1>2, <1>3 DEF Inductive, TypeOK
<1>5. LiveWasSeen' /\ BasesWereLive'
  BY <1>1 DEF Inductive, LiveWasSeen, BasesWereLive
<1>6. InOrder'
  BY <1>1, <1>2 DEF Inductive, InOrder, FilesKept, Writing, GoingWell
<1>7. Followed'
  <2>1. ~ GoingWell'
    BY <1>1, <1>2 DEF Inductive, InOrder, GoingWell
  <2> QED BY <1>1, <1>2, <2>1 DEF Inductive, Followed, FilesKept
<1>8. Owned'
  BY <1>1, <1>2, StillOwned
<1> QED BY <1>4, <1>5, <1>6, <1>7, <1>8 DEF Inductive

-----------------------------------------------------------------------------
(* The resources of an Apply.                                              *)

(* The step after a resource.                                              *)
LEMMA NextResourceFields ==
    ASSUME NEW j \in Jobs, j.pc \in {"list", "resources"}, NextResource(j)
    PROVE  \/ Aborts
           \/ /\ job' \in Jobs /\ job'.pc \in {j.pc, "dashboards"} /\ job'.said = j.said
              /\ j.modules = {} => job'.pc = "dashboards"
              /\ FilesKept(job', j) /\ NotesKept(job', j)
<1>1. LET k == [j EXCEPT !.pc = "dashboards"]
      IN  k \in Jobs /\ k.pc = "dashboards" /\ k.said = j.said /\ FilesKept(k, j) /\ NotesKept(k, j)
  BY Moved DEF PCs
<1> QED BY <1>1 DEF NextResource, Aborts, FilesKept, NotesKept

(* A later step that has created or deleted nothing.                       *)
LEMMA LaterPreserves ==
    ASSUME Inductive, job # NoJob, job.pc \in After \cup {"list"},
           LaterStep \/ Aborts, resources' \subseteq Resources, Owned',
           UNCHANGED <<live, loaded, seen, git, head, bases, form, applies, edits>>
    PROVE  Inductive'
<1>1. TypeOK'
  BY InJob DEF Inductive, TypeOK, LaterStep, Aborts
<1> QED BY <1>1, LaterInOrder DEF Inductive

LEMMA ListResourcesPreserves ==
    ASSUME Inductive, ListResources
    PROVE  Inductive'
<1>1. /\ job # NoJob /\ job \in Jobs /\ job.pc = "list" /\ resources \subseteq Resources
      /\ UNCHANGED <<live, loaded, seen, resources, git, head, bases, form, applies, edits>>
  BY InJob DEF ListResources, At, haVars, gitVars, Inductive, TypeOK
<1>2. Aborts \/ (LaterStep /\ NotesKept(job', job))
  <2>1. CASE job.modules = {} /\ NextResource(job)
    BY <1>1, <2>1, NextResourceFields DEF LaterStep, After
  <2>2. CASE job' = [job EXCEPT !.pc = "resources", !.listed = resources]
    BY <1>1, <2>2 DEF LaterStep, After, Jobs, PCs, FilesKept, NotesKept
  <2> QED BY <2>1, <2>2 DEF ListResources
<1>3. Owned'
  BY <1>1, <1>2, StillOwned DEF Aborts
<1> QED BY <1>1, <1>2, <1>3, LaterPreserves

LEMMA ResourceFailsPreserves ==
    ASSUME Inductive, ResourceFails
    PROVE  Inductive'
<1>1. /\ job # NoJob /\ job \in Jobs /\ job.pc = "resources" /\ resources \subseteq Resources
      /\ Goto("undo")
      /\ UNCHANGED <<live, loaded, seen, resources, git, head, bases, form, applies, edits>>
  BY InJob DEF ResourceFails, At, haVars, gitVars, Inductive, TypeOK
<1>2. LaterStep /\ NotesKept(job', job)
  BY <1>1, GoingOn DEF LaterStep, After, PCs
<1>3. Owned'
  BY <1>1, <1>2, StillOwned
<1> QED BY <1>1, <1>2, <1>3, LaterPreserves DEF After

LEMMA CreatedFields ==
    ASSUME Inductive, NEW m \in Modules
    PROVE  /\ Created(m) \in Resources
           /\ Created(m).by = "import" /\ Created(m).n = applies
BY DEF Created, Resources, Inductive, TypeOK

(* A resource is created, and its id is noted or lost.                     *)
LEMMA CreatingOwned ==
    ASSUME Inductive, job # NoJob, NEW m \in Modules, UNCHANGED applies,
           job' = NoJob \/ (/\ job'.created \cup job'.lost = job.created \cup job.lost \cup {Created(m)}
                            /\ job'.created \subseteq job.created \cup {Created(m)}),
           \A r \in resources' : \E q \in resources \cup {Created(m)} :
               r.by = q.by /\ r.n = q.n /\ r.file = q.file
    PROVE  Owned'
<1>1. \A r \in resources' : r.by = "import" => r.n <= applies
  BY CreatedFields DEF Inductive, TypeOK, Owned
<1>2. ASSUME job' # NoJob
      PROVE  \A c \in job'.created : c.by = "import" /\ c.n = applies
  BY <1>2, CreatedFields DEF Inductive, Owned
<1>3. ASSUME job' # NoJob, NEW r \in resources', r.by = "import", r.n = applies
      PROVE  \E c \in job'.created \cup job'.lost : SameResource(r, c)
  BY <1>3, CreatedFields DEF Inductive, Owned, SameResource
<1> QED BY <1>1, <1>2, <1>3 DEF Owned

LEMMA CreateResourcePreserves ==
    ASSUME Inductive, NEW m \in Modules, CreateResource(m)
    PROVE  Inductive'
<1> DEFINE rs == resources \cup {Created(m)}
           j == [job EXCEPT !.modules = @ \ {m}, !.listed = rs,
                            !.created = @ \cup Noted(m, rs)]
           s == [j EXCEPT !.said = @ \cup {"resources failed"}]
           u == [j EXCEPT !.pc = "undo"]
<1>1. /\ job # NoJob /\ job \in Jobs /\ form # NoForm /\ form.git \in [Files -> Values]
      /\ job.pc = "resources" /\ resources \subseteq Resources
      /\ UNCHANGED <<live, loaded, seen, git, head, bases, form, applies, edits>>
  BY InJob DEF CreateResource, At, gitVars, Inductive, TypeOK
<1>2. rs \subseteq Resources
  BY <1>1, CreatedFields
<1>3. /\ j \in Jobs /\ j.pc = "resources" /\ j.said = job.said /\ FilesKept(j, job)
      /\ j.created = job.created \cup {Created(m)} /\ j.lost = job.lost
  <2> HIDE DEF rs
  <2> QED BY <1>1, <1>2, CreatedFields DEF Jobs, FilesKept, Noted
<1>4. \/ form.git[m] # Absent /\ resources' = Versioned(m, rs) /\ NextResource(j)
      \/ resources' = rs /\ NextResource(s)
      \/ resources' = rs /\ job' = u
  BY DEF CreateResource
<1> HIDE DEF j, rs
<1>5. /\ s \in Jobs /\ s.pc = "resources" /\ s.said = j.said \cup {"resources failed"}
      /\ FilesKept(s, j) /\ NotesKept(s, j)
  BY <1>3 DEF Jobs, Reports, FilesKept, NotesKept
<1>6. /\ u \in Jobs /\ u.pc = "undo" /\ u.said = j.said
      /\ FilesKept(u, j) /\ NotesKept(u, j)
  BY <1>3, Moved DEF PCs
<1> HIDE DEF s, u
<1>7. Aborts \/ (LaterStep /\ NotesKept(job', j))
  <2>1. CASE NextResource(j)
    BY <1>3, <2>1, NextResourceFields DEF LaterStep, After, FilesKept
  <2>2. CASE NextResource(s)
    <3>1. Aborts \/ (/\ job' \in Jobs /\ job'.pc \in {"resources", "dashboards"} /\ job'.said = s.said
                     /\ FilesKept(job', s) /\ NotesKept(job', s))
      BY <1>5, <2>2, NextResourceFields
    <3> QED BY <1>3, <1>5, <3>1 DEF LaterStep, After, FilesKept, NotesKept
  <2>3. CASE job' = u
    BY <1>3, <1>6, <2>3 DEF LaterStep, After, FilesKept
  <2> QED BY <1>4, <2>1, <2>2, <2>3
<1>8. /\ resources' \subseteq Resources
      /\ \A r \in resources' : \E q \in rs : r.by = q.by /\ r.n = q.n /\ r.file = q.file
  <2>1. CASE resources' = rs
    BY <1>2, <2>1
  <2>2. CASE form.git[m] # Absent /\ resources' = Versioned(m, rs)
    <3>1. form.git[m] \in Contents
      BY <1>1, <2>2 DEF Values, Files
    <3> QED BY <1>2, <2>2, <3>1, VersionedFields
  <2> QED BY <1>4, <2>1, <2>2
<1>9. Owned'
  <2>1. \A r \in resources' : \E q \in resources \cup {Created(m)} :
            r.by = q.by /\ r.n = q.n /\ r.file = q.file
    BY <1>8 DEF rs
  <2> QED BY <1>1, <1>3, <1>7, <2>1, CreatingOwned DEF Aborts, NotesKept
<1> QED BY <1>1, <1>7, <1>8, <1>9, LaterPreserves DEF After

LEMMA CreateUnansweredPreserves ==
    ASSUME Inductive, NEW m \in Modules, CreateUnanswered(m)
    PROVE  Inductive'
<1>1. /\ job # NoJob /\ job \in Jobs /\ job.pc = "resources" /\ resources \subseteq Resources
      /\ resources' = resources \cup {Created(m)}
      /\ job' = [job EXCEPT !.pc = "undo", !.lost = @ \cup {Created(m)}]
      /\ UNCHANGED <<live, loaded, seen, git, head, bases, form, applies, edits>>
  BY InJob DEF CreateUnanswered, At, gitVars, Inductive, TypeOK
<1>2. /\ LaterStep /\ job'.created = job.created /\ job'.lost = job.lost \cup {Created(m)}
  BY <1>1, CreatedFields DEF LaterStep, After, Jobs, PCs, FilesKept
<1>3. resources' \subseteq Resources
  BY <1>1, CreatedFields
<1>4. Owned'
  BY <1>1, <1>2, CreatingOwned
<1> QED BY <1>1, <1>2, <1>3, <1>4, LaterPreserves DEF After

LEMMA DeleteCreatedPreserves ==
    ASSUME Inductive, job # NoJob, NEW c \in job.created, DeleteCreated(c)
    PROVE  Inductive'
<1>1. /\ job \in Jobs /\ job.pc \in {"undo", "unwind"} /\ resources \subseteq Resources
      /\ resources' = resources \ Holds(c)
      /\ job' = [job EXCEPT !.created = @ \ {c}]
      /\ UNCHANGED <<live, loaded, seen, git, head, bases, form, applies, edits>>
  BY InJob DEF DeleteCreated, At, gitVars, Inductive, TypeOK
<1>2. /\ LaterStep /\ job'.created = job.created \ {c} /\ job'.lost = job.lost
  BY <1>1 DEF LaterStep, After, Jobs, FilesKept
<1>3. Owned'
  BY <1>1, <1>2 DEF Inductive, Owned, Holds
<1> QED BY <1>1, <1>2, <1>3, LaterPreserves DEF After

LEMMA ResourcesEndPreserves ==
    ASSUME Inductive, DeleteFails \/ AllDeleted
    PROVE  Inductive'
<1>1. BasesWereLive'
  BY DEF Inductive, BasesWereLive, DeleteFails, AllDeleted, haVars
<1>2. LiveWasSeen'
  BY DEF Inductive, LiveWasSeen, DeleteFails, AllDeleted, haVars
<1> QED BY <1>1, <1>2, Ending
        DEF DeleteFails, AllDeleted, haVars, gitVars, Inductive, TypeOK

LEMMA DashboardsPreserves ==
    ASSUME Inductive, Dashboards
    PROVE  Inductive'
<1>1. /\ job # NoJob /\ job \in Jobs /\ job.pc = "dashboards" /\ resources \subseteq Resources
      /\ UNCHANGED <<live, loaded, seen, resources, git, head, bases, form, applies, edits>>
  BY InJob DEF Dashboards, At, haVars, gitVars, Inductive, TypeOK
<1>2. Aborts \/ (LaterStep /\ NotesKept(job', job))
  BY <1>1, GoingOn DEF Dashboards, LaterStep, After, PCs
<1>3. Owned'
  BY <1>1, <1>2, StillOwned DEF Aborts
<1> QED BY <1>1, <1>2, <1>3, LaterPreserves DEF After

-----------------------------------------------------------------------------
(* Users, developers, stops.                                               *)

LEMMA HaEditPreserves ==
    ASSUME Inductive, NEW f \in Files, NEW c \in Values, HaEdit(f, c)
    PROVE  Inductive'
<1>1. /\ SetLive(f, c) /\ Touch(f) /\ edits' = edits + 1 /\ edits \in Nat
      /\ UNCHANGED <<resources, git, head, bases, form, applies>>
  BY DEF HaEdit, gitVars, Inductive, TypeOK
<1>2. /\ loaded' \in [Loadable -> Values]
      /\ \A g \in Loadable \ {f} : loaded'[g] = loaded[g]
  BY DEF HaEdit, Inductive, TypeOK
<1>3. CASE job = NoJob
  <2>1. job' = NoJob
    BY <1>1, <1>3 DEF Touch
  <2>2. TypeOK'
    BY <1>1, <1>2, <2>1, LiveSet DEF Inductive, TypeOK
  <2>3. InOrder' /\ Followed'
    BY <2>1 DEF InOrder, Followed
  <2> QED BY <1>1, <2>1, <2>2, <2>3, LiveSet, StillOwned DEF Inductive
<1>4. CASE job # NoJob
  <2>1. /\ job' = [job EXCEPT !.touched = @ \cup {f}] /\ job \in Jobs
    BY <1>1, <1>4, InJob DEF Touch
  <2>2. /\ job' \in Jobs /\ job'.touched = job.touched \cup {f} /\ job'.pc = job.pc
        /\ job'.said = job.said /\ job'.bust = job.bust
        /\ job'.planned = job.planned /\ job'.backup = job.backup
        /\ job'.written = job.written /\ job'.unrestored = job.unrestored
        /\ job'.reported = job.reported
        /\ NotesKept(job', job)
    BY <2>1 DEF Jobs, NotesKept
  <2>3. TypeOK'
    BY <1>1, <1>2, <1>4, <2>2, LiveSet DEF Inductive, TypeOK
  <2>4. InOrder'
    BY <1>1, <1>4, <2>2 DEF Inductive, InOrder, GoingWell
  <2>5. Followed'
    <3>1. /\ GoingWell' <=> GoingWell
          /\ TemplatesAreLoaded' <=> TemplatesAreLoaded
          /\ job'.pc \notin Writing <=> job.pc \notin Writing
      BY <2>2 DEF GoingWell, TemplatesAreLoaded
    <3>2. \A g \in Files : g \notin job'.touched =>
              /\ g # f /\ g \notin job.touched /\ live'[g] = live[g]
              /\ g \in Loadable => loaded'[g] = loaded[g]
      BY <1>1, <1>2, <2>2, LiveSet
    <3>3. \A g \in Files : form.git[g] \in seen[g] => form.git[g] \in seen'[g]
      BY <1>1, LiveSet
    <3> QED BY <1>1, <1>4, <2>2, <3>1, <3>2, <3>3 DEF Inductive, Followed, Writing
  <2> QED BY <1>1, <1>4, <2>2, <2>3, <2>4, <2>5, LiveSet, StillOwned DEF Inductive
<1> QED BY <1>3, <1>4

LEMMA HaResourcePreserves ==
    ASSUME Inductive, NEW m \in Modules, HaResource(m)
    PROVE  Inductive'
<1>1. /\ edits' = edits + 1 /\ edits \in Nat /\ resources \subseteq Resources
      /\ UNCHANGED <<live, loaded, seen, git, head, bases, form, job, applies>>
  BY DEF HaResource, gitVars, Inductive, TypeOK
<1>2. \A r \in resources' : r \in Resources /\ (r \in resources \/ r.by = "user")
  BY <1>1 DEF HaResource, Resources
<1>3. TypeOK'
  BY <1>1, <1>2 DEF Inductive, TypeOK
<1>4. LiveWasSeen' /\ BasesWereLive' /\ InOrder' /\ Followed'
  BY <1>1 DEF Inductive, LiveWasSeen, BasesWereLive, InOrder, Followed,
              GoingWell, TemplatesAreLoaded, Writing
<1>5. Owned'
  BY <1>1, <1>2 DEF Inductive, Owned
<1> QED BY <1>3, <1>4, <1>5 DEF Inductive

LEMMA GitCommitPreserves ==
    ASSUME Inductive, NEW f \in Files, NEW c \in Values, GitCommit(f, c)
    PROVE  Inductive'
<1>1. TypeOK'
  BY DEF Inductive, TypeOK, GitCommit, haVars
<1>2. LiveWasSeen' /\ BasesWereLive' /\ InOrder' /\ Followed' /\ Owned'
  BY DEF Inductive, LiveWasSeen, BasesWereLive, InOrder, Followed, Owned, GitCommit, haVars,
         GoingWell, TemplatesAreLoaded, Writing
<1> QED BY <1>1, <1>2 DEF Inductive

LEMMA CrashPreserves ==
    ASSUME Inductive, Crash
    PROVE  Inductive'
<1>1. BasesWereLive'
  BY DEF Inductive, BasesWereLive, Crash, haVars
<1>2. LiveWasSeen'
  BY DEF Inductive, LiveWasSeen, Crash, haVars
<1> QED BY <1>1, <1>2, Ending DEF Crash, Aborts, haVars, gitVars, Inductive, TypeOK

LEMMA StutterPreserves ==
    ASSUME Inductive, UNCHANGED vars
    PROVE  Inductive'
BY DEF vars, Inductive, TypeOK, LiveWasSeen, BasesWereLive, InOrder, Followed, Owned,
       GoingWell, TemplatesAreLoaded, Writing

LEMMA NextPreserves ==
    ASSUME Inductive, [Next]_vars
    PROVE  Inductive'
<1>1. CASE Review \/ InitializeBases
  BY <1>1, ReviewPreserves, InitializeBasesPreserves
<1>2. CASE \E files \in SUBSET Files, modules \in SUBSET Modules, dashboards \in BOOLEAN :
               Apply(files, modules, dashboards)
  BY <1>2, ApplyPreserves
<1>3. CASE \E f \in Files : WriteFile(f) \/ ReadbackFails(f) \/ Restore(f) \/ RestoreFails(f)
  BY <1>3, WriteFilePreserves, ReadbackFailsPreserves, RestorePreserves, RestoreFailsPreserves
<1>4. CASE WriteFails \/ ActivatePackages \/ (\E f \in Files : ActivateOther(f)) \/ ActivationFails
  BY <1>4, WriteFailsPreserves, ActivatePreserves, ActivationFailsPreserves
<1>5. CASE \E m \in Modules : CacheBust(m) \/ CreateResource(m) \/ CreateUnanswered(m)
  BY <1>5, CacheBustPreserves, CreateResourcePreserves, CreateUnansweredPreserves
<1>6. CASE SaveBases \/ SaveBasesFails \/ JournalFails \/ ReloadAgain
  BY <1>6, SaveBasesPreserves, SaveBasesFailsPreserves, JournalFailsPreserves,
     ReloadAgainPreserves
<1>7. CASE ListResources \/ ResourceFails
  BY <1>7, ListResourcesPreserves, ResourceFailsPreserves
<1>8. CASE job # NoJob /\ \E c \in job.created : DeleteCreated(c)
  BY <1>8, DeleteCreatedPreserves
<1>9. CASE DeleteFails \/ AllDeleted \/ Dashboards
  BY <1>9, ResourcesEndPreserves, DashboardsPreserves
<1>10. CASE \E f \in Files, c \in Values : HaEdit(f, c) \/ GitCommit(f, c)
  BY <1>10, HaEditPreserves, GitCommitPreserves
<1>11. CASE (\E m \in Modules : HaResource(m)) \/ Crash
  BY <1>11, HaResourcePreserves, CrashPreserves
<1>12. CASE UNCHANGED vars
  BY <1>12, StutterPreserves
<1> QED BY <1>1, <1>2, <1>3, <1>4, <1>5, <1>6, <1>7, <1>8, <1>9, <1>10, <1>11, <1>12 DEF Next

-----------------------------------------------------------------------------

(* Where the files, the bases and the resources of an Apply are at each of *)
(* its steps.                                                              *)
THEOREM Invariance == Spec => []Inductive
<1>1. Init => Inductive
  BY InitEstablishes
<1>2. Inductive /\ [Next]_vars => Inductive'
  BY NextPreserves
<1> QED BY <1>1, <1>2, PTL DEF Spec

(* No base of a managed file was ever recorded that HA did not hold:       *)
(* initialize_missing_bases and save_bases under every failure.            *)
THEOREM BasesHoldLive == Spec => []BasesWereLive
<1>1. Inductive => BasesWereLive
  BY DEF Inductive
<1> QED BY <1>1, Invariance, PTL

(* "failed and rolled back" is true of every file but those the messages   *)
(* or a user's edit except.                                                *)
THEOREM RollbackRestores == Spec => []RolledBackMeansRestored
<1>1. Inductive => RolledBackMeansRestored
  <2> SUFFICES ASSUME Inductive, job # NoJob, "rolled back" \in job.said,
                      NEW f \in DOMAIN job.backup \ (job.touched \cup job.unrestored)
               PROVE  live[f] = job.backup[f]
    BY DEF RolledBackMeansRestored
  <2>1. job.written = {}
    BY DEF Inductive, InOrder
  <2>2. f \in Files
    BY InJob, JobFields, BackupFields
  <2> QED BY <2>1, <2>2 DEF Inductive, Followed
<1> QED BY <1>1, Invariance, PTL

(* Every file reported as applied on a page without a rollback is in place, *)
(* reloaded, and its base is recorded.                                     *)
THEOREM AppliedRuns == Spec => []AppliedMeansRunning
<1>1. Inductive => AppliedMeansRunning
  BY InJob, JobFields DEF AppliedMeansRunning, Inductive, Followed, InOrder
<1> QED BY <1>1, Invariance, PTL

(* rollback_created_resources leaves no resource of this Apply that it     *)
(* knows of.                                                               *)
THEOREM UndoDeletes == Spec => []UndoneMeansDeleted
<1>1. Inductive => UndoneMeansDeleted
  BY DEF UndoneMeansDeleted, At, Inductive, Owned
<1> QED BY <1>1, Invariance, PTL

(* No write replaces a content the user has not reviewed.                  *)
LEMMA ReviewedStep ==
    ASSUME Inductive, [Next]_vars, NEW f \in Files,
           At("write"), live'[f] # live[f], edits' = edits
    PROVE  live[f] = form.live[f] \/ f \in job.touched
<1>1. edits \in Nat
  BY DEF Inductive, TypeOK
<1>2. ASSUME NEW g \in Files, WriteFile(g) \/ ReadbackFails(g)
      PROVE  f \in job.planned
  BY <1>2 DEF WriteFile, ReadbackFails, SetLive, Inductive, TypeOK
<1>3. \E g \in Files : WriteFile(g) \/ ReadbackFails(g)
  <2>1. CASE UNCHANGED vars
    BY <2>1 DEF vars
  <2>2. CASE Review \/ InitializeBases
             \/ \E files \in SUBSET Files, modules \in SUBSET Modules, dashboards \in BOOLEAN :
                    Apply(files, modules, dashboards)
    BY <2>2 DEF Review, InitializeBases, Apply, haVars
  <2>3. CASE \E g \in Files : WriteFile(g) \/ ReadbackFails(g) \/ Restore(g) \/ RestoreFails(g)
    BY <2>3 DEF At, Restore, RestoreFails, haVars
  <2>4. CASE WriteFails \/ ActivatePackages \/ (\E g \in Files : ActivateOther(g)) \/ ActivationFails
    BY <2>4 DEF WriteFails, ActivatePackages, ActivateOther, ActivationFails, haVars
  <2>5. CASE \E m \in Modules : CacheBust(m) \/ CreateResource(m) \/ CreateUnanswered(m)
    BY <2>5 DEF CacheBust, CreateResource, CreateUnanswered
  <2>6. CASE SaveBases \/ SaveBasesFails \/ JournalFails \/ ReloadAgain
    BY <2>6 DEF SaveBases, SaveBasesFails, JournalFails, ReloadAgain, haVars
  <2>7. CASE ListResources \/ ResourceFails \/ DeleteFails \/ AllDeleted \/ Dashboards
             \/ (job # NoJob /\ \E c \in job.created : DeleteCreated(c))
    BY <2>7 DEF ListResources, ResourceFails, DeleteFails, AllDeleted, Dashboards,
                DeleteCreated, haVars
  <2>8. CASE \E g \in Files, c \in Values : HaEdit(g, c) \/ GitCommit(g, c)
    BY <1>1, <2>8 DEF HaEdit, GitCommit, haVars
  <2>9. CASE (\E m \in Modules : HaResource(m)) \/ Crash
    BY <2>9 DEF HaResource, Crash, haVars
  <2> QED BY <2>1, <2>2, <2>3, <2>4, <2>5, <2>6, <2>7, <2>8, <2>9 DEF Next
<1> QED BY <1>2, <1>3 DEF Inductive, Followed, At

THEOREM WritesReviewed == Spec => OverwritesWhatWasReviewed
<1>1. Inductive /\ [Next]_vars =>
        [\A f \in Files : At("write") /\ live'[f] # live[f] /\ edits' = edits =>
              live[f] = form.live[f] \/ f \in job.touched]_vars
  BY ReviewedStep
<1> QED BY <1>1, Invariance, PTL DEF Spec, OverwritesWhatWasReviewed

(* A resource that disappears in a step of Import was created by this      *)
(* Apply.                                                                  *)
LEMMA DeletedStep ==
    ASSUME Inductive, [Next]_vars, NEW r \in resources,
           edits' = edits, \A q \in resources' : ~SameResource(r, q)
    PROVE  r.by = "import" /\ r.n = applies /\ (At("undo") \/ At("unwind"))
<1>1. edits \in Nat /\ r \notin resources' /\ resources \subseteq Resources
  BY DEF Inductive, TypeOK, SameResource
<1>2. ASSUME job # NoJob, NEW c \in job.created, DeleteCreated(c)
      PROVE  r.by = "import" /\ r.n = applies /\ (At("undo") \/ At("unwind"))
  BY <1>1, <1>2 DEF DeleteCreated, Holds, SameResource, Inductive, Owned
<1>3. ASSUME NEW m \in Modules, CacheBust(m)
      PROVE  FALSE
  <2>1. job # NoJob /\ form.git[m] \in Contents
    BY <1>3, InJob DEF CacheBust, At, Inductive, InOrder, Writing
  <2>2. CASE resources' = Versioned(m, resources)
    BY <1>1, <2>1, <2>2, VersionedFields
  <2> QED BY <1>1, <1>3, <2>2 DEF CacheBust
<1>4. ASSUME NEW m \in Modules, CreateResource(m)
      PROVE  FALSE
  <2> DEFINE rs == resources \cup {Created(m)}
  <2>1. rs \subseteq Resources
    BY <1>1, CreatedFields
  <2>2. form.git[m] # Absent => form.git[m] \in Contents
    BY <1>4, InJob DEF CreateResource, At, Values, Files
  <2>3. \/ resources' = rs
        \/ form.git[m] # Absent /\ resources' = Versioned(m, rs)
    BY <1>4 DEF CreateResource
  <2> HIDE DEF rs
  <2>4. \A q \in rs : \E s \in resources' : SameResource(q, s)
    BY <2>1, <2>2, <2>3, VersionedFields DEF SameResource
  <2> QED BY <2>4 DEF rs
<1>5. CASE UNCHANGED vars
  BY <1>1, <1>5 DEF vars
<1>6. CASE Review \/ InitializeBases
           \/ \E files \in SUBSET Files, modules \in SUBSET Modules, dashboards \in BOOLEAN :
                  Apply(files, modules, dashboards)
  BY <1>1, <1>6 DEF Review, InitializeBases, Apply, haVars
<1>7. CASE \E g \in Files : WriteFile(g) \/ ReadbackFails(g) \/ Restore(g) \/ RestoreFails(g)
  BY <1>1, <1>7 DEF WriteFile, ReadbackFails, Restore, RestoreFails, haVars
<1>8. CASE WriteFails \/ ActivatePackages \/ (\E f \in Files : ActivateOther(f)) \/ ActivationFails
  BY <1>1, <1>8 DEF WriteFails, ActivatePackages, ActivateOther, ActivationFails, haVars
<1>9. CASE \E m \in Modules : CreateUnanswered(m)
  BY <1>1, <1>9 DEF CreateUnanswered
<1>10. CASE SaveBases \/ SaveBasesFails \/ JournalFails \/ ReloadAgain
  BY <1>1, <1>10 DEF SaveBases, SaveBasesFails, JournalFails, ReloadAgain, haVars
<1>11. CASE ListResources \/ ResourceFails \/ DeleteFails \/ AllDeleted \/ Dashboards
  BY <1>1, <1>11 DEF ListResources, ResourceFails, DeleteFails, AllDeleted, Dashboards, haVars
<1>12. CASE \E g \in Files, c \in Values : HaEdit(g, c) \/ GitCommit(g, c)
  BY <1>1, <1>12 DEF HaEdit, GitCommit, haVars
<1>13. CASE (\E m \in Modules : HaResource(m)) \/ Crash
  BY <1>1, <1>13 DEF HaResource, Crash, haVars
<1> QED BY <1>2, <1>3, <1>4, <1>5, <1>6, <1>7, <1>8, <1>9, <1>10, <1>11, <1>12, <1>13 DEF Next

(* Only resources this Apply created are deleted, and only to undo it.     *)
THEOREM DeletesOwn == Spec => OnlyOwnResourcesDeleted
<1>1. Inductive /\ [Next]_vars =>
        [\A r \in resources : edits' = edits /\ (\A s \in resources' : ~SameResource(r, s)) =>
              r.by = "import" /\ r.n = applies /\ (At("undo") \/ At("unwind"))]_vars
  BY DeletedStep
<1> QED BY <1>1, Invariance, PTL DEF Spec, OnlyOwnResourcesDeleted

=============================================================================
