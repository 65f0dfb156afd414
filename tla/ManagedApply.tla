---------------------------- MODULE ManagedApply ----------------------------
(***************************************************************************)
(* Import's Apply of managed files (packages, frontend modules, custom     *)
(* templates) and of the Lovelace resources of frontend modules:           *)
(* import/managed_files.py and the part of _apply_plan that calls it.      *)
(*                                                                         *)
(* Import handles one request at a time (REPO_LOCK, APPLY_LOCK).  `job` is *)
(* the Apply in progress; job.pc names the step that comes next.  Users    *)
(* edit files and resources in HA at any moment, also between two steps.   *)
(***************************************************************************)
EXTENDS Naturals, FiniteSets

CONSTANTS
    Packages, Modules, Templates,   \* the allowlisted files, by profile
    Contents,                       \* file contents; a SHA-256 is its content
    Absent,                         \* no such file
    NoBase,                         \* no base recorded
    Plain,                          \* a resource URL without a version query
    NoForm, NoJob,
    Faults,                         \* which external failures can happen
    InitialLive, InitialGit,        \* what files hold at first
    MaxEdits, MaxCommits, MaxApplies  \* bounds

FaultKinds == {"write",     \* a backup or a write of a file raises
               "readback",  \* the read after a write raises or differs
               "activate",  \* invalid configuration, or the reload fails
               "ha",        \* a resource call raises without an effect
               "lost",      \* a resource is created but the answer is lost
               "bases",     \* the bases file cannot be saved
               "journal",   \* the journal cannot be written
               "restore",   \* a backup cannot be restored
               "crash"}     \* Import stops

Files == Packages \cup Modules \cup Templates
Loadable == Packages \cup Templates
Values == Contents \cup {Absent}

ASSUME SpecialValues ==
    /\ Absent \notin Contents /\ NoBase \notin Values /\ Plain \notin Contents
    /\ Packages \cap Modules = {} /\ Templates \cap (Packages \cup Modules) = {}
ASSUME BoundsAreNatural == {MaxEdits, MaxCommits, MaxApplies} \subseteq Nat
ASSUME FaultsAreKnown == Faults \subseteq FaultKinds
ASSUME InitialValues == InitialLive \subseteq Values /\ InitialGit \subseteq Values

VARIABLES
    live,       \* the files below the HA configuration directory
    loaded,     \* what the running HA has loaded of packages and templates
    resources,  \* HA's Lovelace resources
    git,        \* the files of the source revision a review would resolve to
    head,       \* its commit
    bases,      \* /data/managed-file-bases.json
    form,       \* the review the user has open
    job,        \* the Apply in progress
    applies,    \* Applies so far
    edits,      \* user edits so far
    seen        \* history: every content LIVE has held, per file

vars == <<live, loaded, resources, git, head, bases, form, job, applies, edits, seen>>
haVars == <<live, loaded, resources, seen>>
gitVars == <<git, head>>

-----------------------------------------------------------------------------
(* Values *)

\* A resource is named by who created it; HA gives ids it never uses again.
Resources == [by : {"user", "import"}, n : Nat, file : Modules,
              kind : {"module", "other"}, version : Contents \cup {Plain}]
SameResource(r, s) == r.by = s.by /\ r.n = s.n /\ r.file = s.file
Matches(m, rs) == {r \in rs : r.file = m}

\* classify_file, the three-way comparison of a managed file.
Classify(desired, current, base) ==
    CASE desired = Absent -> "ERROR"
      [] desired # Absent /\ base = NoBase ->
             IF current = Absent THEN "READY"
             ELSE IF desired = current THEN "MISSING BASE" ELSE "NO BASE"
      [] desired # Absent /\ base # NoBase /\ desired = current -> "SAME"
      [] desired # Absent /\ base # NoBase /\ desired # current ->
             IF current = base THEN "READY"
             ELSE IF desired = base THEN "CHANGED IN HA" ELSE "CONFLICT"
Applyable(status) == status \in {"READY", "NO BASE"}

\* classify_resource, with the fingerprint the form carries.
Fingerprint(m, rs) ==
    LET ms == Matches(m, rs)
    IN  IF ms = {} THEN "missing"
        ELSE IF Cardinality(ms) > 1 THEN "many"
        ELSE (CHOOSE r \in ms : TRUE).kind
Creatable(print) == print = "missing"

FormOf == [head |-> head, live |-> live, git |-> git,
           status |-> [f \in Files |-> Classify(git[f], live[f], bases[f])],
           prints |-> [m \in Modules |-> Fingerprint(m, resources)]]

-----------------------------------------------------------------------------
(* The steps of a job *)

PCs == {"write", "packages", "others", "bust", "rollback", "reload",
        "list", "resources", "undo", "dashboards", "unwind"}
\* What the result page says of the whole Apply.
Reports == {"rolled back", "resources failed"}

\* The next step of apply_managed_files, given what there is left to do.
AfterWrites(written) == IF written \cap Packages # {} THEN "packages" ELSE "others"
AfterRestore(j) ==
    IF j.written # {} THEN "rollback" ELSE IF j.repackage THEN "reload" ELSE "list"

At(pc) == job # NoJob /\ job.pc = pc
Goto(pc) == job' = [job EXCEPT !.pc = pc]
Aborts == job' = NoJob

\* What `except Exception` of apply_managed_files restores.  The message "failed
\* and rolled back" is written at the end in any case, so it counts from the
\* moment the last file is dealt with.  The lines of files reported as applied so
\* far stay on the page beside it.
RollsBack(j) ==
    job' = [j EXCEPT !.pc = AfterRestore(j),
                     !.said = IF j.written = {} THEN @ \cup {"rolled back"} ELSE @]

\* The clause starts by writing the journal.  If that raises, the exception leaves
\* apply_managed_files and the Apply with nothing restored.
Fails(j) == RollsBack(j) \/ ("journal" \in Faults /\ Aborts)

-----------------------------------------------------------------------------
\* The resource an earlier Apply created.
EarlierResource(m) ==
    [by |-> "import", n |-> 0, file |-> m, kind |-> "module", version |-> Plain]

Init ==
    /\ live \in [Files -> InitialLive]
    /\ git \in [Files -> InitialGit]
    /\ loaded = [f \in Loadable |-> live[f]]
    /\ resources \in {{}} \cup {{EarlierResource(m)} : m \in Modules}
    /\ head = 0
    /\ bases = [f \in Files |-> NoBase]
    /\ form = NoForm
    /\ job = NoJob
    /\ applies = 0
    /\ edits = 0
    /\ seen = [f \in Files |-> {live[f]}]

\* collect_managed_changes and collect_resource_changes for the review page.
\* Preview staging writes below www/.config-sync-preview only.  (Bounded: what is
\* reviewed after the last Apply cannot be applied.)
Review ==
    /\ job = NoJob /\ applies < MaxApplies
    /\ form' = FormOf
    /\ UNCHANGED <<haVars, gitVars, bases, job, applies, edits>>

\* Mutant: files that differ from Git get Git's hash as their base too.
InitializeDrift ==
    /\ job = NoJob
    /\ bases' = [f \in Files |->
           IF bases[f] = NoBase /\ git[f] # Absent THEN git[f] ELSE bases[f]]
    /\ UNCHANGED <<haVars, gitVars, form, job, applies, edits>>

\* managed_initialize_bases: adopt files that equal Git and have no base.
InitializeBases ==
    /\ job = NoJob
    /\ bases' = [f \in Files |->
           IF Classify(git[f], live[f], bases[f]) = "MISSING BASE" THEN git[f] ELSE bases[f]]
    /\ UNCHANGED <<haVars, gitVars, form, job, applies, edits>>

\* Mutant: LIVE is not compared with the review again.
MayWriteUnreviewed(f) ==
    /\ Applyable(Classify(git[f], live[f], bases[f]))
    /\ git[f] = form.git[f]

\* A file passes the checks that precede all writes: a fresh classification, the
\* hashes of the review, and a last read of LIVE.
MayWrite(f) ==
    /\ Applyable(Classify(git[f], live[f], bases[f]))
    /\ live[f] = form.live[f]
    /\ git[f] = form.git[f]

\* _apply_plan up to the first write.  A moved source is refused; files that
\* fail a check are reported and left out.  Whether dashboards are selected too
\* matters here only after resources.
Apply(files, modules, dashboards) ==
    /\ job = NoJob /\ form # NoForm
    /\ applies < MaxApplies
    /\ form.head = head
    /\ files \cup modules # {} /\ (dashboards => modules # {})
    /\ \A f \in files : Applyable(form.status[f])
    /\ \A m \in modules : Creatable(form.prints[m])
    /\ LET planned == {f \in files : MayWrite(f)}
       IN  job' = [pc |-> IF planned = {} THEN "list" ELSE "write",
                   planned |-> planned, backup |-> [f \in planned |-> live[f]],
                   written |-> {}, unrestored |-> {}, touched |-> {}, reported |-> {},
                   repackage |-> FALSE, bust |-> {}, modules |-> modules,
                   listed |-> {}, created |-> {}, lost |-> {},
                   dashboards |-> dashboards, said |-> {}]
    /\ applies' = applies + 1
    /\ UNCHANGED <<haVars, gitVars, bases, form, edits>>

SetLive(f, c) ==
    /\ live' = [live EXCEPT ![f] = c]
    /\ seen' = [seen EXCEPT ![f] = @ \cup {c}]

\* Back up what the last read of LIVE returned, replace the file, read it back.
WriteFile(f) ==
    /\ At("write") /\ f \in job.planned
    /\ SetLive(f, form.git[f])
    /\ LET rest == job.planned \ {f}
           written == job.written \cup {f}
       IN  job' = [job EXCEPT !.planned = rest, !.written = written,
                   !.bust = (written \cap Modules) \ job.modules,
                   !.pc = IF rest # {} THEN "write" ELSE AfterWrites(written)]
    /\ UNCHANGED <<loaded, resources, gitVars, bases, form, applies, edits>>

\* The backup or the write raises; the file is not yet in written_metas.
WriteFails ==
    /\ "write" \in Faults
    /\ At("write")
    /\ Fails(job)
    /\ UNCHANGED <<haVars, gitVars, bases, form, applies, edits>>

\* The file is replaced but the read-back raises: it is not in written_metas
\* either, so the rollback does not restore it.
ReadbackFails(f) ==
    /\ "readback" \in Faults
    /\ At("write") /\ f \in job.planned
    /\ SetLive(f, form.git[f])
    /\ Fails([job EXCEPT !.unrestored = @ \cup {f}])
    /\ UNCHANGED <<loaded, resources, gitVars, bases, form, applies, edits>>

\* activate_package: check_config and reload_all, once for all packages.
\* reload_all reloads the custom templates too.  (Some package platforms need a
\* restart of Core on top, as the message says.)  Every package is then reported
\* as applied.
ActivatePackages ==
    /\ At("packages")
    /\ loaded' = [f \in Loadable |-> live[f]]
    /\ LET reported == job.written \cap Packages
       IN  job' = [job EXCEPT !.reported = reported,
                   !.pc = IF reported = job.written THEN "bust" ELSE "others"]
    /\ UNCHANGED <<live, resources, seen, gitVars, bases, form, applies, edits>>

\* Mutant: a template is not reloaded if any file was activated before it.
TemplatesAreLoadedByAny == job.reported # {}

\* Templates are not reloaded again if packages were.
TemplatesAreLoaded == job.written \cap Packages # {}

NeedsReload(f) == f \in Templates /\ ~TemplatesAreLoaded

\* activate_custom_template reloads all templates; frontend modules need no
\* activation.  Each file is reported at once, before the next is activated.
ActivateOther(f) ==
    /\ At("others") /\ f \in job.written \ job.reported
    /\ loaded' = [g \in Loadable |->
           IF g \in Templates /\ NeedsReload(f) THEN live[g] ELSE loaded[g]]
    /\ LET reported == job.reported \cup {f}
       IN  job' = [job EXCEPT !.reported = reported,
                   !.pc = IF reported = job.written THEN "bust" ELSE "others"]
    /\ UNCHANGED <<live, resources, seen, gitVars, bases, form, applies, edits>>

\* The check says invalid, or the reload raises, having had an effect or not.
ActivationFails ==
    /\ "activate" \in Faults
    /\ At("packages") \/ (At("others") /\ \E f \in job.written \ job.reported : NeedsReload(f))
    /\ \/ UNCHANGED loaded
       \/ loaded' = [f \in Loadable |->
              IF At("packages") \/ f \in Templates THEN live[f] ELSE loaded[f]]
    /\ Fails(job)
    /\ UNCHANGED <<live, resources, seen, gitVars, bases, form, applies, edits>>

\* apply_frontend_cache_bust: the one resource of the module gets the content
\* hash as its version.  Anything else is a warning.
Versioned(m, rs) ==
    IF Cardinality(Matches(m, rs)) # 1 THEN rs
    ELSE {IF r.file = m THEN [r EXCEPT !.version = form.git[m]] ELSE r : r \in rs}

CacheBust(m) ==
    /\ At("bust") /\ m \in job.bust
    /\ \/ resources' = Versioned(m, resources)
       \/ "ha" \in Faults /\ UNCHANGED resources
    /\ job' = [job EXCEPT !.bust = @ \ {m}]
    /\ UNCHANGED <<live, loaded, seen, gitVars, bases, form, applies, edits>>

\* Mutant: the bases of all files move, written or not.
NewBasesOfAll == [f \in Files |-> form.git[f]]

\* set_base_hash of every file that was written and activated.
NewBases == [f \in Files |-> IF f \in job.reported THEN form.git[f] ELSE bases[f]]

\* save_bases and the end of a managed Apply that went well.
SaveBases ==
    /\ At("bust") /\ job.bust = {}
    /\ bases' = NewBases
    /\ Goto("list")
    /\ UNCHANGED <<haVars, gitVars, form, applies, edits>>

SaveBasesFails ==
    /\ "bases" \in Faults
    /\ At("bust") /\ job.bust = {}
    /\ Fails(job)
    /\ UNCHANGED <<haVars, gitVars, bases, form, applies, edits>>

\* write_journal raises: before or within the writes, before the activation, after
\* the bases are saved, or at the end of a rollback; outside the try block, and
\* within the except clause, that ends the Apply.
JournalFails ==
    /\ "journal" \in Faults
    /\ \/ At("write") /\ Fails(job) /\ UNCHANGED bases
       \/ At("packages") /\ Fails(job) /\ UNCHANGED bases
       \/ At("others") /\ job.reported = {} /\ Fails(job) /\ UNCHANGED bases
       \/ At("bust") /\ job.bust = {} /\ bases' = NewBases /\ Fails(job)
       \/ At("list") /\ "rolled back" \in job.said /\ Aborts /\ UNCHANGED bases
    /\ UNCHANGED <<haVars, gitVars, form, applies, edits>>

\* Mutant: a file that did not exist before is not removed again.
RestoreExisting(f) ==
    /\ At("rollback") /\ f \in job.written
    /\ SetLive(f, IF job.backup[f] = Absent THEN live[f] ELSE job.backup[f])
    /\ RollsBack([job EXCEPT !.written = @ \ {f}, !.repackage = @ \/ f \in Packages])
    /\ UNCHANGED <<loaded, resources, gitVars, bases, form, applies, edits>>

\* restore_backup of one written file.
Restore(f) ==
    /\ At("rollback") /\ f \in job.written
    /\ SetLive(f, job.backup[f])
    /\ RollsBack([job EXCEPT !.written = @ \ {f}, !.repackage = @ \/ f \in Packages])
    /\ UNCHANGED <<loaded, resources, gitVars, bases, form, applies, edits>>

RestoreFails(f) ==
    /\ "restore" \in Faults
    /\ At("rollback") /\ f \in job.written
    /\ RollsBack([job EXCEPT !.written = @ \ {f}, !.unrestored = @ \cup {f}])
    /\ UNCHANGED <<haVars, gitVars, bases, form, applies, edits>>

\* The second activate_package.  A failing check or reload is returned, not
\* raised, and what it returns is not looked at.
ReloadAgain ==
    /\ At("reload")
    /\ \/ loaded' = [f \in Loadable |-> live[f]]
       \/ "activate" \in Faults /\ UNCHANGED loaded
    /\ Goto("list")
    /\ UNCHANGED <<live, resources, seen, gitVars, bases, form, applies, edits>>

-----------------------------------------------------------------------------
(* Resources, then dashboards.  The resource step runs whatever became of the *)
(* managed files.                                                              *)

\* The step after the last resource: dashboards are skipped if one failed.
NextResource(j) ==
    job' = IF j.modules # {} THEN j
           ELSE IF j.dashboards /\ "resources failed" \notin j.said
                THEN [j EXCEPT !.pc = "dashboards"] ELSE NoJob

ListResources ==
    /\ At("list")
    /\ \/ job.modules = {} /\ NextResource(job)
       \/ /\ job.modules # {}
          /\ job' = [job EXCEPT !.pc = "resources", !.listed = resources]
       \/ job.modules # {} /\ "ha" \in Faults /\ Aborts
    /\ UNCHANGED <<haVars, gitVars, bases, form, applies, edits>>

\* A call raises, or a resource is not what was reviewed: delete what was created.
ResourceFails ==
    /\ At("resources")
    /\ \/ "ha" \in Faults
       \/ \E m \in job.modules : Fingerprint(m, job.listed) # form.prints[m]
    /\ Goto("undo")
    /\ UNCHANGED <<haVars, gitVars, bases, form, applies, edits>>

Created(m) == [by |-> "import", n |-> applies, file |-> m, kind |-> "module", version |-> Plain]

\* Mutant: the id is noted only if the verification succeeds.
NotedIfVerified(m, rs) == IF Cardinality(Matches(m, rs)) = 1 THEN {Created(m)} ELSE {}

\* created_ids gets the id as soon as HA answers (always with the id), before any
\* verification.
Noted(m, rs) == {Created(m)}

\* create_lovelace_resource, the list that verifies it, and the cache bust of the
\* new resource with the hash of the file in Git.  A warning of the cache bust
\* makes the resource step a failed one, without deleting anything.  A list that
\* raises, or shows something else, does.
CreateResource(m) ==
    /\ At("resources") /\ m \in job.modules
    /\ Fingerprint(m, job.listed) = form.prints[m] /\ Creatable(form.prints[m])
    /\ LET rs == resources \cup {Created(m)}
           j == [job EXCEPT !.modules = @ \ {m}, !.listed = rs,
                         !.created = @ \cup Noted(m, rs)]
           verified == Cardinality(Matches(m, rs)) = 1 /\ form.git[m] # Absent
       IN  \/ verified /\ resources' = Versioned(m, rs) /\ NextResource(j)
           \/ /\ verified /\ "ha" \in Faults
              /\ resources' = rs
              /\ NextResource([j EXCEPT !.said = @ \cup {"resources failed"}])
           \/ /\ ~verified \/ "ha" \in Faults
              /\ resources' = rs /\ job' = [j EXCEPT !.pc = "undo"]
    /\ UNCHANGED <<live, loaded, seen, gitVars, bases, form, applies, edits>>

\* HA creates the resource, the call raises all the same: its id is unknown.
CreateUnanswered(m) ==
    /\ "lost" \in Faults
    /\ At("resources") /\ m \in job.modules
    /\ Fingerprint(m, job.listed) = form.prints[m]
    /\ Creatable(form.prints[m])
    /\ resources' = resources \cup {Created(m)}
    /\ job' = [job EXCEPT !.pc = "undo", !.lost = @ \cup {Created(m)}]
    /\ UNCHANGED <<live, loaded, seen, gitVars, bases, form, applies, edits>>

\* Mutant: the resource to delete is looked up by its URL.
HoldsUrl(c) == Matches(c.file, resources)

\* The resource with the id of c, if HA still has it.
Holds(c) == {r \in resources : SameResource(r, c)}

\* rollback_created_resources deletes by id; HA refuses an id that is gone.
DeleteCreated(c) ==
    /\ At("undo") \/ At("unwind")
    /\ c \in job.created /\ Holds(c) # {}
    /\ resources' = resources \ Holds(c)
    /\ job' = [job EXCEPT !.created = @ \ {c}]
    /\ UNCHANGED <<live, loaded, seen, gitVars, bases, form, applies, edits>>

DeleteFails ==
    /\ At("undo") \/ At("unwind")
    /\ job.created # {}
    /\ "ha" \in Faults \/ \E c \in job.created : Holds(c) = {}
    /\ Aborts
    /\ UNCHANGED <<haVars, gitVars, bases, form, applies, edits>>

\* Everything created is deleted, and the page says so.
AllDeleted ==
    /\ At("undo") \/ At("unwind")
    /\ job.created = {}
    /\ Aborts
    /\ UNCHANGED <<haVars, gitVars, bases, form, applies, edits>>

\* The dashboards of the same Apply (module DashboardSync): some are applied, or
\* none, or the step raises, which leaves _apply_plan without a rollback.
Dashboards ==
    /\ At("dashboards")
    /\ Aborts \/ (job.created # {} /\ Goto("unwind"))
    /\ UNCHANGED <<haVars, gitVars, bases, form, applies, edits>>

-----------------------------------------------------------------------------
(* Users, developers, crashes *)

Touch(f) == job' = IF job = NoJob THEN NoJob ELSE [job EXCEPT !.touched = @ \cup {f}]

\* A user edits, creates or deletes a file in HA, and reloads it or not.
HaEdit(f, c) ==
    /\ edits < MaxEdits /\ c # live[f]
    /\ SetLive(f, c)
    /\ \/ UNCHANGED loaded
       \/ f \in Loadable /\ loaded' = [loaded EXCEPT ![f] = c]
    /\ Touch(f)
    /\ edits' = edits + 1
    /\ UNCHANGED <<resources, gitVars, bases, form, applies>>

\* A user registers, changes or deletes a resource in HA.
HaResource(m) ==
    /\ edits < MaxEdits
    /\ \/ \E kind \in {"module", "other"} :
             resources' = resources \cup
                 {[by |-> "user", n |-> edits, file |-> m, kind |-> kind, version |-> Plain]}
       \/ \E r \in Matches(m, resources) : resources' = resources \ {r}
    /\ edits' = edits + 1
    /\ UNCHANGED <<live, loaded, seen, gitVars, bases, form, job, applies>>

\* The source moves on, or another source is selected.  An Apply works on the
\* checkout it made at its start, so a commit meanwhile is one after it.
GitCommit(f, c) ==
    /\ job = NoJob
    /\ head < MaxCommits /\ c # git[f]
    /\ git' = [git EXCEPT ![f] = c]
    /\ head' = head + 1
    /\ UNCHANGED <<haVars, bases, form, job, applies, edits>>

\* Import stops.  The journal it leaves behind is never read.
Crash ==
    /\ "crash" \in Faults
    /\ job # NoJob
    /\ job' = NoJob
    /\ form' = NoForm
    /\ UNCHANGED <<haVars, gitVars, bases, applies, edits>>

Next ==
    \/ Review \/ InitializeBases
    \/ \E files \in SUBSET Files, modules \in SUBSET Modules, dashboards \in BOOLEAN :
           Apply(files, modules, dashboards)
    \/ \E f \in Files : WriteFile(f) \/ ReadbackFails(f) \/ Restore(f) \/ RestoreFails(f)
    \/ WriteFails \/ ActivatePackages \/ (\E f \in Files : ActivateOther(f)) \/ ActivationFails
    \/ \E m \in Modules : CacheBust(m) \/ CreateResource(m) \/ CreateUnanswered(m)
    \/ SaveBases \/ SaveBasesFails \/ JournalFails \/ ReloadAgain
    \/ ListResources \/ ResourceFails
    \/ (job # NoJob /\ \E c \in job.created : DeleteCreated(c))
    \/ DeleteFails \/ AllDeleted \/ Dashboards
    \/ \E f \in Files, c \in Values : HaEdit(f, c) \/ GitCommit(f, c)
    \/ \E m \in Modules : HaResource(m)
    \/ Crash

Spec == Init /\ [][Next]_vars

-----------------------------------------------------------------------------
(* Properties *)

Jobs == [pc : PCs, planned : SUBSET Files, backup : UNION {[S -> Values] : S \in SUBSET Files},
         written : SUBSET Files, unrestored : SUBSET Files, touched : SUBSET Files,
         reported : SUBSET Files,
         repackage : BOOLEAN, bust : SUBSET Modules, modules : SUBSET Modules,
         listed : SUBSET Resources, created : SUBSET Resources, lost : SUBSET Resources,
         dashboards : BOOLEAN, said : SUBSET Reports]

TypeOK ==
    /\ live \in [Files -> Values] /\ git \in [Files -> Values]
    /\ loaded \in [Loadable -> Values]
    /\ bases \in [Files -> Contents \cup {NoBase}]
    /\ resources \subseteq Resources
    /\ seen \in [Files -> SUBSET Values]
    /\ {head, applies, edits} \subseteq Nat
    /\ form # NoForm => {form.live, form.git} \subseteq [Files -> Values]
    /\ job # NoJob => job \in Jobs /\ form # NoForm

LiveWasSeen == \A f \in Files : live[f] \in seen[f]

\* A base records a content LIVE has held: neither "Initialize" nor an Apply that
\* fails or is cut short makes Git's file a base that HA never had.
BasesWereLive == \A f \in Files : bases[f] # NoBase => bases[f] \in seen[f]

Writing == {"write", "packages", "others", "bust"}

\* Nothing has failed among the managed files of this Apply.
GoingWell == job.pc # "rollback" /\ "rolled back" \notin job.said

\* The bookkeeping of a job: a file is planned or written, never both, the
\* backups cover both, and nothing is reported before it is decided.
InOrder ==
    job # NoJob =>
        /\ job.planned \cup job.written \subseteq DOMAIN job.backup
        /\ (job.planned \cup job.unrestored) \cap job.written = {}
        /\ \A f \in job.planned \cup job.written : form.git[f] # Absent
        /\ job.pc \in Writing => job.bust \subseteq job.written /\ job.unrestored = {}
        /\ job.pc \in Writing \cup {"rollback"} => job.said = {}
        /\ job.pc \in {"write", "packages"} => job.reported = {}
        /\ job.pc = "others" => job.written \cap Packages \subseteq job.reported
        /\ job.pc = "bust" => job.reported = job.written
        /\ GoingWell => job.reported \subseteq job.written
        /\ "rolled back" \in job.said => job.written = {}
        /\ job.pc = "reload" => "rolled back" \in job.said

\* A file that is written and not restored holds what Git has of it, any other
\* file of the job what it held before, unless it counts as touched or not
\* restored.
Followed ==
    job # NoJob => \A f \in Files :
        /\ f \in job.written => form.git[f] \in seen[f]
        /\ f \in job.written \ job.touched => live[f] = form.git[f]
        /\ f \in DOMAIN job.backup \ (job.written \cup job.unrestored \cup job.touched) =>
               live[f] = job.backup[f]
        /\ f \in job.planned \ job.touched /\ job.pc = "write" => live[f] = form.live[f]
        /\ f \in job.written \ job.touched /\ f \in Loadable
              /\ job.pc = "others" /\ TemplatesAreLoaded => loaded[f] = form.git[f]
        /\ f \in job.reported \ job.touched /\ f \in Loadable
              /\ GoingWell => loaded[f] = form.git[f]
        /\ f \in job.reported /\ GoingWell /\ job.pc \notin Writing => bases[f] = form.git[f]

\* Every resource of this Apply is one it noted, or one it does not know of.
Owned ==
    /\ \A r \in resources : r.by = "import" => r.n <= applies
    /\ job # NoJob =>
           /\ \A c \in job.created : c.by = "import" /\ c.n = applies
           /\ \A r \in resources : r.by = "import" /\ r.n = applies =>
                  \E c \in job.created \cup job.lost : SameResource(r, c)

\* The inductive invariant behind the properties of files, bases and resources.
Inductive == TypeOK /\ LiveWasSeen /\ BasesWereLive /\ InOrder /\ Followed /\ Owned

\* "Managed Apply failed and rolled back": every file the Apply set out to replace
\* holds what it held before, also one an earlier line reports as applied, unless
\* a user changed it since, a message names it as not restored, or its read-back
\* failed.
RolledBackMeansRestored ==
    job # NoJob /\ "rolled back" \in job.said =>
        \A f \in DOMAIN job.backup \ (job.touched \cup job.unrestored) :
            live[f] = job.backup[f]

\* A file the page reports as applied, on a page that reports no rollback, holds
\* Git's content, HA has reloaded it and its base says so, whatever else was
\* written and activated with it.  (Beside a reported rollback the lines of the
\* files activated before the failure are stale, see RolledBackMeansRestored.)
AppliedMeansRunning ==
    job # NoJob /\ job.pc \notin Writing /\ GoingWell =>
        \A f \in job.reported :
            /\ bases[f] = form.git[f]
            /\ f \notin job.touched =>
                   live[f] = form.git[f] /\ (f \in Loadable => loaded[f] = form.git[f])

\* Once Import has undone a failed resource step, or a failed dashboard step, none
\* of the resources this Apply created is left but one whose answer was lost.
UndoneMeansDeleted ==
    (At("undo") \/ At("unwind")) /\ job.created = {} =>
        \A r \in resources : r.by = "import" /\ r.n = applies =>
            \E c \in job.lost : SameResource(r, c)

\* A write of Apply replaces only what the user saw in the review, unless somebody
\* edits the file after the last read that precedes the writes.
OverwritesWhatWasReviewed ==
    [][\A f \in Files :
          At("write") /\ live'[f] # live[f] /\ edits' = edits =>
              live[f] = form.live[f] \/ f \in job.touched]_vars

\* Apply deletes a resource only if this Apply created it and a later step fails
\* (README line 92); resources of users and of earlier Applies stay.
OnlyOwnResourcesDeleted ==
    [][\A r \in resources :
          edits' = edits /\ (\A s \in resources' : ~SameResource(r, s)) =>
              r.by = "import" /\ r.n = applies /\ (At("undo") \/ At("unwind"))]_vars

\* The version Import gives a resource is the hash of the file HA serves: "a
\* content-derived version query [...] prevents stale browser caches" (README
\* line 75).  The code breaks this; see the run managed_cache.
VersionNamesLive ==
    [][\A r \in resources' \ resources :
          r.version # Plain => live[r.file] = r.version \/ r.file \in job.touched]_vars

=============================================================================
