--------------------------- MODULE DashboardSync ----------------------------
(***************************************************************************)
(* Dashboards travel between Home Assistant and a Git repository along two *)
(* one-way paths that share nothing but files and the Git remote:          *)
(*                                                                         *)
(*   Import  (long-running, REPO_LOCK serialises its requests) reviews one *)
(*           Git revision and, on approval, saves dashboards into HA and   *)
(*           records their provenance in a shared and a local file;        *)
(*   Export  (one-shot) snapshots the LIVE dashboards, clones main, reads  *)
(*           the shared provenance, three-way syncs and pushes to main.    *)
(*                                                                         *)
(* HA users edit LIVE and developers commit to Git at any time.  One       *)
(* action is one external call (WebSocket, file replace, git command) or   *)
(* one run of code between two of them.                                    *)
(***************************************************************************)
EXTENDS DashboardLogic, Integers, Sequences, FiniteSets

CONSTANTS
  Creatable,      (* Dashboards whose URL path HA accepts for creation.    *)
  Unregistered,   (* LIVE: HA has no such dashboard.                       *)
  Unsaved,        (* LIVE: registered, but no configuration was saved.     *)
  NoDashboard,    (* Import is not working on a dashboard.                 *)
  NoForm,         (* The browser shows no review.                          *)
  Faults,         (* Which failures may happen (see Fault).                *)
  Activities,     (* What else happens (see ActivityKinds).                *)
  Overlap,        (* May Export run while Import is inside a request?      *)
  InitialLive,    (* LIVE values an installation may start with.           *)
  InitialGit,     (* Files main may start with.                            *)
  EditValues,     (* LIVE values HA users may set.                         *)
  MaxEdits,       (* Bound: edits by HA users.                             *)
  MaxCommits,     (* Bound: commits by developers.                         *)
  MaxRevisions    (* Bound: revisions in the repository.                   *)

FaultKinds ==
  {"save",         (* create or save raises, without an effect in HA       *)
   "lost_ack",     (* create, save or restore raises after its effect      *)
   "readback",     (* the read before or after a save raises               *)
   "persist",      (* a provenance file cannot be written                  *)
   "restore",      (* restore_dashboard raises                             *)
   "arm",          (* the guard marker cannot be written                   *)
   "crash",        (* Import stops inside a request                        *)
   "edit_race",    (* a user edits the dashboard Import is working on      *)
   "lose_shared",  (* the shared provenance file is deleted or damaged     *)
   "lose_local",   (* the local provenance file is deleted or damaged      *)
   "cache",        (* Export cannot write its cache                        *)
   "export"}       (* Export stops inside a run                            *)

ActivityKinds ==
  {"jobs",         (* approved project jobs apply their commit of main     *)
   "managed"}      (* managed files are applied                            *)

ASSUME ConstantsAssumption ==
  /\ Creatable \subseteq Dashboards
  /\ Shells \subseteq Contents
  /\ Malformed \subseteq Contents
  /\ Faults \subseteq FaultKinds /\ Activities \subseteq ActivityKinds
  /\ InitialLive \subseteq Contents \cup {Unregistered, Unsaved}
  /\ InitialGit \subseteq Contents
  /\ EditValues \subseteq Contents \cup {Unregistered, Unsaved}
  /\ Overlap \in BOOLEAN
  /\ MaxEdits \in Nat /\ MaxCommits \in Nat /\ MaxRevisions \in Nat
  /\ NoDashboard \notin Dashboards

ASSUME DistinctAssumption ==
  /\ {Unregistered, Unsaved, NoFile, NoBase, NoConfig} \cap Contents = {}
  /\ Unregistered # Unsaved /\ NoFile \notin {Unregistered, Unsaved}
  /\ NoEntry \notin Entry

VARIABLES
  live,         (* HA: the LIVE dashboards.                                *)
  git,          (* GitHub: every revision, in commit order.                *)
  head,         (* GitHub: the tips of main and of the feature branch.     *)
  shared,       (* /homeassistant/.config-sync/live-dashboards.json        *)
  marker,       (* ... and the guard marker beside it.                     *)
  local,        (* Import's /data/dashboard-provenance.json                *)
  cache,        (* Export's cached copy in its /data                       *)
  cacheMarker,  (* ... and the marker beside it.                           *)
  form,         (* The Apply form of the review the user has open.         *)
  imp,          (* Import's request in progress.                           *)
  exp,          (* Export's run in progress.                               *)
  edits, commits,        (* How often HA users and developers acted.       *)
  lineage, seen, armed   (* History, for the properties only.              *)

files == <<shared, marker, local, cache, cacheMarker>>
bounds == <<edits, commits>>
vars == <<live, git, head, files, form, imp, exp, bounds, lineage, seen, armed>>

LiveValues == Contents \cup {Unregistered, Unsaved}
Trees == [Dashboards -> Contents \cup {NoFile}]
Bases == [Dashboards -> Contents \cup {NoBase}]
Revision == [tree : Trees, bases : Bases, on : {"main", "feature"}]

Fault(kind) == kind \in Faults

(* What lovelace/config returns: None for both kinds of missing dashboard. *)
Reading(value) == IF value \in Contents THEN value ELSE NoConfig

Readings == Contents \cup {NoConfig}

Main == git[head["main"]]

(* Contents a dashboard ever had in a revision of main.                    *)
MainContents(history, d) ==
  {history[i].tree[d] : i \in {j \in DOMAIN history : history[j].on = "main"}}

(* History variables: whether LIVE descends from a feature deployment      *)
(* (until main itself holds that content), and every content LIVE ever had.*)
Observe(live2, git2, descent) ==
  /\ lineage' = [d \in Dashboards |->
       IF live2[d] \notin Contents \/ live2[d] \in MainContents(git2, d)
       THEN "canonical" ELSE descent[d]]
  /\ seen' = [d \in Dashboards |-> seen[d] \cup ({live2[d]} \cap Contents)]

-----------------------------------------------------------------------------
(* Import's request record.                                                *)

ImportPC == {"idle", "loop", "create", "save", "verify", "discard",
             "undo", "p_shared", "p_marker", "p_local", "rollback", "arm", "reload"}

Statuses == APPLYABLE_STATUSES \cup
  {"SAME", "IN SYNC NO BASE", "CONFLICT", "CHANGED IN HA", "LIVE FROM FEATURE", "ERROR", "NO FILE"}

IdleImport ==
  [pc |-> "idle", after |-> "review", ref |-> "main", sha |-> 1,
   store |-> EmptyStore, next |-> EmptyStore,
   plan |-> [d \in Dashboards |-> [status |-> "SAME", current |-> NoConfig]],
   todo |-> {}, cur |-> NoDashboard, created |-> FALSE, descent |-> "canonical",
   applied |-> {}]

IdleExport ==
  [pc |-> "idle", snap |-> [d \in Dashboards |-> NoConfig],
   descent |-> [d \in Dashboards |-> "canonical"], clone |-> 1,
   tree |-> [d \in Dashboards |-> NoFile], bases |-> [d \in Dashboards |-> NoBase]]

(* Requests and runs overlap freely, or (Overlap = FALSE) one at a time.   *)
MayStart == Overlap \/ (imp.pc = "idle" /\ exp.pc = "idle")

InitialRevision(tree, bases) == [tree |-> tree, bases |-> bases, on |-> "main"]

(* An installation from before provenance existed: nothing is recorded,    *)
(* Git may lack dashboards, and a base exists only where both sides agreed.*)
Init ==
  /\ live \in [Dashboards -> InitialLive]
  /\ \E tree \in [Dashboards -> InitialGit \cup {NoFile}], agreed \in SUBSET Dashboards :
       /\ \A d \in agreed : tree[d] = live[d]
       /\ git = << InitialRevision(tree,
                     [d \in Dashboards |-> IF d \in agreed THEN tree[d] ELSE NoBase]) >>
  /\ head = [b \in {"main", "feature"} |-> 1]
  /\ shared = MissingFile /\ marker = FALSE
  /\ local = MissingFile
  /\ cache = MissingFile /\ cacheMarker = FALSE
  /\ form = NoForm
  /\ imp = IdleImport
  /\ exp = IdleExport
  /\ edits = 0 /\ commits = 0
  /\ lineage = [d \in Dashboards |-> "canonical"]
  /\ seen = [d \in Dashboards |-> {live[d]} \cap Contents]
  /\ armed = {}

-----------------------------------------------------------------------------
(* The environment.                                                        *)

(* A user saves a dashboard in HA, or registers or removes one.            *)
HaEdit(d, value) ==
  /\ edits < MaxEdits
  /\ imp.cur # d \/ Fault("edit_race")
  /\ value # live[d]
  /\ live[d] = Unregistered => value = Unsaved
  /\ live[d] \in Contents => value # Unsaved
  /\ live' = [live EXCEPT ![d] = value]
  /\ Observe(live', git, lineage)
  /\ edits' = edits + 1
  /\ UNCHANGED <<git, head, files, form, imp, exp, commits, armed>>

(* A developer commits one dashboard file to a branch.                     *)
GitCommit(branch, d, content) ==
  /\ commits < MaxCommits
  /\ content # git[head[branch]].tree[d]
  /\ git' = Append(git, [git[head[branch]] EXCEPT !.tree[d] = content, !.on = branch])
  /\ head' = [head EXCEPT ![branch] = Len(git) + 1]
  /\ Observe(live, git', lineage)
  /\ commits' = commits + 1
  /\ UNCHANGED <<live, files, form, imp, exp, edits, armed>>

(* The feature branch is rebased on (or created from) main.                *)
GitRebase ==
  /\ head["feature"] # head["main"]
  /\ head' = [head EXCEPT !["feature"] = head["main"]]
  /\ UNCHANGED <<live, git, files, form, imp, exp, bounds, lineage, seen, armed>>

(* A provenance file is deleted or damaged from outside.                   *)
LoseShared(status) ==
  /\ Fault("lose_shared")
  /\ shared.status = "ok"
  /\ shared' = [MissingFile EXCEPT !.status = status]
  /\ UNCHANGED <<live, git, head, marker, local, cache, cacheMarker, form, imp,
                 exp, bounds, lineage, seen, armed>>

LoseLocal(status) ==
  /\ Fault("lose_local")
  /\ local.status = "ok"
  /\ local' = [MissingFile EXCEPT !.status = status]
  /\ UNCHANGED <<live, git, head, shared, marker, cache, cacheMarker, form, imp,
                 exp, bounds, lineage, seen, armed>>

-----------------------------------------------------------------------------
(* Import: reading the stores and classifying.                             *)

(* live_provenance_store: an absent shared file is rewritten from the      *)
(* local one, ignoring write errors.                                       *)
HealShared ==
  IF shared.status = "missing" /\ local.status = "ok"
  THEN \/ shared' = local /\ marker' = TRUE
       \/ Fault("persist") /\ shared' \in {shared, local} /\ marker' = marker
  ELSE UNCHANGED <<shared, marker>>

Status(d, ref, sha, store) ==
  LET github  == git[sha].tree[d]
      current == Reading(live[d])
  IN  CASE github = NoFile -> "NO FILE"
        [] github # NoFile /\ {github, current} \cap Malformed # {} -> "ERROR"
        [] github # NoFile /\ {github, current} \cap Malformed = {}
             /\ current = NoConfig ->
             classify_missing_ha(d \in Creatable, live[d] # Unregistered)
        [] OTHER ->
             classify_with_provenance(github, current, git[sha].bases[d],
                                      IsCanonicalSource(ref), store[d])

Adoptable(ref, sha, store) ==
  {d \in Dashboards :
     /\ live[d] \in Contents \ Malformed
     /\ ShouldAdopt(git[sha].tree[d], live[d], IsCanonicalSource(ref), store[d])}

Plan(ref, sha, store) ==
  [d \in Dashboards |-> [status  |-> Status(d, ref, sha, store),
                         current |-> Reading(live[d])]]

(* collect_changes up to its persist: the request continues with the loop, *)
(* or first writes the adopted records.                                    *)
CollectChanges(request) ==
  LET store   == LoadImportStore(local, shared)
      adopted == Adoptable(request.ref, request.sha, store)
      adopt   == [request EXCEPT !.pc = "p_shared", !.store = store,
                    !.next = AdoptCanonical(store, adopted, live)]
  IN  /\ HealShared
      /\ imp' = IF adopted # {} THEN adopt ELSE request

-----------------------------------------------------------------------------
(* Import: a review, and the start of an Apply.                            *)

(* The revisions a request may use: any commit, the tip of a branch, or,   *)
(* for an approved project job, the commit of main it is pinned to.        *)
MainRevisions == {i \in DOMAIN git : git[i].on = "main"}
RevisionsOf(ref, pinned) ==
  CASE ref = "commit" -> DOMAIN git
    [] ref # "commit" /\ pinned -> MainRevisions
    [] ref # "commit" /\ ~ pinned -> {head[ref]}

ReviewForm(ref, sha, pinned) ==
  LET plan  == Plan(ref, sha, LoadImportStore(local, shared))
      ready == {d \in Dashboards : plan[d].status \in APPLYABLE_STATUSES}
  IN  [ref |-> ref, sha |-> sha, pinned |-> pinned, ready |-> ready,
       preview |-> [d \in ready |-> plan[d].current],
       desired |-> [d \in ready |-> git[sha].tree[d]]]

(* The user opens a review, whose form replaces the one before; the form   *)
(* may be submitted at any later time, and more than once.                 *)
Review(ref, sha, pinned) ==
  /\ imp.pc = "idle" /\ MayStart
  /\ pinned => ref = "main" /\ "jobs" \in Activities
  /\ sha \in RevisionsOf(ref, pinned)
  /\ CollectChanges([IdleImport EXCEPT !.ref = ref, !.sha = sha])
  /\ form' = ReviewForm(ref, sha, pinned)
  /\ UNCHANGED <<live, git, head, local, cache, cacheMarker, exp, bounds,
                 lineage, seen, armed>>

(* The user, or a job, applies some of the selectable dashboards.  A       *)
(* branch whose tip moved since the review is refused, without an effect.  *)
Apply(selected) ==
  /\ imp.pc = "idle" /\ MayStart
  /\ form # NoForm
  /\ selected # {} /\ selected \subseteq form.ready
  /\ form.sha \in RevisionsOf(form.ref, form.pinned)
  /\ CollectChanges([IdleImport EXCEPT !.pc = "reload", !.after = "apply",
       !.ref = form.ref, !.sha = form.sha, !.todo = selected,
       !.plan = Plan(form.ref, form.sha, LoadImportStore(local, shared))])
  /\ UNCHANGED <<live, git, head, local, cache, cacheMarker, form, exp, bounds,
                 lineage, seen, armed>>

(* An Apply of managed files (module ManagedApply) writes the provenance   *)
(* of the dashboards too, unchanged.  If dashboards are selected as well,  *)
(* Apply follows.                                                          *)
ApplyManaged ==
  /\ "managed" \in Activities
  /\ imp.pc = "idle" /\ MayStart
  /\ form # NoForm /\ form.sha \in RevisionsOf(form.ref, form.pinned)
  /\ HealShared
  /\ LET store == LoadImportStore(local, shared)
     IN  imp' = [IdleImport EXCEPT !.pc = "p_shared", !.after = "managed",
                   !.store = store, !.next = store]
  /\ UNCHANGED <<live, git, head, local, cache, cacheMarker, form, exp, bounds,
                 lineage, seen, armed>>

Reload ==
  /\ imp.pc = "reload"
  /\ HealShared
  /\ imp' = [imp EXCEPT !.pc = "loop", !.store = LoadImportStore(local, shared)]
  /\ UNCHANGED <<live, git, head, local, cache, cacheMarker, form, exp, bounds,
                 lineage, seen, armed>>

-----------------------------------------------------------------------------
(* Import: applying one dashboard.                                         *)

Desired(d) == git[imp.sha].tree[d]

(* The preview checks and the fresh status.                                *)
AsReviewed(d) ==
  /\ imp.plan[d].current = form.preview[d]
  /\ Desired(d) = form.desired[d]
  /\ imp.plan[d].status \in APPLYABLE_STATUSES

(* Mutant: LIVE is not read again before the save.                         *)
PassesChecksWithoutLastRead(d) == AsReviewed(d)

(* ... and a last read of LIVE.                                            *)
PassesChecks(d) == AsReviewed(d) /\ Reading(live[d]) = form.preview[d]

(* Mutant: the loop keeps that it created the dashboard before.            *)
SettledKeepsCreated(request) ==
  [request EXCEPT !.pc = "loop", !.todo = @ \ {request.cur}, !.cur = NoDashboard,
                  !.descent = "canonical"]

(* The loop goes on to the next dashboard.                                 *)
Settled(request) ==
  [request EXCEPT !.pc = "loop", !.todo = @ \ {request.cur}, !.cur = NoDashboard,
                  !.created = FALSE, !.descent = "canonical"]

ImportOnly == UNCHANGED <<git, head, files, form, exp, bounds, armed>>

SkipDashboard(d) ==
  /\ imp.pc = "loop" /\ d \in imp.todo
  /\ ~ PassesChecks(d)
  /\ imp' = [imp EXCEPT !.todo = @ \ {d}]
  /\ ImportOnly /\ UNCHANGED <<live, lineage, seen>>

(* The last read raises, outside any try block of the loop: the Apply ends. *)
LastReadRaises ==
  /\ imp.pc = "loop" /\ Fault("readback")
  /\ \E d \in imp.todo : AsReviewed(d)
  /\ imp' = IdleImport
  /\ ImportOnly /\ UNCHANGED <<live, lineage, seen>>

StartDashboard(d) ==
  /\ imp.pc = "loop" /\ d \in imp.todo
  /\ PassesChecks(d)
  /\ imp' = [imp EXCEPT !.cur = d, !.descent = lineage[d],
               !.pc = IF imp.plan[d].status = "CREATE" THEN "create" ELSE "save"]
  /\ ImportOnly /\ UNCHANGED <<live, lineage, seen>>

(* LIVE of the current dashboard becomes value, descending from descent.   *)
SetLive(value, descent) ==
  /\ live' = [live EXCEPT ![imp.cur] = value]
  /\ Observe(live', git, [lineage EXCEPT ![imp.cur] = descent])

(* A call that raises, refused by HA if it has no such dashboard; the      *)
(* request may nevertheless have taken effect.                             *)
Raises(possible, fault, value, descent) ==
  \/ ~ possible /\ UNCHANGED <<live, lineage, seen>>
  \/ possible /\ Fault(fault) /\ UNCHANGED <<live, lineage, seen>>
  \/ possible /\ Fault("lost_ack") /\ SetLive(value, descent)

CreateDashboard ==
  /\ imp.pc = "create" /\ live[imp.cur] = Unregistered
  /\ SetLive(Unsaved, "canonical")
  /\ imp' = [imp EXCEPT !.pc = "save", !.created = TRUE]
  /\ ImportOnly

CreateRaises ==
  /\ imp.pc = "create"
  /\ Raises(live[imp.cur] = Unregistered, "save", Unsaved, "canonical")
  /\ imp' = Settled(imp)
  /\ ImportOnly

SavedDescent == IF IsCanonicalSource(imp.ref) THEN "canonical" ELSE "feature"

SaveDashboard ==
  /\ imp.pc = "save" /\ live[imp.cur] # Unregistered
  /\ SetLive(Desired(imp.cur), SavedDescent)
  /\ imp' = [imp EXCEPT !.pc = "verify"]
  /\ ImportOnly

(* Mutant: an exception leaves a dashboard this Apply created in place.    *)
AfterExceptionKeepsCreated == Settled(imp)

(* The exception path of create, save and read-back: only a dashboard      *)
(* created by this Apply is taken back.                                    *)
AfterException == IF imp.created THEN [imp EXCEPT !.pc = "discard"] ELSE Settled(imp)

SaveRaises ==
  /\ imp.pc = "save"
  /\ Raises(live[imp.cur] # Unregistered, "save", Desired(imp.cur), SavedDescent)
  /\ imp' = AfterException
  /\ ImportOnly

Verify ==
  /\ imp.pc = "verify" /\ live[imp.cur] = Desired(imp.cur)
  /\ imp' = [imp EXCEPT !.pc = "p_shared", !.after = "dashboard",
       !.next = RecordArtifact(imp.store, imp.cur, imp.ref, form.desired[imp.cur])]
  /\ ImportOnly /\ UNCHANGED <<live, lineage, seen>>

VerifyMismatch ==
  /\ imp.pc = "verify" /\ live[imp.cur] # Desired(imp.cur)
  /\ imp' = [imp EXCEPT !.pc = "undo"]
  /\ ImportOnly /\ UNCHANGED <<live, lineage, seen>>

VerifyRaises ==
  /\ imp.pc = "verify" /\ Fault("readback")
  /\ imp' = AfterException
  /\ ImportOnly /\ UNCHANGED <<live, lineage, seen>>

-----------------------------------------------------------------------------
(* Import: persist_provenance.  Shared file, marker and local file are     *)
(* replaced one after the other; each replacement is atomic.               *)

Differing(store, next) == {d \in Dashboards : next[d] # store[d]}

PersistShared ==
  /\ imp.pc = "p_shared"
  /\ shared' = OkFile(imp.next)
  /\ armed' = armed \ (Differing(imp.store, imp.next) \cup {imp.cur})
  /\ imp' = [imp EXCEPT !.pc = "p_marker"]
  /\ UNCHANGED <<live, git, head, marker, local, cache, cacheMarker, form, exp,
                 bounds, lineage, seen>>

PersistMarker ==
  /\ imp.pc = "p_marker"
  /\ marker' = TRUE
  /\ imp' = [imp EXCEPT !.pc = "p_local"]
  /\ UNCHANGED <<live, git, head, shared, local, cache, cacheMarker, form, exp,
                 bounds, lineage, seen, armed>>

PersistLocal ==
  /\ imp.pc = "p_local" /\ shared.status = "ok"
  /\ local' = OkFile(imp.next)
  /\ imp' = CASE imp.after \in {"review", "managed"} -> IdleImport
              [] imp.after = "apply" -> [imp EXCEPT !.pc = "reload"]
              [] imp.after = "dashboard" ->
                   [Settled(imp) EXCEPT !.store = imp.next, !.applied = @ \cup {imp.cur}]
  /\ UNCHANGED <<live, git, head, shared, marker, cache, cacheMarker, form, exp,
                 bounds, lineage, seen, armed>>

(* A failed adoption is swallowed, unless the shared file was unreadable,  *)
(* which ends the request; a failed record is rolled back.                 *)
AfterPersistFailure(unreadable) ==
  CASE imp.after \in {"review", "managed"} -> IdleImport
    [] imp.after = "apply" -> IF unreadable THEN IdleImport ELSE [imp EXCEPT !.pc = "reload"]
    [] imp.after = "dashboard" -> [imp EXCEPT !.pc = "rollback"]

(* A write fails, or the shared file cannot be read back.                  *)
PersistFails ==
  /\ \/ imp.pc \in {"p_shared", "p_marker"} /\ Fault("persist")
     \/ imp.pc = "p_local" /\ (Fault("persist") \/ shared.status # "ok")
  /\ imp' = AfterPersistFailure(imp.pc = "p_local" /\ shared.status = "invalid")
  /\ ImportOnly /\ UNCHANGED <<live, lineage, seen>>

(* The second reading of the shared file, after the local one was written, *)
(* fails.                                                                  *)
PersistUnverified ==
  /\ imp.pc = "p_local" /\ shared.status = "ok" /\ Fault("lose_shared")
  /\ local' = OkFile(imp.next)
  /\ shared' \in {MissingFile, InvalidFile}
  /\ imp' = AfterPersistFailure(shared' = InvalidFile)
  /\ UNCHANGED <<live, git, head, marker, cache, cacheMarker, form, exp,
                 bounds, lineage, seen, armed>>

-----------------------------------------------------------------------------
(* Import: restore_dashboard, after an exception ("discard"), a read-back  *)
(* mismatch ("undo") or a failed persist ("rollback").                     *)

Before(d) ==
  IF imp.created THEN Unregistered
  ELSE IF imp.plan[d].current = NoConfig THEN Unsaved ELSE imp.plan[d].current

Restore ==
  /\ imp.pc \in {"discard", "undo", "rollback"} /\ live[imp.cur] # Unregistered
  /\ SetLive(Before(imp.cur), imp.descent)
  /\ imp' = Settled(imp)
  /\ ImportOnly

(* It raises, or the read after it raises or differs.                      *)
RestoreFails ==
  /\ imp.pc \in {"discard", "undo", "rollback"}
  /\ \/ Raises(live[imp.cur] # Unregistered, "restore", Before(imp.cur), imp.descent)
     \/ /\ live[imp.cur] # Unregistered /\ Fault("readback")
        /\ SetLive(Before(imp.cur), imp.descent)
  /\ imp' = IF imp.pc = "rollback" THEN [imp EXCEPT !.pc = "arm"] ELSE Settled(imp)
  /\ ImportOnly

(* arm_fail_closed_guard: the marker only.                                 *)
ArmGuard ==
  /\ imp.pc = "arm"
  /\ marker' = TRUE
  /\ armed' = armed \cup {imp.cur}
  /\ imp' = Settled(imp)
  /\ UNCHANGED <<live, git, head, shared, local, cache, cacheMarker, form, exp,
                 bounds, lineage, seen>>

ArmFails ==
  /\ imp.pc = "arm" /\ Fault("arm")
  /\ imp' = Settled(imp)
  /\ ImportOnly /\ UNCHANGED <<live, lineage, seen>>

FinishApply ==
  /\ imp.pc = "loop" /\ imp.todo = {}
  /\ imp' = IdleImport
  /\ ImportOnly /\ UNCHANGED <<live, lineage, seen>>

(* The add-on stops in the middle of a request; nothing resumes it.        *)
CrashImport ==
  /\ imp.pc # "idle" /\ Fault("crash")
  /\ imp' = IdleImport
  /\ ImportOnly /\ UNCHANGED <<live, lineage, seen>>

-----------------------------------------------------------------------------
(* Export.                                                                 *)

(* dashboard_exporter reads every LIVE dashboard that has a configuration; *)
(* one it cannot read is left out.                                         *)
ExportCollect ==
  /\ exp.pc = "idle" /\ MayStart
  /\ \E unread \in SUBSET Dashboards :
       /\ unread # {} => Fault("export")
       /\ exp' = [IdleExport EXCEPT !.pc = "clone", !.descent = lineage,
            !.snap = [d \in Dashboards |->
                        IF d \in unread THEN NoConfig ELSE Reading(live[d])]]
  /\ UNCHANGED <<live, git, head, files, form, imp, bounds, lineage, seen, armed>>

ExportClone ==
  /\ exp.pc = "clone"
  /\ exp' = [exp EXCEPT !.pc = "publish", !.clone = head["main"]]
  /\ UNCHANGED <<live, git, head, files, form, imp, bounds, lineage, seen, armed>>

(* load_export_store refreshes the cache from a readable shared file.      *)
RefreshCache ==
  IF shared.status = "ok"
  THEN \/ cache' = shared /\ cacheMarker' = TRUE
       \/ Fault("cache") /\ cache' \in {cache, shared} /\ UNCHANGED cacheMarker
  ELSE UNCHANGED <<cache, cacheMarker>>

ActionFor(d) ==
  IF exp.snap[d] = NoConfig THEN "SKIPPED"
  ELSE SyncAction(SyncAllowed(d, shared, marker, cache, cacheMarker),
                  git[exp.clone].tree[d], exp.snap[d], git[exp.clone].bases[d])

(* The sync of the snapshot into the clone; the restrictions come from the *)
(* cache as it was before this run refreshed it.                           *)
ExportPublish ==
  /\ exp.pc = "publish"
  /\ exp' = [exp EXCEPT !.pc = "push", !.snap = IdleExport.snap,
       !.tree  = [d \in Dashboards |-> IF WritesFile(ActionFor(d))
                                       THEN exp.snap[d] ELSE git[exp.clone].tree[d]],
       !.bases = [d \in Dashboards |-> IF MovesBase(ActionFor(d))
                                       THEN exp.snap[d] ELSE git[exp.clone].bases[d]]]
  /\ RefreshCache
  /\ UNCHANGED <<live, git, head, shared, marker, local, form, imp, bounds,
                 lineage, seen, armed>>

ExportChanges ==
  exp.tree # git[exp.clone].tree \/ exp.bases # git[exp.clone].bases

(* git push without force: accepted only as a fast-forward of main.        *)
ExportPush ==
  /\ exp.pc = "push" /\ ExportChanges
  /\ head["main"] = exp.clone /\ Len(git) < MaxRevisions
  /\ git' = Append(git, [tree |-> exp.tree, bases |-> exp.bases, on |-> "main"])
  /\ head' = [head EXCEPT !["main"] = Len(git) + 1]
  /\ exp' = IdleExport
  /\ Observe(live, git', lineage)
  /\ UNCHANGED <<live, files, form, imp, bounds, armed>>

(* Nothing to commit, a rejected push, or (at the bound) an unreachable    *)
(* remote: the clone is thrown away and the next run starts over.          *)
ExportEnds ==
  /\ exp.pc = "push"
  /\ ~ ExportChanges \/ head["main"] # exp.clone \/ Len(git) >= MaxRevisions
  /\ exp' = IdleExport
  /\ UNCHANGED <<live, git, head, files, form, imp, bounds, lineage, seen, armed>>

(* The container stops or a command of the run fails (set -e).             *)
ExportFails ==
  /\ exp.pc # "idle" /\ Fault("export")
  /\ exp' = IdleExport
  /\ UNCHANGED <<live, git, head, files, form, imp, bounds, lineage, seen, armed>>

-----------------------------------------------------------------------------

Environment ==
  \/ \E d \in Dashboards, value \in EditValues : HaEdit(d, value)
  \/ \E branch \in {"main", "feature"}, d \in Dashboards, content \in Contents :
       GitCommit(branch, d, content)
  \/ GitRebase
  \/ \E status \in {"missing", "invalid"} : LoseShared(status)
  \/ \E status \in {"missing", "invalid"} : LoseLocal(status)

ImportStep ==
  \/ \E ref \in Refs, pinned \in BOOLEAN : \E sha \in RevisionsOf(ref, pinned) :
       Review(ref, sha, pinned)
  \/ \E selected \in SUBSET Dashboards : Apply(selected)
  \/ ApplyManaged
  \/ Reload
  \/ \E d \in Dashboards : SkipDashboard(d)
  \/ \E d \in Dashboards : StartDashboard(d)
  \/ LastReadRaises
  \/ CreateDashboard \/ CreateRaises
  \/ SaveDashboard \/ SaveRaises
  \/ Verify \/ VerifyMismatch \/ VerifyRaises
  \/ PersistShared \/ PersistMarker \/ PersistLocal
  \/ PersistFails \/ PersistUnverified
  \/ Restore \/ RestoreFails
  \/ ArmGuard \/ ArmFails
  \/ FinishApply \/ CrashImport

ExportStep ==
  \/ ExportCollect \/ ExportClone \/ ExportPublish
  \/ ExportPush \/ ExportEnds \/ ExportFails

Next == Environment \/ ImportStep \/ ExportStep

Spec == Init /\ [][Next]_vars

-----------------------------------------------------------------------------
(* Properties.                                                             *)

ImportRequests ==
  [pc : ImportPC, after : {"review", "managed", "apply", "dashboard"}, ref : Refs,
   sha : DOMAIN git, store : Stores, next : Stores,
   plan : [Dashboards -> [status : Statuses, current : Readings]],
   todo : SUBSET Dashboards, cur : Dashboards \cup {NoDashboard},
   created : BOOLEAN, descent : {"canonical", "feature"}, applied : SUBSET Dashboards]

ExportRuns ==
  [pc : {"idle", "clone", "publish", "push"}, snap : [Dashboards -> Readings],
   descent : [Dashboards -> {"canonical", "feature"}], clone : DOMAIN git,
   tree : Trees, bases : Bases]

Forms ==
  UNION {[ref : Refs, sha : DOMAIN git, pinned : BOOLEAN, ready : {ready},
          preview : [ready -> Readings], desired : [ready -> Contents]] :
           ready \in SUBSET Dashboards}

(* The type of every variable of both applications, HA and Git.            *)
TypeOK ==
  /\ live \in [Dashboards -> LiveValues]
  /\ git \in Seq(Revision) /\ head \in [{"main", "feature"} -> DOMAIN git]
  /\ shared \in Files /\ local \in Files /\ cache \in Files
  /\ marker \in BOOLEAN /\ cacheMarker \in BOOLEAN
  /\ form \in Forms \cup {NoForm}
  /\ imp \in ImportRequests
  /\ exp \in ExportRuns
  /\ edits \in 0..MaxEdits /\ commits \in 0..MaxCommits
  /\ lineage \in [Dashboards -> {"canonical", "feature"}]
  /\ seen \in [Dashboards -> SUBSET Contents]
  /\ armed \subseteq Dashboards

Publishes(d) ==
  /\ exp.pc = "push" /\ exp'.pc = "idle"
  /\ Len(git') > Len(git)
  /\ git'[Len(git')].tree[d] # Main.tree[d]

(* Export never pushes to main a LIVE dashboard that descends from a       *)
(* feature deployment (README: "Export never copies a feature-deployed     *)
(* LIVE dashboard onto main").                                             *)
NoFeatureExport ==
  [][\A d \in Dashboards : Publishes(d) => exp.descent[d] = "canonical"]_vars

(* Whatever Import does to a LIVE dashboard, saving or restoring it, the   *)
(* configuration it replaces is an empty shell or is in some Git revision: *)
(* an edit made in HA is never lost before Export has published it.        *)
NoLostHaEdit ==
  [][\A d \in Dashboards :
       imp' # imp /\ live'[d] # live[d] /\ live[d] \in Contents =>
         \/ live[d] \in Shells
         \/ \E i \in DOMAIN git : git[i].tree[d] = live[d]]_vars

(* Export replaces a dashboard file on main only if its content was LIVE   *)
(* at some time: a change committed to main and not yet deployed is never  *)
(* overwritten by a push.                                                  *)
NoLostGitChange ==
  [][\A d \in Dashboards :
       Publishes(d) /\ Main.tree[d] # NoFile => Main.tree[d] \in seen[d]]_vars

(* Every base of every revision is a content that main held and that was   *)
(* LIVE: the common ancestor all three-way decisions rely on.              *)
BasesWereAgreed ==
  \A i \in DOMAIN git : \A d \in Dashboards :
    git[i].bases[d] # NoBase =>
      git[i].bases[d] \in seen[d] \cap MainContents(git, d)

(* The strengthening the proofs rest on.  Import: the dashboards still to  *)
(* apply and the current one are selectable in the form being applied, and *)
(* Git has a file for the current one.                                     *)
RequestOK ==
  /\ imp.todo # {} => form # NoForm /\ imp.todo \subseteq form.ready
  /\ imp.cur # NoDashboard =>
       form # NoForm /\ imp.cur \in form.ready /\ Desired(imp.cur) \in Contents
  /\ \/ imp.pc \in {"create", "save", "verify", "discard", "undo", "rollback", "arm"}
     \/ imp.pc \in {"p_shared", "p_marker", "p_local"} /\ imp.after = "dashboard"
     => imp.cur # NoDashboard

(* Export: the snapshot was LIVE; what a run is about to push has bases    *)
(* that both sides held, and overwrites only contents that were LIVE.      *)
RunOK ==
  /\ \A d \in Dashboards : exp.snap[d] \in seen[d] \cup {NoConfig}
  /\ exp.pc = "push" => \A d \in Dashboards :
       /\ exp.bases[d] # NoBase =>
            exp.bases[d] \in seen[d] \cap (MainContents(git, d) \cup {exp.tree[d]})
       /\ exp.tree[d] # git[exp.clone].tree[d] =>
            git[exp.clone].tree[d] \in seen[d] \cup {NoFile}

LiveWasSeen == \A d \in Dashboards : {live[d]} \cap Contents \subseteq seen[d]

Inductive == TypeOK /\ RequestOK /\ LiveWasSeen /\ BasesWereAgreed /\ RunOK

(* While an Apply is going on, every dashboard it has reported as applied  *)
(* is recorded, from the applied source and with the applied content, in   *)
(* every provenance file that can be read: recording the next dashboard or *)
(* rolling it back does not drop the record of an earlier one.             *)
AppliedIsRecorded ==
  \A d \in imp.applied : \A file \in {shared, local} :
    file.status = "ok" =>
      file.store[d] = [ref |-> imp.ref, hash |-> form.desired[d]]

Persisting == imp.pc \in {"p_shared", "p_marker", "p_local"}
BetweenDashboards ==
  \/ imp.pc \in {"idle", "loop", "reload"}
  \/ Persisting /\ imp.after # "dashboard"

Positioned ==
  /\ BetweenDashboards => imp.cur = NoDashboard
  /\ imp.cur = NoDashboard => ~ imp.created
  /\ imp.cur # NoDashboard => imp.cur \in imp.todo
  /\ imp.applied \cap imp.todo = {}
  /\ BetweenDashboards /\ imp.pc # "loop" => imp.applied = {}

(* The store a request writes next keeps what it has recorded, and is what *)
(* the shared file holds once it was replaced.                             *)
RecordsKept ==
  /\ \A d \in imp.applied :
       imp.store[d] = [ref |-> imp.ref, hash |-> form.desired[d]]
  /\ Persisting /\ imp.after = "dashboard" =>
       imp.next = RecordArtifact(imp.store, imp.cur, imp.ref, form.desired[imp.cur])
  /\ imp.pc \in {"p_marker", "p_local"} /\ shared.status = "ok" => shared.store = imp.next

(* Contents Git can give back, or nobody misses.                           *)
Replaceable(d) == {git[i].tree[d] : i \in DOMAIN git} \cup Shells

RecordsFromGit ==
  \A store \in {shared.store, local.store, imp.store, imp.next} : \A d \in Dashboards :
    store[d] # NoEntry => store[d].hash \in Replaceable(d)

PlanFromGit ==
  \A d \in Dashboards :
    /\ imp.plan[d].status \in APPLYABLE_STATUSES =>
         imp.plan[d].current \in Replaceable(d) \cup {NoConfig}
    /\ imp.plan[d].status = "CREATE" => imp.plan[d].current = NoConfig

CurrentFromGit ==
  imp.cur # NoDashboard =>
    /\ imp.plan[imp.cur].status \in APPLYABLE_STATUSES
    /\ form.desired[imp.cur] = Desired(imp.cur)
    /\ "edit_race" \notin Faults => Reading(live[imp.cur]) \in Replaceable(imp.cur) \cup {NoConfig}

(* Before its save the current dashboard is as the plan saw it, or was     *)
(* created.                                                                *)
Untouched ==
  /\ imp.pc = "create" => ~ imp.created /\ imp.plan[imp.cur].status = "CREATE"
  /\ imp.created => imp.plan[imp.cur].current = NoConfig
  /\ imp.pc = "create" \/ (imp.pc = "save" /\ ~ imp.created) =>
       "edit_race" \in Faults \/ Reading(live[imp.cur]) = imp.plan[imp.cur].current

(* What Import's request knows and has recorded, at each of its steps.     *)
WorkInOrder ==
  Positioned /\ RecordsKept /\ RecordsFromGit /\ PlanFromGit /\ CurrentFromGit /\ Untouched

(* Every provenance file that can be read says that LIVE of a dashboard is *)
(* from a feature, and both were written.                                  *)
FromFeature(entry) == ~ IsCanonicalLive(entry)
Marked(d) ==
  /\ marker
  /\ shared.status = "ok" \/ Fault("lose_shared")
  /\ local.status = "ok" \/ Fault("lose_local")
  /\ \A file \in {shared, local} : file.status = "ok" => FromFeature(file.store[d])

(* Between the save of a dashboard and its record, or its restoration.     *)
Unrecorded(d) ==
  imp.cur = d /\ (Persisting \/ imp.pc \in {"verify", "discard", "undo", "rollback"})

(* What descends from a feature, or will again if it is restored.          *)
Feature(d) == lineage[d] = "feature" \/ (imp.cur = d /\ imp.descent = "feature")
FeatureBefore(d) ==
  (lineage[d] = "feature" /\ ~ Unrecorded(d)) \/ (imp.cur = d /\ imp.descent = "feature")

LineageOK ==
  /\ git[head["main"]].on = "main"
  /\ \A d \in Dashboards :
       live[d] \notin Contents \/ live[d] \in MainContents(git, d) => lineage[d] = "canonical"

StoresGuarded ==
  /\ \A d \in Dashboards : FeatureBefore(d) =>
       Marked(d) /\ (imp.pc \notin {"idle", "reload"} => FromFeature(imp.store[d]))
  /\ Persisting => \A d \in Dashboards : Feature(d) => FromFeature(imp.next[d])
  /\ imp.pc = "p_local" => marker
  /\ IsCanonicalSource(imp.ref) => \A d \in Dashboards :
       imp.plan[d].status \in APPLYABLE_STATUSES => ~ Feature(d)

RunGuarded ==
  /\ imp.pc = "idle" \/ exp.pc = "idle"
  /\ \A d \in Dashboards : exp.descent[d] = "feature" =>
       /\ exp.pc \in {"clone", "publish"} =>
            marker /\ (shared.status = "ok" => FromFeature(shared.store[d]))
       /\ exp.pc = "push" => exp.tree[d] = git[exp.clone].tree[d]

(* Whatever descends from a feature is marked so wherever Export may look, *)
(* except in the middle of an Apply, when Export does not run.             *)
FeatureGuarded == LineageOK /\ StoresGuarded /\ RunGuarded

(* The attempt to restore a dashboard raised.                              *)
CouldNotRestore ==
  imp.pc = "arm" \/ (imp.pc \in {"discard", "undo"} /\ UNCHANGED live)

(* A dashboard whose Apply is reported as failed, in a request that goes   *)
(* on, has the configuration it had before, and a dashboard this Apply     *)
(* created is gone again, unless restoring it raised (README: "rolls LIVE  *)
(* back", "deletes that dashboard as rollback").                           *)
FailedApplyRestoresLive ==
  [][\A d \in Dashboards :
       (imp.cur = d /\ imp'.cur # d /\ d \notin imp'.applied
          /\ imp'.pc # "idle" /\ ~ CouldNotRestore) =>
         /\ Reading(live'[d]) = imp.plan[d].current
         /\ imp.created => live'[d] = Unregistered]_vars

(* After the fail-closed guard was armed for a dashboard, Export publishes *)
(* nothing for it until its provenance is written again (the docstring of  *)
(* arm_fail_closed_guard and the message Apply reports).                   *)
ArmedGuardBlocksExport == [][\A d \in armed : ~ Publishes(d)]_vars
=============================================================================
