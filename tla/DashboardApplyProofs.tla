------------------------ MODULE DashboardApplyProofs ------------------------
(***************************************************************************)
(* Theorems about one Apply of DashboardSync, for every set of dashboards  *)
(* and contents: what it records, what it overwrites and what it restores. *)
(***************************************************************************)
EXTENDS DashboardSyncProofs

WorkInv == WorkInOrder /\ AppliedIsRecorded

(* Git only grows: it stays, or gets one more revision.                    *)
GitGrows == git' = git \/ \E rev \in Revision : git' = Append(git, rev)

LEMMA ReplaceableGrows ==
  ASSUME TypeOK, GitGrows
  PROVE  /\ \A d \in Dashboards : Replaceable(d) \subseteq Replaceable(d)'
         /\ DOMAIN git \subseteq DOMAIN git'
         /\ \A i \in DOMAIN git : git'[i] = git[i]
<1>1. /\ DOMAIN git \subseteq DOMAIN git'
      /\ \A i \in DOMAIN git : git'[i] = git[i]
  <2>1. CASE git' = git
    BY <2>1
  <2>2. CASE git' # git
    BY <2>2, TypesGrow DEF GitGrows
  <2> QED BY <2>1, <2>2
<1> QED BY <1>1 DEF Replaceable

(* A dashboard is READY only if LIVE is the effective base, and BOOTSTRAP  *)
(* or CREATE only if LIVE is a shell or not there.                         *)
LEMMA ApplyableIsReplaceable ==
  ASSUME Inductive, NEW d \in Dashboards, NEW ref, NEW sha \in DOMAIN git, NEW store,
         store[d] # NoEntry => store[d].hash \in Replaceable(d),
         Status(d, ref, sha, store) \in APPLYABLE_STATUSES
  PROVE  Reading(live[d]) \in Replaceable(d) \cup {NoConfig}
<1> DEFINE github == git[sha].tree[d]
           current == Reading(live[d])
           base == git[sha].bases[d]
           entry == store[d]
<1>1. base \in Replaceable(d) \cup {NoBase}
  <2>1. base # NoBase => base \in MainContents(git, d)
    BY DEF Inductive, BasesWereAgreed
  <2> QED BY <2>1 DEF MainContents, Replaceable
<1>2. ASSUME NEW b, b \in Replaceable(d) \cup {NoBase},
             classify(github, current, b) \in APPLYABLE_STATUSES
      PROVE  current \in Replaceable(d)
  BY <1>2 DEF classify, APPLYABLE_STATUSES, Replaceable
<1>3. ASSUME classify_with_provenance(github, current, base, IsCanonicalSource(ref), entry)
               \in APPLYABLE_STATUSES
      PROVE  current \in Replaceable(d)
  <2>1. CASE ~ IsCanonicalLive(entry)
    <3>1. entry # NoEntry
      BY <2>1 DEF IsCanonicalLive
    <3>2. classify(github, current, entry.hash) \in APPLYABLE_STATUSES
      BY <1>3, <2>1 DEF classify_with_provenance, APPLYABLE_STATUSES
    <3> QED BY <1>2, <3>1, <3>2
  <2>2. CASE IsCanonicalLive(entry)
    <3> DEFINE b == IF entry = NoEntry THEN base
                    ELSE CanonicalEffectiveBase(base, github, current, entry.hash)
    <3>1. b \in Replaceable(d) \cup {NoBase}
      BY <1>1 DEF CanonicalEffectiveBase
    <3>2. classify(github, current, b) \in APPLYABLE_STATUSES
      BY <1>3, <2>2 DEF classify_with_provenance
    <3> HIDE DEF b
    <3> QED BY <1>2, <3>1, <3>2
  <2> QED BY <2>1, <2>2
<1>4. CASE current = NoConfig
  BY <1>4
<1>5. CASE current # NoConfig
  <2>1. /\ github # NoFile /\ {github, current} \cap Malformed = {}
        /\ classify_with_provenance(github, current, base, IsCanonicalSource(ref), entry)
             \in APPLYABLE_STATUSES
    BY <1>5 DEF Status, APPLYABLE_STATUSES
  <2> QED BY <1>3, <2>1
<1> QED BY <1>4, <1>5

LEMMA CreateIsMissing ==
  ASSUME NEW d, NEW ref, NEW sha, NEW store, Status(d, ref, sha, store) = "CREATE"
  PROVE  Reading(live[d]) = NoConfig
<1> DEFINE github == git[sha].tree[d]
           current == Reading(live[d])
<1>1. \A base : classify(github, current, base) # "CREATE"
  BY DEF classify
<1>2. classify_with_provenance(github, current, git[sha].bases[d],
        IsCanonicalSource(ref), store[d]) # "CREATE"
  BY <1>1 DEF classify_with_provenance
<1> QED BY <1>2 DEF Status

(* The store a request starts from, and what it adopts, record contents of *)
(* Git.                                                                    *)
LEMMA LoadedFromGit ==
  ASSUME TypeOK, RecordsFromGit, NEW d \in Dashboards, NEW ref, NEW sha \in DOMAIN git
  PROVE  LET store == LoadImportStore(local, shared)
             next  == AdoptCanonical(store, Adoptable(ref, sha, store), live)
         IN  /\ store[d] # NoEntry => store[d].hash \in Replaceable(d)
             /\ next[d] # NoEntry => next[d].hash \in Replaceable(d)
<1> DEFINE store == LoadImportStore(local, shared)
           adopted == Adoptable(ref, sha, store)
           next == AdoptCanonical(store, adopted, live)
<1>1. store \in {shared.store, local.store}
  BY DEF LoadImportStore
<1>2. store[d] # NoEntry => store[d].hash \in Replaceable(d)
  BY <1>1 DEF RecordsFromGit
<1>3. CASE d \in adopted
  <2>1. live[d] = git[sha].tree[d]
    BY <1>3 DEF Adoptable, ShouldAdopt
  <2>2. next[d].hash = live[d]
    BY <1>3 DEF AdoptCanonical
  <2> QED BY <1>2, <2>1, <2>2 DEF Replaceable
<1>4. CASE d \notin adopted
  <2>1. next[d] = store[d]
    BY <1>4 DEF AdoptCanonical
  <2> QED BY <1>2, <2>1
<1> QED BY <1>3, <1>4

-----------------------------------------------------------------------------
(* Steps of HA users, developers and Export.                               *)

LEMMA OutsideKeepsWork ==
  ASSUME Inductive, WorkInv, GitGrows, UNCHANGED <<imp, form>>,
         shared' = shared \/ (shared'.status # "ok" /\ shared'.store = EmptyStore),
         local' = local \/ (local'.status # "ok" /\ local'.store = EmptyStore),
         \/ "edit_race" \in Faults
         \/ imp.cur # NoDashboard => live'[imp.cur] = live[imp.cur]
  PROVE  WorkInv'
<1>1. /\ \A d \in Dashboards : Replaceable(d) \subseteq Replaceable(d)'
      /\ DOMAIN git \subseteq DOMAIN git'
      /\ \A i \in DOMAIN git : git'[i] = git[i]
  BY ReplaceableGrows DEF Inductive
<1>2. imp.sha \in DOMAIN git /\ imp.cur \in Dashboards \cup {NoDashboard}
  BY DEF Inductive, TypeOK, ImportRequests
<1>3. Positioned'
  BY DEF WorkInv, WorkInOrder, Positioned, BetweenDashboards, Persisting
<1>4. RecordsKept'
  BY DEF WorkInv, WorkInOrder, RecordsKept, Persisting
<1>5. RecordsFromGit'
  <2> SUFFICES ASSUME NEW store \in {shared.store, local.store, imp.store, imp.next}',
                      NEW d \in Dashboards, store[d] # NoEntry
               PROVE  store[d].hash \in Replaceable(d)'
    BY DEF RecordsFromGit
  <2>1. store \in {shared.store, local.store, imp.store, imp.next}
    BY DEF EmptyStore
  <2>2. store[d].hash \in Replaceable(d)
    BY <2>1 DEF WorkInv, WorkInOrder, RecordsFromGit
  <2> QED BY <1>1, <2>2
<1>6. PlanFromGit'
  BY <1>1 DEF WorkInv, WorkInOrder, PlanFromGit
<1>7. CurrentFromGit'
  BY <1>1, <1>2 DEF WorkInv, WorkInOrder, CurrentFromGit, Desired, Reading
<1>8. Untouched'
  <2>1. imp.pc \in {"create", "save"} => imp.cur # NoDashboard
    BY DEF Inductive, RequestOK
  <2> QED BY <2>1 DEF WorkInv, WorkInOrder, Untouched, Reading
<1>9. AppliedIsRecorded'
  BY DEF WorkInv, AppliedIsRecorded
<1> QED BY <1>3, <1>4, <1>5, <1>6, <1>7, <1>8, <1>9 DEF WorkInv, WorkInOrder

LEMMA EnvironmentKeepsWork ==
  ASSUME Inductive, WorkInv, Environment
  PROVE  WorkInv'
<1>1. ASSUME NEW d \in Dashboards, NEW value \in EditValues, HaEdit(d, value)
      PROVE  WorkInv'
  <2>1. /\ GitGrows /\ UNCHANGED <<imp, form, shared, local>>
        /\ live' = [live EXCEPT ![d] = value]
        /\ imp.cur # d \/ "edit_race" \in Faults
    BY <1>1 DEF HaEdit, files, GitGrows, Fault
  <2>2. \/ "edit_race" \in Faults
        \/ imp.cur # NoDashboard => live'[imp.cur] = live[imp.cur]
    BY <2>1 DEF Inductive, TypeOK, ImportRequests
  <2> QED BY <2>1, <2>2, OutsideKeepsWork
<1>2. ASSUME NEW branch \in {"main", "feature"}, NEW d \in Dashboards,
             NEW content \in Contents, GitCommit(branch, d, content)
      PROVE  WorkInv'
  <2>1. /\ git' = Append(git, [git[head[branch]] EXCEPT !.tree[d] = content, !.on = branch])
        /\ UNCHANGED <<imp, form, shared, local, live>>
    BY <1>2 DEF GitCommit, files
  <2>2. [git[head[branch]] EXCEPT !.tree[d] = content, !.on = branch] \in Revision
    BY RevisionType DEF Inductive, TypeOK, Revision, Trees
  <2>3. GitGrows
    BY <2>1, <2>2 DEF GitGrows
  <2> QED BY <2>1, <2>3, OutsideKeepsWork
<1>3. CASE GitRebase
  BY <1>3, OutsideKeepsWork DEF GitRebase, files, GitGrows
<1>4. ASSUME NEW status \in {"missing", "invalid"}, LoseShared(status) \/ LoseLocal(status)
      PROVE  WorkInv'
  BY <1>4, OutsideKeepsWork DEF LoseShared, LoseLocal, MissingFile, GitGrows
<1> QED BY <1>1, <1>2, <1>3, <1>4 DEF Environment

LEMMA ExportKeepsWork ==
  ASSUME Inductive, WorkInv, ExportStep
  PROVE  WorkInv'
<1>1. UNCHANGED <<imp, form, shared, local, live>>
  BY DEF ExportStep, ExportCollect, ExportClone, ExportPublish, ExportPush,
     ExportEnds, ExportFails, files
<1>2. GitGrows
  <2>1. CASE ExportPush
    <3>1. [tree |-> exp.tree, bases |-> exp.bases, on |-> "main"] \in Revision
      BY DEF Inductive, TypeOK, ExportRuns, Revision
    <3> QED BY <2>1, <3>1 DEF ExportPush, GitGrows
  <2>2. CASE ~ ExportPush
    BY <2>2 DEF ExportStep, ExportCollect, ExportClone, ExportPublish,
       ExportEnds, ExportFails, GitGrows
  <2> QED BY <2>1, <2>2
<1> QED BY <1>1, <1>2, OutsideKeepsWork

-----------------------------------------------------------------------------
(* Steps of Import between two dashboards.                                 *)

(* A new request knows what collect_changes read and has recorded nothing. *)
LEMMA CollectKeepsWork ==
  ASSUME Inductive, RecordsFromGit, NEW request \in ImportRequests,
         CollectChanges(request), UNCHANGED <<live, git, local>>,
         request.pc \in {"idle", "reload"}, request.after \in {"review", "apply"},
         request.cur = NoDashboard, ~ request.created, request.applied = {},
         request.store = EmptyStore, request.next = EmptyStore,
         \A d \in Dashboards :
           /\ request.plan[d].status \in APPLYABLE_STATUSES =>
                request.plan[d].current \in Replaceable(d) \cup {NoConfig}
           /\ request.plan[d].status = "CREATE" => request.plan[d].current = NoConfig
  PROVE  WorkInv'
<1> DEFINE store == LoadImportStore(local, shared)
           adopted == Adoptable(request.ref, request.sha, store)
<1>1. request.sha \in DOMAIN git
  BY DEF ImportRequests
<1>2. \/ imp' = request
      \/ imp' = [request EXCEPT !.pc = "p_shared", !.store = store,
                   !.next = AdoptCanonical(store, adopted, live)]
  BY DEF CollectChanges
<1>3. /\ imp'.pc \in {"idle", "reload", "p_shared"} /\ imp'.after # "dashboard"
      /\ imp'.cur = NoDashboard /\ ~ imp'.created /\ imp'.applied = {}
      /\ imp'.plan = request.plan
      /\ imp'.store \in {EmptyStore, store}
      /\ imp'.next \in {EmptyStore, AdoptCanonical(store, adopted, live)}
  BY <1>2 DEF ImportRequests
<1>4. \A d \in Dashboards : Replaceable(d)' = Replaceable(d)
  BY DEF Replaceable
<1>5. Positioned'
  BY <1>3 DEF Positioned, BetweenDashboards, Persisting
<1>6. RecordsKept'
  BY <1>3 DEF RecordsKept
<1>7. RecordsFromGit'
  <2>1. shared'.store \in {shared.store, local.store} /\ local' = local
    BY DEF CollectChanges, HealShared
  <2> SUFFICES ASSUME NEW s \in {shared.store, local.store, imp.store, imp.next}',
                      NEW d \in Dashboards, s[d] # NoEntry
               PROVE  s[d].hash \in Replaceable(d)
    BY <1>4 DEF RecordsFromGit
  <2>2. s # EmptyStore
    BY DEF EmptyStore
  <2>3. s \in {shared.store, local.store, store, AdoptCanonical(store, adopted, live)}
    BY <1>3, <2>1, <2>2
  <2> HIDE DEF store, adopted
  <2>4. CASE s \in {shared.store, local.store}
    BY <2>4 DEF RecordsFromGit
  <2>5. CASE s \in {store, AdoptCanonical(store, adopted, live)}
    BY <1>1, <2>5, LoadedFromGit DEF Inductive, store, adopted
  <2> QED BY <2>3, <2>4, <2>5
<1>8. PlanFromGit'
  BY <1>3, <1>4 DEF PlanFromGit
<1>9. CurrentFromGit' /\ Untouched' /\ AppliedIsRecorded'
  BY <1>3 DEF CurrentFromGit, Untouched, AppliedIsRecorded
<1> QED BY <1>5, <1>6, <1>7, <1>8, <1>9 DEF WorkInv, WorkInOrder

LEMMA ReviewKeepsWork ==
  ASSUME Inductive, WorkInv, NEW ref \in Refs, NEW pinned \in BOOLEAN,
         NEW sha \in RevisionsOf(ref, pinned), Review(ref, sha, pinned)
  PROVE  WorkInv'
<1> DEFINE request == [IdleImport EXCEPT !.ref = ref, !.sha = sha]
<1>1. sha \in DOMAIN git
  BY RevisionsOfType DEF Inductive
<1>2. request \in ImportRequests
  BY <1>1, IdleType DEF Inductive, ImportRequests
<1>3. /\ request.pc = "idle" /\ request.after = "review"
      /\ request.cur = NoDashboard /\ request.created = FALSE /\ request.applied = {}
      /\ request.store = EmptyStore /\ request.next = EmptyStore
      /\ \A d \in Dashboards : request.plan[d].status = "SAME"
  BY DEF IdleImport
<1>4. CollectChanges(request) /\ UNCHANGED <<live, git, local>>
  BY DEF Review
<1> HIDE DEF request
<1>5. \A d \in Dashboards :
        request.plan[d].status \notin APPLYABLE_STATUSES \cup {"CREATE"}
  BY <1>3 DEF APPLYABLE_STATUSES
<1> QED BY <1>2, <1>3, <1>4, <1>5, CollectKeepsWork DEF WorkInv, WorkInOrder

LEMMA ApplyKeepsWork ==
  ASSUME Inductive, WorkInv, NEW selected \in SUBSET Dashboards, Apply(selected)
  PROVE  WorkInv'
<1>1. form # NoForm /\ form.ref \in Refs /\ form.sha \in DOMAIN git
  BY DEF Inductive, TypeOK, Forms, Apply
<1> DEFINE store == LoadImportStore(local, shared)
           plan == Plan(form.ref, form.sha, store)
           request == [IdleImport EXCEPT !.pc = "reload", !.after = "apply",
             !.ref = form.ref, !.sha = form.sha, !.todo = selected, !.plan = plan]
<1>2. plan \in [Dashboards -> [status : Statuses, current : Readings]]
  BY <1>1, PlanType DEF Inductive
<1>3. \A d \in Dashboards :
        /\ plan[d].status \in APPLYABLE_STATUSES =>
             plan[d].current \in Replaceable(d) \cup {NoConfig}
        /\ plan[d].status = "CREATE" => plan[d].current = NoConfig
  <2> TAKE d \in Dashboards
  <2>1. store[d] # NoEntry => store[d].hash \in Replaceable(d)
    BY <1>1, LoadedFromGit DEF Inductive, WorkInv, WorkInOrder
  <2>2. plan[d] = [status |-> Status(d, form.ref, form.sha, store), current |-> Reading(live[d])]
    BY DEF Plan
  <2> HIDE DEF store, plan
  <2> QED BY <1>1, <2>1, <2>2, ApplyableIsReplaceable, CreateIsMissing
<1>4. CollectChanges(request) /\ UNCHANGED <<live, git, local>>
  BY DEF Apply
<1> HIDE DEF plan
<1>5. request \in ImportRequests
  BY <1>1, <1>2, IdleType DEF Inductive, ImportRequests, ImportPC
<1>6. /\ request.pc = "reload" /\ request.after = "apply" /\ request.plan = plan
      /\ request.cur = NoDashboard /\ request.created = FALSE /\ request.applied = {}
      /\ request.store = EmptyStore /\ request.next = EmptyStore
  BY DEF IdleImport
<1> HIDE DEF request
<1> QED BY <1>3, <1>4, <1>5, <1>6, CollectKeepsWork DEF WorkInv, WorkInOrder

LEMMA ApplyManagedKeepsWork ==
  ASSUME Inductive, WorkInv, ApplyManaged
  PROVE  WorkInv'
<1> DEFINE store == LoadImportStore(local, shared)
<1>1. /\ imp' = [IdleImport EXCEPT !.pc = "p_shared", !.after = "managed",
                   !.store = store, !.next = store]
      /\ UNCHANGED <<live, git, local>> /\ HealShared
  BY DEF ApplyManaged
<1>2. /\ imp'.pc = "p_shared" /\ imp'.after = "managed"
      /\ imp'.cur = NoDashboard /\ ~ imp'.created /\ imp'.applied = {}
      /\ imp'.store = store /\ imp'.next = store
      /\ \A d \in Dashboards : imp'.plan[d].status = "SAME"
  BY <1>1 DEF IdleImport
<1>3. \A d \in Dashboards : Replaceable(d)' = Replaceable(d)
  BY <1>1 DEF Replaceable
<1>4. Positioned' /\ RecordsKept'
  BY <1>2 DEF Positioned, RecordsKept, BetweenDashboards, Persisting
<1>5. RecordsFromGit'
  <2>1. shared'.store \in {shared.store, local.store}
    BY <1>1 DEF HealShared
  <2>2. store \in {shared.store, local.store}
    BY DEF LoadImportStore
  <2> QED BY <1>1, <1>2, <1>3, <2>1, <2>2 DEF WorkInv, WorkInOrder, RecordsFromGit
<1>6. PlanFromGit'
  BY <1>2 DEF PlanFromGit, APPLYABLE_STATUSES
<1>7. CurrentFromGit' /\ Untouched' /\ AppliedIsRecorded'
  BY <1>2 DEF CurrentFromGit, Untouched, AppliedIsRecorded
<1> QED BY <1>4, <1>5, <1>6, <1>7 DEF WorkInv, WorkInOrder

LEMMA ReloadKeepsWork ==
  ASSUME Inductive, WorkInv, Reload
  PROVE  WorkInv'
<1>1. /\ imp' = [imp EXCEPT !.pc = "loop", !.store = LoadImportStore(local, shared)]
      /\ UNCHANGED <<live, git, local, form>> /\ imp.pc = "reload" /\ imp \in ImportRequests
  BY DEF Reload, Inductive, TypeOK
<1>2. /\ imp'.pc = "loop" /\ imp'.store = LoadImportStore(local, shared)
      /\ imp'.next = imp.next /\ imp'.plan = imp.plan /\ imp'.cur = imp.cur
      /\ imp'.created = imp.created /\ imp'.applied = imp.applied /\ imp'.todo = imp.todo
  BY <1>1 DEF ImportRequests
<1>3. imp.cur = NoDashboard /\ ~ imp.created /\ imp.applied = {}
  BY <1>1 DEF WorkInv, WorkInOrder, Positioned, BetweenDashboards
<1>4. \A d \in Dashboards : Replaceable(d)' = Replaceable(d)
  BY <1>1 DEF Replaceable
<1>5. Positioned' /\ RecordsKept'
  BY <1>2, <1>3 DEF Positioned, RecordsKept, BetweenDashboards, Persisting
<1>6. RecordsFromGit'
  <2>1. shared'.store \in {shared.store, local.store}
    BY DEF Reload, HealShared
  <2>2. imp'.store \in {shared.store, local.store}
    BY <1>2 DEF LoadImportStore
  <2> QED BY <1>1, <1>2, <1>4, <2>1, <2>2 DEF WorkInv, WorkInOrder, RecordsFromGit
<1>7. PlanFromGit'
  BY <1>2, <1>4 DEF WorkInv, WorkInOrder, PlanFromGit
<1>8. CurrentFromGit' /\ Untouched' /\ AppliedIsRecorded'
  BY <1>2, <1>3 DEF CurrentFromGit, Untouched, AppliedIsRecorded
<1> QED BY <1>5, <1>6, <1>7, <1>8 DEF WorkInv, WorkInOrder

LEMMA EndKeepsWork ==
  ASSUME Inductive, WorkInv, LastReadRaises \/ FinishApply \/ CrashImport
  PROVE  WorkInv'
<1>1. imp' = IdleImport /\ UNCHANGED <<live, git, shared, local, form>>
  BY DEF LastReadRaises, FinishApply, CrashImport, ImportOnly, files
<1>2. /\ imp'.pc = "idle" /\ imp'.cur = NoDashboard /\ ~ imp'.created /\ imp'.applied = {}
      /\ imp'.store = EmptyStore /\ imp'.next = EmptyStore
      /\ \A d \in Dashboards : imp'.plan[d].status = "SAME"
  BY <1>1 DEF IdleImport
<1>3. \A d \in Dashboards : Replaceable(d)' = Replaceable(d)
  BY <1>1 DEF Replaceable
<1>4. RecordsFromGit'
  BY <1>1, <1>2, <1>3 DEF WorkInv, WorkInOrder, RecordsFromGit, EmptyStore
<1>5. Positioned' /\ RecordsKept'
  BY <1>2 DEF Positioned, RecordsKept, BetweenDashboards, Persisting
<1>6. PlanFromGit'
  BY <1>2 DEF PlanFromGit, APPLYABLE_STATUSES
<1>7. CurrentFromGit' /\ Untouched' /\ AppliedIsRecorded'
  BY <1>2 DEF CurrentFromGit, Untouched, AppliedIsRecorded
<1> QED BY <1>4, <1>5, <1>6, <1>7 DEF WorkInv, WorkInOrder

LEMMA SelectKeepsWork ==
  ASSUME Inductive, WorkInv, NEW d \in Dashboards, SkipDashboard(d) \/ StartDashboard(d)
  PROVE  WorkInv'
<1>1. UNCHANGED <<live, git, shared, local, form>> /\ imp \in ImportRequests
  BY DEF SkipDashboard, StartDashboard, ImportOnly, files, Inductive, TypeOK
<1>2. /\ imp.pc = "loop" /\ d \in imp.todo
      /\ imp.cur = NoDashboard /\ ~ imp.created /\ imp.applied \cap imp.todo = {}
  BY DEF SkipDashboard, StartDashboard, WorkInv, WorkInOrder, Positioned, BetweenDashboards
<1>3. \A e \in Dashboards : Replaceable(e)' = Replaceable(e)
  BY <1>1 DEF Replaceable
<1>4. /\ imp'.store = imp.store /\ imp'.next = imp.next /\ imp'.plan = imp.plan
      /\ imp'.created = imp.created /\ imp'.applied = imp.applied
      /\ imp'.ref = imp.ref /\ imp'.sha = imp.sha
      /\ imp'.todo \subseteq imp.todo
      /\ imp'.pc \in {"loop", "create", "save"}
  BY <1>1, <1>2 DEF SkipDashboard, StartDashboard, ImportRequests
<1>5. \/ imp'.pc = "loop" /\ imp'.cur = NoDashboard
      \/ /\ imp'.cur = d /\ imp'.todo = imp.todo /\ PassesChecks(d)
         /\ imp'.pc = IF imp.plan[d].status = "CREATE" THEN "create" ELSE "save"
  BY <1>1, <1>2 DEF SkipDashboard, StartDashboard, ImportRequests
<1>6. RecordsFromGit' /\ PlanFromGit'
  BY <1>1, <1>3, <1>4 DEF WorkInv, WorkInOrder, RecordsFromGit, PlanFromGit
<1>7. RecordsKept' /\ AppliedIsRecorded'
  BY <1>1, <1>4 DEF WorkInv, WorkInOrder, RecordsKept, AppliedIsRecorded, Persisting
<1>8. Positioned'
  BY <1>2, <1>4, <1>5, ConstantsAssumption DEF Positioned, BetweenDashboards, Persisting
<1>9. CurrentFromGit'
  BY <1>1, <1>3, <1>4, <1>5 DEF WorkInv, WorkInOrder, PlanFromGit, CurrentFromGit,
     PassesChecks, AsReviewed, Desired
<1>10. Untouched'
  BY <1>1, <1>2, <1>4, <1>5 DEF Untouched, PassesChecks, AsReviewed
<1> QED BY <1>6, <1>7, <1>8, <1>9, <1>10 DEF WorkInv, WorkInOrder

-----------------------------------------------------------------------------
(* Steps of Import on the current dashboard.                               *)

(* The request goes on with the current dashboard.                         *)
LEMMA StayKeepsWork ==
  ASSUME Inductive, WorkInv, imp.cur # NoDashboard,
         UNCHANGED <<git, form, shared, local>>,
         imp'.cur = imp.cur, imp'.todo = imp.todo, imp'.plan = imp.plan,
         imp'.applied = imp.applied, imp'.store = imp.store, imp'.ref = imp.ref,
         imp'.sha = imp.sha,
         \/ /\ imp'.pc \in {"save", "verify", "discard", "undo", "rollback", "arm"}
            /\ imp'.next = imp.next
         \/ /\ imp'.pc = "p_shared" /\ imp'.after = "dashboard"
            /\ imp'.next = RecordArtifact(imp.store, imp.cur, imp.ref, form.desired[imp.cur]),
         imp'.created => imp.plan[imp.cur].current = NoConfig,
         imp'.pc = "save" => imp'.created,
         \/ live'[imp.cur] = live[imp.cur]
         \/ Reading(live'[imp.cur]) \in Replaceable(imp.cur) \cup {NoConfig}
  PROVE  WorkInv'
<1>1. \A e \in Dashboards : Replaceable(e)' = Replaceable(e)
  BY DEF Replaceable
<1>2. /\ imp.cur \in Dashboards /\ imp.sha \in DOMAIN git
      /\ form.desired[imp.cur] \in Replaceable(imp.cur)
  <2>1. imp.cur \in Dashboards /\ imp.sha \in DOMAIN git
    BY DEF Inductive, TypeOK, ImportRequests
  <2>2. form.desired[imp.cur] = git[imp.sha].tree[imp.cur]
    BY DEF WorkInv, WorkInOrder, CurrentFromGit, Desired
  <2> QED BY <2>1, <2>2 DEF Replaceable
<1>3. RecordsFromGit'
  <2>1. imp.store \in Stores
    BY DEF Inductive, TypeOK, ImportRequests
  <2>2. ASSUME imp'.next = RecordArtifact(imp.store, imp.cur, imp.ref, form.desired[imp.cur]),
               NEW d \in Dashboards, imp'.next[d] # NoEntry
        PROVE  imp'.next[d].hash \in Replaceable(d)
    <3>1. CASE d = imp.cur
      <4>1. imp'.next[d] = [ref |-> imp.ref, hash |-> form.desired[imp.cur]]
        BY <1>2, <2>1, <2>2, <3>1 DEF RecordArtifact, Stores
      <4> QED BY <1>2, <3>1, <4>1
    <3>2. CASE d # imp.cur
      <4>1. imp'.next[d] = imp.store[d]
        BY <2>1, <2>2, <3>2 DEF RecordArtifact, Stores
      <4> QED BY <2>2, <4>1 DEF WorkInv, WorkInOrder, RecordsFromGit
    <3> QED BY <3>1, <3>2
  <2> QED BY <1>1, <2>2 DEF WorkInv, WorkInOrder, RecordsFromGit
<1>4. PlanFromGit'
  BY <1>1 DEF WorkInv, WorkInOrder, PlanFromGit
<1>5. RecordsKept' /\ AppliedIsRecorded'
  BY DEF WorkInv, WorkInOrder, RecordsKept, AppliedIsRecorded, Persisting
<1>6. Positioned'
  BY DEF WorkInv, WorkInOrder, Positioned, BetweenDashboards, Persisting
<1>7. CurrentFromGit'
  BY <1>1, <1>2 DEF WorkInv, WorkInOrder, CurrentFromGit, Desired, Reading
<1>8. Untouched'
  BY DEF Untouched
<1> QED BY <1>3, <1>4, <1>5, <1>6, <1>7, <1>8 DEF WorkInv, WorkInOrder

(* The request goes on with the next dashboard, or from a persist failure. *)
LEMMA SettledKeepsWork ==
  ASSUME Inductive, WorkInv, imp' = Settled(imp), UNCHANGED <<git, form, shared, local>>
  PROVE  WorkInv'
<1>1. imp \in ImportRequests
  BY DEF Inductive, TypeOK
<1>2. /\ imp'.pc = "loop" /\ imp'.cur = NoDashboard /\ imp'.created = FALSE
      /\ imp'.todo \subseteq imp.todo /\ imp'.applied = imp.applied
      /\ imp'.store = imp.store /\ imp'.next = imp.next /\ imp'.plan = imp.plan
      /\ imp'.ref = imp.ref
  BY <1>1 DEF Settled, ImportRequests
<1>3. \A e \in Dashboards : Replaceable(e)' = Replaceable(e)
  BY DEF Replaceable
<1>4. RecordsFromGit' /\ PlanFromGit'
  BY <1>2, <1>3 DEF WorkInv, WorkInOrder, RecordsFromGit, PlanFromGit
<1>5. RecordsKept' /\ AppliedIsRecorded'
  BY <1>2 DEF WorkInv, WorkInOrder, RecordsKept, AppliedIsRecorded, Persisting
<1>6. Positioned'
  BY <1>2 DEF WorkInv, WorkInOrder, Positioned, BetweenDashboards, Persisting
<1>7. CurrentFromGit' /\ Untouched'
  BY <1>2 DEF CurrentFromGit, Untouched
<1> QED BY <1>4, <1>5, <1>6, <1>7 DEF WorkInv, WorkInOrder

(* The calls to HA: what Import makes of LIVE is a dashboard without a     *)
(* configuration, the file Git has, or what LIVE was at the plan.          *)
LEMMA CallsKeepWork ==
  ASSUME Inductive, WorkInv,
         \/ CreateDashboard \/ CreateRaises \/ SaveDashboard \/ SaveRaises
         \/ Verify \/ VerifyMismatch \/ VerifyRaises
         \/ Restore \/ RestoreFails \/ ArmGuard \/ ArmFails
  PROVE  WorkInv'
<1>1. /\ UNCHANGED <<git, form, shared, local>>
      /\ imp \in ImportRequests /\ live \in [Dashboards -> LiveValues]
  BY DEF CreateDashboard, CreateRaises, SaveDashboard, SaveRaises, Verify,
     VerifyMismatch, VerifyRaises, Restore, RestoreFails, ArmGuard, ArmFails,
     ImportOnly, files, Inductive, TypeOK
<1>2. /\ imp.cur # NoDashboard /\ imp.cur \in Dashboards
      /\ Desired(imp.cur) \in Replaceable(imp.cur)
  <2>1. imp.cur # NoDashboard /\ imp.cur \in Dashboards
    BY CurrentOK DEF Inductive, TypeInv, CreateDashboard, CreateRaises, SaveDashboard,
       SaveRaises, Verify, VerifyMismatch, VerifyRaises, Restore, RestoreFails, ArmGuard, ArmFails
  <2>2. imp.sha \in DOMAIN git
    BY <1>1 DEF ImportRequests
  <2> QED BY <2>1, <2>2 DEF Replaceable, Desired
<1>3. imp.plan[imp.cur].current \in Replaceable(imp.cur) \cup {NoConfig}
  BY <1>2 DEF WorkInv, WorkInOrder, CurrentFromGit, PlanFromGit
<1>4. imp.created => imp.plan[imp.cur].current = NoConfig
  BY DEF WorkInv, WorkInOrder, Untouched
<1>5. CASE imp' = Settled(imp)
  BY <1>1, <1>5, SettledKeepsWork
<1>6. CASE CreateDashboard
  <2>1. /\ imp'.pc = "save" /\ imp'.created = TRUE /\ imp'.next = imp.next
        /\ imp'.cur = imp.cur /\ imp'.todo = imp.todo /\ imp'.plan = imp.plan
        /\ imp'.applied = imp.applied /\ imp'.store = imp.store
        /\ imp'.ref = imp.ref /\ imp'.sha = imp.sha
    BY <1>1, <1>6 DEF CreateDashboard, ImportRequests
  <2>2. Reading(live'[imp.cur]) = NoConfig
    BY <1>1, <1>2, <1>6, DistinctAssumption DEF CreateDashboard, SetLive, Reading
  <2>3. imp.plan[imp.cur].current = NoConfig
    BY <1>2, <1>6 DEF CreateDashboard, WorkInv, WorkInOrder, Untouched, PlanFromGit
  <2> QED BY <1>1, <1>2, <2>1, <2>2, <2>3, StayKeepsWork
<1>7. CASE SaveDashboard
  <2>1. /\ imp'.pc = "verify" /\ imp'.created = imp.created /\ imp'.next = imp.next
        /\ imp'.cur = imp.cur /\ imp'.todo = imp.todo /\ imp'.plan = imp.plan
        /\ imp'.applied = imp.applied /\ imp'.store = imp.store
        /\ imp'.ref = imp.ref /\ imp'.sha = imp.sha
    BY <1>1, <1>7 DEF SaveDashboard, ImportRequests
  <2>2. Reading(live'[imp.cur]) \in Replaceable(imp.cur) \cup {NoConfig}
    BY <1>1, <1>2, <1>7 DEF SaveDashboard, SetLive, Reading
  <2> QED BY <1>1, <1>2, <1>4, <2>1, <2>2, StayKeepsWork
<1>8. CASE SaveRaises /\ imp' # Settled(imp)
  <2>1. /\ imp'.pc = "discard" /\ imp'.created = imp.created /\ imp'.next = imp.next
        /\ imp'.cur = imp.cur /\ imp'.todo = imp.todo /\ imp'.plan = imp.plan
        /\ imp'.applied = imp.applied /\ imp'.store = imp.store
        /\ imp'.ref = imp.ref /\ imp'.sha = imp.sha
    BY <1>1, <1>8 DEF SaveRaises, AfterException, ImportRequests
  <2>2. \/ live'[imp.cur] = live[imp.cur]
        \/ Reading(live'[imp.cur]) \in Replaceable(imp.cur) \cup {NoConfig}
    BY <1>1, <1>2, <1>8 DEF SaveRaises, Raises, SetLive, Reading
  <2> QED BY <1>1, <1>2, <1>4, <2>1, <2>2, StayKeepsWork
<1>9. CASE Verify \/ VerifyMismatch \/ (VerifyRaises /\ imp' # Settled(imp))
  <2>1. /\ \/ imp'.pc \in {"undo", "discard"} /\ imp'.next = imp.next
           \/ /\ imp'.pc = "p_shared" /\ imp'.after = "dashboard"
              /\ imp'.next = RecordArtifact(imp.store, imp.cur, imp.ref, form.desired[imp.cur])
        /\ imp'.created = imp.created
        /\ imp'.cur = imp.cur /\ imp'.todo = imp.todo /\ imp'.plan = imp.plan
        /\ imp'.applied = imp.applied /\ imp'.store = imp.store
        /\ imp'.ref = imp.ref /\ imp'.sha = imp.sha
    BY <1>1, <1>9 DEF Verify, VerifyMismatch, VerifyRaises, AfterException, ImportRequests
  <2>2. live' = live
    BY <1>9 DEF Verify, VerifyMismatch, VerifyRaises
  <2> QED BY <1>1, <1>2, <1>4, <2>1, <2>2, StayKeepsWork
<1>10. CASE RestoreFails /\ imp' # Settled(imp)
  <2>1. /\ imp'.pc = "arm" /\ imp'.created = imp.created /\ imp'.next = imp.next
        /\ imp'.cur = imp.cur /\ imp'.todo = imp.todo /\ imp'.plan = imp.plan
        /\ imp'.applied = imp.applied /\ imp'.store = imp.store
        /\ imp'.ref = imp.ref /\ imp'.sha = imp.sha
    BY <1>1, <1>10 DEF RestoreFails, ImportRequests
  <2>2. \/ live'[imp.cur] = live[imp.cur]
        \/ Reading(live'[imp.cur]) \in Replaceable(imp.cur) \cup {NoConfig}
    <3>1. Reading(Before(imp.cur)) \in Replaceable(imp.cur) \cup {NoConfig}
      BY <1>3, DistinctAssumption DEF Before, Reading
    <3> QED BY <1>1, <1>2, <1>10, <3>1 DEF RestoreFails, Raises, SetLive
  <2> QED BY <1>1, <1>2, <1>4, <2>1, <2>2, StayKeepsWork
<1>11. CASE CreateRaises \/ Restore \/ ArmGuard \/ ArmFails
  BY <1>5, <1>11 DEF CreateRaises, Restore, ArmGuard, ArmFails
<1> QED BY <1>5, <1>6, <1>7, <1>8, <1>9, <1>10, <1>11

(* What a persist writes keeps the record of every dashboard applied so    *)
(* far, and adds the current one.                                          *)
LEMMA NextKeepsApplied ==
  ASSUME Inductive, WorkInv, Persisting
  PROVE  /\ \A d \in imp.applied :
              imp.next[d] = [ref |-> imp.ref, hash |-> form.desired[d]]
         /\ imp.after # "dashboard" => imp.cur = NoDashboard /\ imp.applied = {} /\ ~ imp.created
         /\ imp.after = "dashboard" =>
              /\ imp.cur # NoDashboard /\ imp.cur \in Dashboards /\ imp.cur \in imp.todo
              /\ imp.next[imp.cur] = [ref |-> imp.ref, hash |-> form.desired[imp.cur]]
<1>1. imp \in ImportRequests
  BY DEF Inductive, TypeOK
<1>2. CASE imp.after # "dashboard"
  <2>1. imp.cur = NoDashboard /\ imp.applied = {} /\ ~ imp.created
    BY <1>2 DEF WorkInv, WorkInOrder, Positioned, BetweenDashboards, Persisting
  <2> QED BY <1>2, <2>1
<1>3. CASE imp.after = "dashboard"
  <2>1. imp.cur # NoDashboard /\ imp.cur \in Dashboards
    BY <1>3, CurrentOK DEF Inductive, TypeInv, Persisting
  <2>2. imp.cur \in imp.todo /\ imp.cur \notin imp.applied /\ imp.applied \subseteq Dashboards
    BY <1>1, <2>1 DEF WorkInv, WorkInOrder, Positioned, ImportRequests
  <2>3. imp.next = RecordArtifact(imp.store, imp.cur, imp.ref, form.desired[imp.cur])
    BY <1>3 DEF WorkInv, WorkInOrder, RecordsKept
  <2>4. imp.store \in Stores
    BY <1>1 DEF ImportRequests
  <2>5. imp.next[imp.cur] = [ref |-> imp.ref, hash |-> form.desired[imp.cur]]
    BY <2>1, <2>3, <2>4 DEF RecordArtifact, Stores
  <2>6. \A d \in imp.applied : imp.next[d] = imp.store[d]
    BY <2>2, <2>3, <2>4 DEF RecordArtifact, Stores
  <2> QED BY <1>3, <2>1, <2>2, <2>5, <2>6 DEF WorkInv, WorkInOrder, RecordsKept
<1> QED BY <1>2, <1>3

(* A file that is replaced by the next store, or is lost.                  *)
LEMMA FilesKeepRecords ==
  ASSUME Inductive, WorkInv, Persisting, UNCHANGED <<git, form>>,
         \A file \in {shared', local'} :
           \/ file \in {shared, local, OkFile(imp.next)}
           \/ file.status # "ok" /\ file.store = EmptyStore
  PROVE  /\ \A store \in {shared'.store, local'.store} : \A d \in Dashboards :
              store[d] # NoEntry => store[d].hash \in Replaceable(d)
         /\ \A d \in imp.applied : \A file \in {shared', local'} :
              file.status = "ok" =>
                file.store[d] = [ref |-> imp.ref, hash |-> form.desired[d]]
<1>1. ASSUME NEW file \in {shared', local'}, NEW d \in Dashboards, file.store[d] # NoEntry
      PROVE  file.store[d].hash \in Replaceable(d)
  <2>1. file.store \in {shared.store, local.store, imp.next}
    BY <1>1 DEF OkFile, EmptyStore
  <2> QED BY <1>1, <2>1 DEF WorkInv, WorkInOrder, RecordsFromGit
<1>2. ASSUME NEW d \in imp.applied, NEW file \in {shared', local'}, file.status = "ok"
      PROVE  file.store[d] = [ref |-> imp.ref, hash |-> form.desired[d]]
  <2>1. CASE file \in {shared, local}
    BY <1>2, <2>1 DEF WorkInv, AppliedIsRecorded
  <2>2. CASE file = OkFile(imp.next)
    BY <1>2, <2>2, NextKeepsApplied DEF OkFile
  <2> QED BY <1>2, <2>1, <2>2
<1> QED BY <1>1, <1>2

LEMMA PersistKeepsWork ==
  ASSUME Inductive, WorkInv,
         \/ PersistShared \/ PersistMarker \/ PersistLocal
         \/ PersistFails \/ PersistUnverified
  PROVE  WorkInv'
<1>1. /\ Persisting /\ UNCHANGED <<live, git, form>> /\ imp \in ImportRequests
      /\ imp.after \in {"review", "managed", "apply", "dashboard"}
  BY DEF PersistShared, PersistMarker, PersistLocal, PersistFails, PersistUnverified,
     Persisting, ImportOnly, Inductive, TypeOK, ImportRequests
<1>2. /\ \A store \in {shared'.store, local'.store} : \A d \in Dashboards :
           store[d] # NoEntry => store[d].hash \in Replaceable(d)
      /\ \A d \in imp.applied : \A file \in {shared', local'} :
           file.status = "ok" =>
             file.store[d] = [ref |-> imp.ref, hash |-> form.desired[d]]
  <2>1. \A file \in {shared', local'} :
           \/ file \in {shared, local, OkFile(imp.next)}
           \/ file.status # "ok" /\ file.store = EmptyStore
    BY DEF PersistShared, PersistMarker, PersistLocal, PersistFails, PersistUnverified,
       ImportOnly, files, MissingFile, InvalidFile
  <2> QED BY <1>1, <2>1, FilesKeepRecords
<1>3. /\ \A d \in imp.applied :
           imp.next[d] = [ref |-> imp.ref, hash |-> form.desired[d]]
      /\ imp.after # "dashboard" => imp.cur = NoDashboard /\ imp.applied = {} /\ ~ imp.created
      /\ imp.after = "dashboard" =>
           /\ imp.cur # NoDashboard /\ imp.cur \in Dashboards /\ imp.cur \in imp.todo
           /\ imp.next[imp.cur] = [ref |-> imp.ref, hash |-> form.desired[imp.cur]]
  BY <1>1, NextKeepsApplied
<1>4. \A e \in Dashboards : Replaceable(e)' = Replaceable(e)
  BY <1>1 DEF Replaceable
(* Where the request goes on.                                              *)
<1>5. CASE imp' = IdleImport
  <2>1. /\ imp'.pc = "idle" /\ imp'.cur = NoDashboard /\ ~ imp'.created /\ imp'.applied = {}
        /\ imp'.store = EmptyStore /\ imp'.next = EmptyStore
        /\ \A d \in Dashboards : imp'.plan[d].status = "SAME"
    BY <1>5 DEF IdleImport
  <2>2. RecordsFromGit'
    BY <1>2, <1>4, <2>1 DEF RecordsFromGit, EmptyStore
  <2>3. Positioned' /\ RecordsKept'
    BY <2>1 DEF Positioned, RecordsKept, BetweenDashboards, Persisting
  <2>4. PlanFromGit'
    BY <2>1 DEF PlanFromGit, APPLYABLE_STATUSES
  <2>5. CurrentFromGit' /\ Untouched' /\ AppliedIsRecorded'
    BY <2>1 DEF CurrentFromGit, Untouched, AppliedIsRecorded
  <2> QED BY <2>2, <2>3, <2>4, <2>5 DEF WorkInv, WorkInOrder
<1>6. CASE \E pc \in {"p_marker", "p_local", "rollback", "reload"} :
             /\ imp' = [imp EXCEPT !.pc = pc]
             /\ pc = "rollback" => imp.after = "dashboard"
             /\ pc = "reload" => imp.after = "apply"
             /\ pc = "p_marker" => shared' = OkFile(imp.next)
             /\ pc = "p_local" => imp.pc = "p_marker" /\ shared' = shared
  <2>1. /\ imp'.next = imp.next /\ imp'.store = imp.store /\ imp'.plan = imp.plan
        /\ imp'.after = imp.after /\ imp'.created = imp.created
        /\ imp'.cur = imp.cur /\ imp'.todo = imp.todo
        /\ imp'.applied = imp.applied /\ imp'.ref = imp.ref /\ imp'.sha = imp.sha
        /\ imp'.pc \in {"p_marker", "p_local", "rollback", "reload"}
        /\ imp'.pc = "rollback" => imp.after = "dashboard"
        /\ imp'.pc = "reload" => imp.after = "apply"
        /\ imp'.pc = "p_marker" => shared' = OkFile(imp.next)
        /\ imp'.pc = "p_local" => imp.pc = "p_marker" /\ shared' = shared
    BY <1>1, <1>6 DEF ImportRequests
  <2>2. RecordsFromGit' /\ PlanFromGit'
    BY <1>2, <1>4, <2>1 DEF WorkInv, WorkInOrder, RecordsFromGit, PlanFromGit
  <2>3. RecordsKept'
    BY <1>1, <2>1 DEF WorkInv, WorkInOrder, RecordsKept, Persisting, OkFile
  <2>4. Positioned'
    BY <1>1, <1>3, <2>1 DEF WorkInv, WorkInOrder, Positioned, BetweenDashboards, Persisting
  <2>5. CurrentFromGit'
    BY <1>1, <1>4, <2>1 DEF WorkInv, WorkInOrder, CurrentFromGit, Desired, Inductive, TypeOK, ImportRequests
  <2>6. Untouched'
    BY <2>1 DEF WorkInv, WorkInOrder, Untouched
  <2>7. AppliedIsRecorded'
    BY <1>1, <1>2, <2>1 DEF AppliedIsRecorded
  <2> QED BY <2>2, <2>3, <2>4, <2>5, <2>6, <2>7 DEF WorkInv, WorkInOrder
<1>7. CASE /\ imp.after = "dashboard" /\ PersistLocal
           /\ imp' = [Settled(imp) EXCEPT !.store = imp.next, !.applied = @ \cup {imp.cur}]
  <2>1. /\ imp'.pc = "loop" /\ imp'.cur = NoDashboard /\ imp'.created = FALSE
        /\ imp'.todo = imp.todo \ {imp.cur} /\ imp'.applied = imp.applied \cup {imp.cur}
        /\ imp'.store = imp.next /\ imp'.next = imp.next /\ imp'.plan = imp.plan
        /\ imp'.ref = imp.ref
    BY <1>1, <1>7 DEF Settled, ImportRequests
  <2>2. RecordsFromGit' /\ PlanFromGit'
    BY <1>2, <1>4, <2>1 DEF WorkInv, WorkInOrder, RecordsFromGit, PlanFromGit
  <2>3. RecordsKept'
    BY <1>1, <1>3, <1>7, <2>1 DEF RecordsKept, Persisting
  <2>4. Positioned'
    BY <2>1 DEF WorkInv, WorkInOrder, Positioned, BetweenDashboards, Persisting
  <2>5. CurrentFromGit' /\ Untouched'
    BY <2>1 DEF CurrentFromGit, Untouched
  <2>6. AppliedIsRecorded'
    <3>1. shared'.status = "ok" =>
            shared'.store[imp.cur] = [ref |-> imp.ref, hash |-> form.desired[imp.cur]]
      BY <1>3, <1>7 DEF PersistLocal, WorkInv, WorkInOrder, RecordsKept
    <3>2. local' = OkFile(imp.next)
      BY <1>7 DEF PersistLocal
    <3> QED BY <1>1, <1>2, <1>3, <1>7, <2>1, <3>1, <3>2 DEF AppliedIsRecorded, OkFile
  <2> QED BY <2>2, <2>3, <2>4, <2>5, <2>6 DEF WorkInv, WorkInOrder
<1> QED BY <1>1, <1>5, <1>6, <1>7
    DEF PersistShared, PersistMarker, PersistLocal, PersistFails, PersistUnverified, AfterPersistFailure

-----------------------------------------------------------------------------

LEMMA StepKeepsWork ==
  ASSUME Inductive, WorkInv, [Next]_vars
  PROVE  WorkInv'
<1>1. CASE Environment
  BY <1>1, EnvironmentKeepsWork
<1>2. CASE ImportStep
  <2>1. ASSUME NEW ref \in Refs, NEW pinned \in BOOLEAN,
               NEW sha \in RevisionsOf(ref, pinned), Review(ref, sha, pinned)
        PROVE  WorkInv'
    BY <2>1, ReviewKeepsWork
  <2> QED BY <1>2, <2>1, ApplyKeepsWork, ApplyManagedKeepsWork, ReloadKeepsWork,
     SelectKeepsWork, CallsKeepWork, PersistKeepsWork, EndKeepsWork
     DEF ImportStep
<1>3. CASE ExportStep
  BY <1>3, ExportKeepsWork
<1>4. CASE UNCHANGED vars
  BY <1>4, OutsideKeepsWork DEF vars, files, GitGrows
<1> QED BY <1>1, <1>2, <1>3, <1>4 DEF Next

LEMMA InitWork ==
  ASSUME Init
  PROVE  WorkInv
<1>1. /\ imp.pc = "idle" /\ imp.cur = NoDashboard /\ ~ imp.created /\ imp.applied = {}
      /\ imp.store = EmptyStore /\ imp.next = EmptyStore
      /\ \A d \in Dashboards : imp.plan[d].status = "SAME"
      /\ shared.store = EmptyStore /\ local.store = EmptyStore
  BY DEF Init, IdleImport, MissingFile
<1>2. RecordsFromGit
  BY <1>1 DEF RecordsFromGit, EmptyStore
<1>3. Positioned /\ RecordsKept
  BY <1>1 DEF Positioned, RecordsKept, BetweenDashboards, Persisting
<1>4. PlanFromGit
  BY <1>1 DEF PlanFromGit, APPLYABLE_STATUSES
<1>5. CurrentFromGit /\ Untouched /\ AppliedIsRecorded
  BY <1>1 DEF CurrentFromGit, Untouched, AppliedIsRecorded
<1> QED BY <1>2, <1>3, <1>4, <1>5 DEF WorkInv, WorkInOrder

(* What Import's request knows at each of its steps is true: its plan and  *)
(* every record it reads or writes are contents Git has, the current       *)
(* dashboard is still to be applied, and before its save it is as the plan *)
(* saw it.                                                                 *)
THEOREM ApplyWorksInOrder == Spec => [](Inductive /\ WorkInOrder /\ AppliedIsRecorded)
<1>1. Init => WorkInv
  BY InitWork
<1>2. Inductive /\ WorkInv /\ [Next]_vars => WorkInv'
  BY StepKeepsWork
<1>3. WorkInv <=> WorkInOrder /\ AppliedIsRecorded
  BY DEF WorkInv
<1> QED BY <1>1, <1>2, <1>3, InductiveInvariance, PTL DEF Spec

(* While an Apply is going on, every dashboard it has reported as applied  *)
(* is recorded with its source and content in every provenance file that   *)
(* can be read, whatever fails and whatever the next dashboards do.        *)
THEOREM AppliedStaysRecorded == Spec => []AppliedIsRecorded
BY ApplyWorksInOrder, PTL

(* A step of Import changes at most LIVE of the current dashboard.         *)
LEMMA ImportChangesCurrent ==
  ASSUME Inductive, ImportStep, live' # live
  PROVE  /\ \/ CreateDashboard \/ CreateRaises \/ SaveDashboard \/ SaveRaises
            \/ Restore \/ RestoreFails
         /\ imp.cur # NoDashboard /\ imp.cur \in Dashboards
         /\ \E value : live' = [live EXCEPT ![imp.cur] = value]
<1>1. \/ CreateDashboard \/ CreateRaises \/ SaveDashboard \/ SaveRaises
      \/ Restore \/ RestoreFails
  BY DEF ImportStep, Review, Apply, ApplyManaged, Reload, SkipDashboard, StartDashboard,
     LastReadRaises, Verify, VerifyMismatch, VerifyRaises, PersistShared, PersistMarker, PersistLocal,
     PersistFails, PersistUnverified, ArmGuard, ArmFails, FinishApply, CrashImport
<1>2. imp.pc \in {"create", "save", "verify", "discard", "undo", "rollback", "arm"}
  BY <1>1 DEF CreateDashboard, CreateRaises, SaveDashboard, SaveRaises, Restore, RestoreFails
<1>3. \E value : live' = [live EXCEPT ![imp.cur] = value]
  BY <1>1 DEF CreateDashboard, CreateRaises, SaveDashboard, SaveRaises, Restore,
     RestoreFails, Raises, SetLive
<1> QED BY <1>1, <1>2, <1>3, CurrentOK DEF Inductive, TypeInv

LEMMA StepLosesNoEdit ==
  ASSUME Inductive, WorkInv, [Next]_vars, "edit_race" \notin Faults,
         NEW d \in Dashboards, imp' # imp, live'[d] # live[d], live[d] \in Contents
  PROVE  \/ live[d] \in Shells
         \/ \E i \in DOMAIN git : git[i].tree[d] = live[d]
<1>1. ImportStep
  <2>1. ~ Environment
    BY DEF Environment, HaEdit, GitCommit, GitRebase, LoseShared, LoseLocal
  <2>2. ~ ExportStep
    BY DEF ExportStep, ExportCollect, ExportClone, ExportPublish, ExportPush,
       ExportEnds, ExportFails
  <2>3. ~ UNCHANGED vars
    BY DEF vars
  <2> QED BY <2>1, <2>2, <2>3 DEF Next
<1>2. PICK value : live' = [live EXCEPT ![imp.cur] = value]
  BY <1>1, ImportChangesCurrent
<1>3. imp.cur # NoDashboard /\ live \in [Dashboards -> LiveValues]
  BY <1>1, ImportChangesCurrent DEF Inductive, TypeOK
<1>4. d = imp.cur
  BY <1>2, <1>3
<1>5. Reading(live[d]) \in Replaceable(d) \cup {NoConfig}
  BY <1>3, <1>4 DEF WorkInv, WorkInOrder, CurrentFromGit
<1>6. live[d] \in Replaceable(d)
  BY <1>5, DistinctAssumption DEF Reading
<1> QED BY <1>6 DEF Replaceable

(* Whatever Import does to a LIVE dashboard, the configuration it replaces *)
(* is an empty shell or is in some Git revision, as long as no user edits  *)
(* the very dashboard it is working on: an edit made before is not lost.   *)
THEOREM HaEditsSurvive ==
  ASSUME "edit_race" \notin Faults
  PROVE  Spec => NoLostHaEdit
<1>1. Inductive /\ WorkInv /\ [Next]_vars =>
        [\A d \in Dashboards :
           imp' # imp /\ live'[d] # live[d] /\ live[d] \in Contents =>
             \/ live[d] \in Shells
             \/ \E i \in DOMAIN git : git[i].tree[d] = live[d]]_vars
  BY StepLosesNoEdit
<1>2. Inductive /\ WorkInOrder /\ AppliedIsRecorded => Inductive /\ WorkInv
  BY DEF WorkInv
<1> QED BY <1>1, <1>2, ApplyWorksInOrder, PTL DEF Spec, NoLostHaEdit

LEMMA RestoredOK ==
  ASSUME Inductive, WorkInv, Restore
  PROVE  /\ Reading(live'[imp.cur]) = imp.plan[imp.cur].current
         /\ imp.created => live'[imp.cur] = Unregistered
<1>1. imp.cur \in Dashboards /\ live \in [Dashboards -> LiveValues] /\ imp \in ImportRequests
  BY CurrentOK DEF Restore, Inductive, TypeInv, TypeOK
<1>2. live'[imp.cur] = Before(imp.cur)
  BY <1>1 DEF Restore, SetLive
<1>3. imp.plan[imp.cur].current \in Contents \cup {NoConfig}
  BY <1>1 DEF ImportRequests, Readings
<1>4. imp.created => imp.plan[imp.cur].current = NoConfig
  BY DEF WorkInv, WorkInOrder, Untouched
<1> QED BY <1>2, <1>3, <1>4, DistinctAssumption DEF Before, Reading

LEMMA StepRestores ==
  ASSUME Inductive, WorkInv, [Next]_vars,
         {"lost_ack", "readback", "edit_race"} \cap Faults = {},
         NEW d \in Dashboards, imp.cur = d, imp'.cur # d, d \notin imp'.applied,
         imp'.pc # "idle", ~ CouldNotRestore
  PROVE  /\ Reading(live'[d]) = imp.plan[d].current
         /\ imp.created => live'[d] = Unregistered
<1>1. d # NoDashboard /\ imp \in ImportRequests
  BY ConstantsAssumption DEF Inductive, TypeOK
<1>2. ~ BetweenDashboards
  BY <1>1 DEF WorkInv, WorkInOrder, Positioned
<1>3. ImportStep
  <2>1. ~ Environment
    BY DEF Environment, HaEdit, GitCommit, GitRebase, LoseShared, LoseLocal
  <2>2. ~ ExportStep
    BY DEF ExportStep, ExportCollect, ExportClone, ExportPublish, ExportPush,
       ExportEnds, ExportFails
  <2>3. ~ UNCHANGED vars
    BY DEF vars
  <2> QED BY <2>1, <2>2, <2>3 DEF Next
<1>4. CreateRaises \/ SaveRaises \/ Restore
  <2>1. ~ \E ref \in Refs, pinned \in BOOLEAN : \E sha \in RevisionsOf(ref, pinned) :
           Review(ref, sha, pinned)
    BY <1>2 DEF Review, BetweenDashboards
  <2>2. ~ ApplyManaged /\ ~ \E selected \in SUBSET Dashboards : Apply(selected)
    BY <1>2 DEF Apply, ApplyManaged, BetweenDashboards
  <2>3. ~ Reload /\ ~ LastReadRaises /\ ~ FinishApply
    BY <1>2 DEF Reload, LastReadRaises, FinishApply, BetweenDashboards
  <2>4. ~ \E e \in Dashboards : SkipDashboard(e) \/ StartDashboard(e)
    BY <1>2 DEF SkipDashboard, StartDashboard, BetweenDashboards
  <2>5. ~ CrashImport
    BY DEF CrashImport, IdleImport
  <2>6. ~ CreateDashboard /\ ~ SaveDashboard /\ ~ Verify /\ ~ VerifyMismatch
    BY <1>1 DEF CreateDashboard, SaveDashboard, Verify, VerifyMismatch, ImportRequests
  <2>7. ~ VerifyRaises /\ ~ ArmGuard /\ ~ ArmFails
    BY DEF VerifyRaises, ArmGuard, ArmFails, CouldNotRestore, Fault
  <2>8. ~ PersistShared /\ ~ PersistMarker /\ ~ PersistFails /\ ~ PersistUnverified
    BY <1>1, <1>2 DEF PersistShared, PersistMarker, PersistFails, PersistUnverified,
       AfterPersistFailure, BetweenDashboards, Persisting, ImportRequests
  <2>9. ~ PersistLocal
    <3>1. imp.after = "dashboard" => d \in [Settled(imp) EXCEPT
            !.store = imp.next, !.applied = @ \cup {imp.cur}].applied
      BY <1>1 DEF Settled, ImportRequests
    <3> QED BY <1>1, <1>2, <3>1 DEF PersistLocal, BetweenDashboards, Persisting, ImportRequests
  <2>10. ~ RestoreFails
    <3>1. ASSUME RestoreFails PROVE imp.pc \in {"discard", "undo"} /\ live' = live
      BY <1>1, <3>1 DEF RestoreFails, Raises, Fault, ImportRequests
    <3> QED BY <3>1 DEF CouldNotRestore
  <2> QED BY <1>3, <2>1, <2>2, <2>3, <2>4, <2>5, <2>6, <2>7, <2>8, <2>9, <2>10 DEF ImportStep
<1>5. CASE CreateRaises \/ SaveRaises
  <2>1. live' = live
    BY <1>5 DEF CreateRaises, SaveRaises, Raises, Fault
  <2>2. ~ imp.created
    <3>1. CASE CreateRaises
      BY <3>1 DEF CreateRaises, WorkInv, WorkInOrder, Untouched
    <3>2. CASE SaveRaises
      BY <1>1, <3>2 DEF SaveRaises, AfterException, ImportRequests
    <3> QED BY <1>5, <3>1, <3>2
  <2>3. Reading(live[d]) = imp.plan[d].current
    BY <1>5, <2>2 DEF CreateRaises, SaveRaises, WorkInv, WorkInOrder, Untouched
  <2> QED BY <2>1, <2>2, <2>3
<1>6. CASE Restore
  BY <1>6, RestoredOK
<1> QED BY <1>4, <1>5, <1>6

(* A dashboard whose Apply is reported as failed, in a request that goes   *)
(* on, has the configuration it had before, and one this Apply created is  *)
(* gone, unless restoring it raised: given that HA answers what it did, the *)
(* read-back succeeds and nobody edits the dashboard meanwhile.            *)
THEOREM FailedApplyIsUndone ==
  ASSUME {"lost_ack", "readback", "edit_race"} \cap Faults = {}
  PROVE  Spec => FailedApplyRestoresLive
<1>1. Inductive /\ WorkInv /\ [Next]_vars =>
        [\A d \in Dashboards :
           (imp.cur = d /\ imp'.cur # d /\ d \notin imp'.applied
              /\ imp'.pc # "idle" /\ ~ CouldNotRestore) =>
             /\ Reading(live'[d]) = imp.plan[d].current
             /\ imp.created => live'[d] = Unregistered]_vars
  BY StepRestores
<1>2. Inductive /\ WorkInOrder /\ AppliedIsRecorded => Inductive /\ WorkInv
  BY DEF WorkInv
<1> QED BY <1>1, <1>2, ApplyWorksInOrder, PTL DEF Spec, FailedApplyRestoresLive
=============================================================================
