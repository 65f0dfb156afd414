------------------------- MODULE FeatureGuardProofs -------------------------
(***************************************************************************)
(* Export never copies a feature-deployed LIVE dashboard onto main: proved *)
(* of DashboardSync for every set of dashboards and contents, when Import  *)
(* and Export take turns, Import can record what it did to HA, and not     *)
(* both provenance files are lost.                                         *)
(***************************************************************************)
EXTENDS DashboardApplyProofs

Accountable ==
  /\ Overlap = FALSE
  /\ {"crash", "lost_ack", "readback", "restore"} \cap Faults = {}
  /\ ~ {"lose_shared", "lose_local"} \subseteq Faults

(* Without a descent of its own, a step takes descents from features away, *)
(* and never gives one.                                                    *)
LEMMA ObservedLineage ==
  ASSUME TypeOK, NEW descent \in [Dashboards -> {"canonical", "feature"}],
         Observe(live', git', descent)
  PROVE  /\ \A d \in Dashboards : lineage'[d] = "feature" => descent[d] = "feature"
         /\ \A d \in Dashboards :
              live'[d] \notin Contents \/ live'[d] \in MainContents(git', d) =>
                lineage'[d] = "canonical"
BY DEF Observe

(* Import's view of what is marked: whichever file it loads, the record    *)
(* says so.                                                                *)
LEMMA LoadedIsMarked ==
  ASSUME Accountable, NEW d \in Dashboards, Marked(d)
  PROVE  FromFeature(LoadImportStore(local, shared)[d])
BY DEF Accountable, Marked, LoadImportStore, Fault

LEMMA HealKeepsMarked ==
  ASSUME HealShared, UNCHANGED local, NEW d \in Dashboards, Marked(d)
  PROVE  Marked(d)'
BY DEF HealShared, Marked

(* A review of main has nothing to apply to a dashboard from a feature.    *)
LEMMA FeatureIsNotApplyable ==
  ASSUME NEW d \in Dashboards, NEW ref, NEW sha, NEW store, IsCanonicalSource(ref),
         live[d] \in Contents, FromFeature(store[d])
  PROVE  Status(d, ref, sha, store) \notin APPLYABLE_STATUSES
<1>1. classify_with_provenance(git[sha].tree[d], live[d], git[sha].bases[d],
        IsCanonicalSource(ref), store[d]) \notin APPLYABLE_STATUSES
  BY DEF classify_with_provenance, FromFeature, APPLYABLE_STATUSES
<1>2. Reading(live[d]) = live[d] /\ live[d] # NoConfig
  BY DistinctAssumption DEF Reading
<1> QED BY <1>1, <1>2 DEF Status, APPLYABLE_STATUSES

(* Nor does collect_changes adopt one: LIVE would be what main holds.      *)
LEMMA FeatureIsNotAdopted ==
  ASSUME Inductive, LineageOK, NEW d \in Dashboards, NEW ref \in Refs,
         NEW pinned \in BOOLEAN, NEW sha \in RevisionsOf(ref, pinned), NEW store,
         lineage[d] = "feature"
  PROVE  d \notin Adoptable(ref, sha, store)
<1> SUFFICES ASSUME d \in Adoptable(ref, sha, store) PROVE FALSE
  OBVIOUS
<1>1. git[sha].tree[d] = live[d] /\ ref = "main" /\ sha \in DOMAIN git
  BY RevisionsOfType DEF Adoptable, ShouldAdopt, IsCanonicalSource, Inductive
<1>2. git[sha].on = "main"
  BY <1>1 DEF RevisionsOf, MainRevisions, LineageOK
<1>3. live[d] \in MainContents(git, d)
  BY <1>1, <1>2 DEF MainContents
<1> QED BY <1>3 DEF LineageOK

-----------------------------------------------------------------------------
(* The request in progress.                                                *)

(* A step of a request that writes no file and makes no dashboard descend  *)
(* from a feature, except one it applies from a feature and has to record. *)
LEMMA RequestKeepsStores ==
  ASSUME StoresGuarded, UNCHANGED <<shared, local>>, marker' \in {marker, TRUE},
         imp.pc \notin {"idle", "reload"},
         imp'.pc \notin {"p_shared", "p_marker", "p_local"},
         imp'.store = imp.store \/ imp'.pc \in {"idle", "reload"},
         \A d \in Dashboards :
           /\ FeatureBefore(d)' => FeatureBefore(d)
           /\ \/ imp'.plan[d].status \notin APPLYABLE_STATUSES
              \/ ~ IsCanonicalSource(imp'.ref)
              \/ /\ imp'.plan = imp.plan /\ imp'.ref = imp.ref
                 /\ Feature(d)' => Feature(d)
  PROVE  StoresGuarded'
<1>1. \A d \in Dashboards : Marked(d) => Marked(d)'
  BY DEF Marked
<1>2. \A d \in Dashboards : FeatureBefore(d)' =>
        Marked(d)' /\ (imp'.pc \notin {"idle", "reload"} => FromFeature(imp'.store[d]))
  BY <1>1 DEF StoresGuarded
<1> QED BY <1>2 DEF StoresGuarded, Persisting

LEMMA CallsKeepStores ==
  ASSUME Accountable, Inductive, WorkInv, LineageOK, StoresGuarded,
         \/ CreateDashboard \/ CreateRaises \/ SaveDashboard \/ SaveRaises
         \/ VerifyMismatch \/ VerifyRaises
         \/ Restore \/ RestoreFails \/ ArmGuard \/ ArmFails
  PROVE  StoresGuarded'
<1>1. /\ UNCHANGED <<shared, local>> /\ marker' \in {marker, TRUE}
      /\ imp \in ImportRequests /\ live \in [Dashboards -> LiveValues]
      /\ lineage \in [Dashboards -> {"canonical", "feature"}]
  BY DEF CreateDashboard, CreateRaises, SaveDashboard, SaveRaises, VerifyMismatch,
     VerifyRaises, Restore, RestoreFails, ArmGuard, ArmFails, ImportOnly, files, Inductive, TypeOK
<1>2. imp.cur # NoDashboard /\ imp.cur \in Dashboards
  BY CurrentOK DEF Inductive, TypeInv, CreateDashboard, CreateRaises, SaveDashboard,
     SaveRaises, VerifyMismatch, VerifyRaises, Restore, RestoreFails, ArmGuard, ArmFails
<1>3. ASSUME imp' = Settled(imp)
      PROVE  /\ imp'.pc = "loop" /\ imp'.cur = NoDashboard /\ imp'.store = imp.store
             /\ imp'.plan = imp.plan /\ imp'.ref = imp.ref
  BY <1>1, <1>3 DEF Settled, ImportRequests
<1>4. CASE CreateDashboard
  <2>1. /\ imp'.pc = "save" /\ imp'.cur = imp.cur /\ imp'.store = imp.store
        /\ imp'.plan = imp.plan /\ imp'.ref = imp.ref /\ imp'.descent = imp.descent
    BY <1>1, <1>4 DEF CreateDashboard, ImportRequests
  <2>2. \A d \in Dashboards : lineage'[d] = "feature" => lineage[d] = "feature"
    <3>1. [lineage EXCEPT ![imp.cur] = "canonical"] \in [Dashboards -> {"canonical", "feature"}]
      BY <1>1
    <3> QED BY <1>4, <3>1, ObservedLineage DEF CreateDashboard, ImportOnly, SetLive, Inductive
  <2>3. \A d \in Dashboards : /\ FeatureBefore(d)' => FeatureBefore(d)
                              /\ Feature(d)' => Feature(d)
    BY <1>4, <2>1, <2>2 DEF CreateDashboard, FeatureBefore, Feature, Unrecorded, Persisting
  <2> QED BY <1>1, <1>4, <2>1, <2>3, RequestKeepsStores DEF CreateDashboard
<1>5. CASE SaveDashboard
  <2>1. /\ imp'.pc = "verify" /\ imp'.cur = imp.cur /\ imp'.store = imp.store
        /\ imp'.plan = imp.plan /\ imp'.ref = imp.ref /\ imp'.descent = imp.descent
    BY <1>1, <1>5 DEF SaveDashboard, ImportRequests
  <2>2. \A d \in Dashboards : lineage'[d] = "feature" =>
          lineage[d] = "feature" \/ (d = imp.cur /\ ~ IsCanonicalSource(imp.ref))
    <3>1. [lineage EXCEPT ![imp.cur] = SavedDescent] \in [Dashboards -> {"canonical", "feature"}]
      BY <1>1 DEF SavedDescent
    <3>2. \A d \in Dashboards : lineage'[d] = "feature" =>
            [lineage EXCEPT ![imp.cur] = SavedDescent][d] = "feature"
      BY <1>5, <3>1, ObservedLineage DEF SaveDashboard, ImportOnly, SetLive, Inductive
    <3> QED BY <1>1, <3>2 DEF SavedDescent
  <2>3. \A d \in Dashboards :
          /\ FeatureBefore(d)' => FeatureBefore(d)
          /\ Feature(d)' => Feature(d) \/ ~ IsCanonicalSource(imp.ref)
    BY <1>5, <2>1, <2>2 DEF SaveDashboard, FeatureBefore, Feature, Unrecorded, Persisting
  <2> QED BY <1>1, <1>5, <2>1, <2>3, RequestKeepsStores DEF SaveDashboard
<1>6. CASE CreateRaises \/ SaveRaises \/ VerifyMismatch
  <2>1. /\ imp'.pc \in {"loop", "discard", "undo"} /\ imp'.store = imp.store
        /\ imp'.plan = imp.plan /\ imp'.ref = imp.ref
        /\ \/ imp'.cur = NoDashboard /\ imp.pc \in {"create", "save"}
           \/ /\ imp'.cur = imp.cur /\ imp'.descent = imp.descent
              /\ imp'.pc \in {"discard", "undo"}
    BY <1>1, <1>3, <1>6 DEF CreateRaises, SaveRaises, VerifyMismatch, AfterException, ImportRequests
  <2>2. lineage' = lineage
    BY <1>6 DEF Accountable, CreateRaises, SaveRaises, VerifyMismatch, Raises, Fault
  <2>3. \A d \in Dashboards : /\ FeatureBefore(d)' => FeatureBefore(d)
                              /\ Feature(d)' => Feature(d)
    BY <2>1, <2>2, ConstantsAssumption DEF FeatureBefore, Feature, Unrecorded, Persisting
  <2> QED BY <1>1, <1>6, <2>1, <2>3, RequestKeepsStores DEF CreateRaises, SaveRaises, VerifyMismatch
<1>7. CASE VerifyRaises
  BY <1>7 DEF VerifyRaises, Accountable, Fault
<1>8. CASE Restore
  <2>1. \A d \in Dashboards : lineage'[d] = "feature" =>
          (d # imp.cur /\ lineage[d] = "feature") \/ (d = imp.cur /\ imp.descent = "feature")
    <3>1. [lineage EXCEPT ![imp.cur] = imp.descent] \in [Dashboards -> {"canonical", "feature"}]
      BY <1>1 DEF ImportRequests
    <3>2. \A d \in Dashboards : lineage'[d] = "feature" =>
            [lineage EXCEPT ![imp.cur] = imp.descent][d] = "feature"
      BY <1>8, <3>1, ObservedLineage DEF Restore, ImportOnly, SetLive, Inductive
    <3> QED BY <1>1, <3>2
  <2>2. \A d \in Dashboards : /\ FeatureBefore(d)' => FeatureBefore(d)
                              /\ Feature(d)' => Feature(d)
    BY <1>3, <1>8, <2>1, ConstantsAssumption DEF Restore, FeatureBefore, Feature, Unrecorded
  <2> QED BY <1>1, <1>3, <1>8, <2>2, RequestKeepsStores DEF Restore
<1>9. CASE RestoreFails
  <2>1. lineage' = lineage /\ live[imp.cur] = Unregistered
    BY <1>9 DEF Accountable, RestoreFails, Raises, Fault
  <2>2. lineage[imp.cur] = "canonical"
    BY <1>2, <2>1, DistinctAssumption DEF LineageOK
  <2>3. /\ imp'.pc \in {"loop", "arm"} /\ imp'.store = imp.store
        /\ imp'.plan = imp.plan /\ imp'.ref = imp.ref
        /\ \/ imp'.cur = NoDashboard
           \/ imp'.cur = imp.cur /\ imp'.descent = imp.descent
    BY <1>1, <1>3, <1>9 DEF RestoreFails, ImportRequests
  <2>4. \A d \in Dashboards : /\ FeatureBefore(d)' => FeatureBefore(d)
                              /\ Feature(d)' => Feature(d)
    BY <2>1, <2>2, <2>3, ConstantsAssumption DEF FeatureBefore, Feature, Unrecorded
  <2> QED BY <1>1, <1>9, <2>3, <2>4, RequestKeepsStores DEF RestoreFails
<1>10. CASE ArmGuard \/ ArmFails
  <2>1. lineage' = lineage /\ imp' = Settled(imp) /\ imp.pc = "arm"
    BY <1>10 DEF ArmGuard, ArmFails
  <2>2. \A d \in Dashboards : /\ FeatureBefore(d)' => FeatureBefore(d)
                              /\ Feature(d)' => Feature(d)
    BY <1>3, <2>1, ConstantsAssumption DEF FeatureBefore, Feature, Unrecorded, Persisting
  <2> QED BY <1>1, <1>3, <2>1, <2>2, RequestKeepsStores
<1> QED BY <1>4, <1>5, <1>6, <1>7, <1>8, <1>9, <1>10

LEMMA SelectKeepsStores ==
  ASSUME Inductive, WorkInv, StoresGuarded,
         NEW d \in Dashboards, SkipDashboard(d) \/ StartDashboard(d)
  PROVE  StoresGuarded'
<1>1. /\ UNCHANGED <<shared, local, marker, lineage>> /\ imp \in ImportRequests
      /\ imp.pc = "loop" /\ imp.cur = NoDashboard
  BY DEF SkipDashboard, StartDashboard, ImportOnly, files, Inductive, TypeOK,
     WorkInv, WorkInOrder, Positioned, BetweenDashboards
<1>2. /\ imp'.pc \in {"loop", "create", "save"} /\ imp'.store = imp.store
      /\ imp'.plan = imp.plan /\ imp'.ref = imp.ref
      /\ \/ imp'.cur = NoDashboard
         \/ imp'.cur = d /\ imp'.descent = lineage[d]
  BY <1>1 DEF SkipDashboard, StartDashboard, ImportRequests
<1>3. \A e \in Dashboards : /\ FeatureBefore(e)' => FeatureBefore(e)
                            /\ Feature(e)' => Feature(e)
  BY <1>1, <1>2, ConstantsAssumption DEF FeatureBefore, Feature, Unrecorded, Persisting
<1> QED BY <1>1, <1>2, <1>3, RequestKeepsStores

LEMMA EndKeepsStores ==
  ASSUME Accountable, Inductive, WorkInv, StoresGuarded,
         LastReadRaises \/ FinishApply \/ CrashImport
  PROVE  StoresGuarded'
<1>1. /\ FinishApply /\ imp' = IdleImport /\ UNCHANGED <<shared, local, marker, lineage>>
      /\ imp.pc = "loop" /\ imp.cur = NoDashboard
  BY DEF LastReadRaises, FinishApply, CrashImport, ImportOnly, files, Accountable, Fault,
     WorkInv, WorkInOrder, Positioned, BetweenDashboards
<1>2. /\ imp'.pc = "idle" /\ imp'.cur = NoDashboard
      /\ \A d \in Dashboards : imp'.plan[d].status = "SAME"
  BY <1>1 DEF IdleImport
<1>3. \A d \in Dashboards : imp'.plan[d].status \notin APPLYABLE_STATUSES
  BY <1>2 DEF APPLYABLE_STATUSES
<1>4. \A d \in Dashboards : FeatureBefore(d)' => FeatureBefore(d)
  BY <1>1, <1>2, ConstantsAssumption DEF FeatureBefore, Unrecorded, Persisting
<1> QED BY <1>1, <1>2, <1>3, <1>4, RequestKeepsStores

LEMMA ReloadKeepsStores ==
  ASSUME Accountable, Inductive, WorkInv, StoresGuarded, Reload
  PROVE  StoresGuarded'
<1>1. /\ UNCHANGED <<local, lineage>> /\ imp \in ImportRequests /\ HealShared
      /\ imp.cur = NoDashboard /\ imp.pc = "reload"
  BY DEF Reload, Inductive, TypeOK, WorkInv, WorkInOrder, Positioned, BetweenDashboards
<1>2. /\ imp'.pc = "loop" /\ imp'.cur = NoDashboard /\ imp'.plan = imp.plan
      /\ imp'.ref = imp.ref /\ imp'.store = LoadImportStore(local, shared)
  BY <1>1 DEF Reload, ImportRequests
<1>3. \A d \in Dashboards : /\ FeatureBefore(d)' => FeatureBefore(d)
                            /\ Feature(d)' => Feature(d)
  BY <1>1, <1>2, ConstantsAssumption DEF FeatureBefore, Feature, Unrecorded, Persisting
<1>4. ASSUME NEW d \in Dashboards, FeatureBefore(d)'
      PROVE  Marked(d)' /\ FromFeature(imp'.store[d])
  <2>1. Marked(d)
    BY <1>3, <1>4 DEF StoresGuarded
  <2> QED BY <1>1, <1>2, <2>1, HealKeepsMarked, LoadedIsMarked
<1> QED BY <1>2, <1>3, <1>4 DEF StoresGuarded, Persisting

(* A new request sees the marks, adopts no dashboard from a feature, and   *)
(* plans no Apply of main to one.                                          *)
LEMMA CollectKeepsStores ==
  ASSUME Accountable, Inductive, LineageOK, StoresGuarded, imp.cur = NoDashboard,
         ~ Persisting, NEW request \in ImportRequests, CollectChanges(request),
         UNCHANGED <<local, lineage>>,
         request.pc \in {"idle", "reload"}, request.cur = NoDashboard,
         NEW pinned \in BOOLEAN, request.sha \in RevisionsOf(request.ref, pinned),
         IsCanonicalSource(request.ref) => \A d \in Dashboards :
           request.plan[d].status \in APPLYABLE_STATUSES => lineage[d] # "feature"
  PROVE  StoresGuarded'
<1> DEFINE store == LoadImportStore(local, shared)
           adopted == Adoptable(request.ref, request.sha, store)
<1>1. HealShared /\ request.ref \in Refs
  BY DEF CollectChanges, ImportRequests
<1>2. \/ imp' = request
      \/ imp' = [request EXCEPT !.pc = "p_shared", !.store = store,
                   !.next = AdoptCanonical(store, adopted, live)]
  BY DEF CollectChanges
<1>3. /\ imp'.pc \in {"idle", "reload", "p_shared"} /\ imp'.cur = NoDashboard
      /\ imp'.plan = request.plan /\ imp'.ref = request.ref
      /\ imp'.pc = "p_shared" =>
           imp'.store = store /\ imp'.next = AdoptCanonical(store, adopted, live)
  BY <1>2 DEF ImportRequests
<1>4. \A d \in Dashboards : Feature(d)' => lineage[d] = "feature"
  BY <1>3, ConstantsAssumption DEF Feature
<1>5. \A d \in Dashboards : FeatureBefore(d)' => lineage[d] = "feature"
  BY <1>3, ConstantsAssumption DEF FeatureBefore
<1>6. ASSUME NEW d \in Dashboards, lineage[d] = "feature"
      PROVE  /\ Marked(d)' /\ FromFeature(store[d])
             /\ imp'.pc = "p_shared" => FromFeature(imp'.next[d])
  <2>1. FeatureBefore(d)
    BY <1>6, ConstantsAssumption DEF FeatureBefore, Unrecorded
  <2>2. Marked(d)
    BY <2>1 DEF StoresGuarded
  <2>3. d \notin adopted
    BY <1>1, <1>6, FeatureIsNotAdopted
  <2>4. FromFeature(store[d])
    BY <2>2, LoadedIsMarked
  <2>5. AdoptCanonical(store, adopted, live)[d] = store[d]
    BY <2>3 DEF AdoptCanonical
  <2> QED BY <1>1, <1>3, <2>2, <2>4, <2>5, HealKeepsMarked
<1> HIDE DEF store, adopted
<1>7. IsCanonicalSource(imp'.ref) => \A d \in Dashboards :
        imp'.plan[d].status \in APPLYABLE_STATUSES => ~ Feature(d)'
  BY <1>3, <1>4
<1> QED BY <1>3, <1>4, <1>5, <1>6, <1>7 DEF StoresGuarded, Persisting

LEMMA StartKeepsStores ==
  ASSUME Accountable, Inductive, WorkInv, LineageOK, StoresGuarded,
         \/ \E ref \in Refs, pinned \in BOOLEAN : \E sha \in RevisionsOf(ref, pinned) :
              Review(ref, sha, pinned)
         \/ \E selected \in SUBSET Dashboards : Apply(selected)
  PROVE  StoresGuarded'
<1>1. /\ imp.pc = "idle" /\ imp.cur = NoDashboard /\ ~ Persisting
      /\ UNCHANGED <<local, lineage>>
  BY DEF Review, Apply, Persisting, WorkInv, WorkInOrder, Positioned, BetweenDashboards
<1>2. ASSUME NEW ref \in Refs, NEW pinned \in BOOLEAN,
             NEW sha \in RevisionsOf(ref, pinned), Review(ref, sha, pinned)
      PROVE  StoresGuarded'
  <2> DEFINE request == [IdleImport EXCEPT !.ref = ref, !.sha = sha]
  <2>1. request \in ImportRequests
    BY RevisionsOfType, IdleType DEF Inductive, ImportRequests
  <2>2. /\ request.pc = "idle" /\ request.cur = NoDashboard
        /\ request.ref = ref /\ request.sha = sha
        /\ \A d \in Dashboards : request.plan[d].status = "SAME"
    BY DEF IdleImport
  <2>3. CollectChanges(request)
    BY <1>2 DEF Review
  <2> HIDE DEF request
  <2>4. \A d \in Dashboards : request.plan[d].status \notin APPLYABLE_STATUSES
    BY <2>2 DEF APPLYABLE_STATUSES
  <2> QED BY <1>1, <2>1, <2>2, <2>3, <2>4, CollectKeepsStores
<1>3. ASSUME NEW selected \in SUBSET Dashboards, Apply(selected)
      PROVE  StoresGuarded'
  <2>1. /\ form # NoForm /\ form.ref \in Refs /\ form.sha \in DOMAIN git
        /\ form.pinned \in BOOLEAN
    <3>1. form # NoForm /\ form \in Forms
      BY <1>3 DEF Inductive, TypeOK, Apply
    <3> QED BY <3>1 DEF Forms
  <2> DEFINE store == LoadImportStore(local, shared)
             plan == Plan(form.ref, form.sha, store)
             request == [IdleImport EXCEPT !.pc = "reload", !.after = "apply",
               !.ref = form.ref, !.sha = form.sha, !.todo = selected, !.plan = plan]
  <2>2. plan \in [Dashboards -> [status : Statuses, current : Readings]]
    BY <2>1, PlanType DEF Inductive
  <2>3. ASSUME IsCanonicalSource(form.ref), NEW d \in Dashboards, lineage[d] = "feature"
        PROVE  plan[d].status \notin APPLYABLE_STATUSES
    <3>1. live[d] \in Contents
      BY <2>3 DEF LineageOK
    <3>2. FeatureBefore(d)
      BY <1>1, <2>3, ConstantsAssumption DEF FeatureBefore, Unrecorded
    <3>3. FromFeature(store[d])
      BY <3>2, LoadedIsMarked DEF StoresGuarded
    <3> QED BY <2>3, <3>1, <3>3, FeatureIsNotApplyable DEF Plan
  <2>4. CollectChanges(request) /\ form.sha \in RevisionsOf(form.ref, form.pinned)
    BY <1>3 DEF Apply
  <2> HIDE DEF plan
  <2>5. request \in ImportRequests
    BY <1>3, <2>1, <2>2, IdleType DEF Inductive, ImportRequests, ImportPC
  <2>6. /\ request.pc = "reload" /\ request.cur = NoDashboard
        /\ request.ref = form.ref /\ request.sha = form.sha /\ request.plan = plan
    BY DEF IdleImport
  <2> HIDE DEF request
  <2> QED BY <1>1, <2>1, <2>3, <2>4, <2>5, <2>6, CollectKeepsStores
<1> QED BY <1>2, <1>3

(* An Apply of managed files is about to write the marks it has loaded.    *)
LEMMA ManagedKeepsStores ==
  ASSUME Accountable, Inductive, WorkInv, StoresGuarded, ApplyManaged
  PROVE  StoresGuarded'
<1> DEFINE store == LoadImportStore(local, shared)
<1>1. /\ imp.pc = "idle" /\ imp.cur = NoDashboard
      /\ UNCHANGED <<local, lineage>> /\ HealShared
      /\ imp' = [IdleImport EXCEPT !.pc = "p_shared", !.after = "managed",
                   !.store = store, !.next = store]
  BY DEF ApplyManaged, WorkInv, WorkInOrder, Positioned, BetweenDashboards
<1>2. /\ imp'.pc = "p_shared" /\ imp'.cur = NoDashboard
      /\ imp'.store = store /\ imp'.next = store
      /\ \A d \in Dashboards : imp'.plan[d].status = "SAME"
  BY <1>1 DEF IdleImport
<1>3. \A d \in Dashboards : imp'.plan[d].status \notin APPLYABLE_STATUSES
  BY <1>2 DEF APPLYABLE_STATUSES
<1>4. \A d \in Dashboards : FeatureBefore(d)' \/ Feature(d)' => lineage[d] = "feature"
  BY <1>1, <1>2, ConstantsAssumption DEF FeatureBefore, Feature
<1>5. ASSUME NEW d \in Dashboards, lineage[d] = "feature"
      PROVE  Marked(d)' /\ FromFeature(store[d])
  <2>1. FeatureBefore(d)
    BY <1>1, <1>5, ConstantsAssumption DEF FeatureBefore, Unrecorded
  <2>2. Marked(d)
    BY <2>1 DEF StoresGuarded
  <2> QED BY <1>1, <2>2, HealKeepsMarked, LoadedIsMarked
<1> HIDE DEF store
<1> QED BY <1>2, <1>3, <1>4, <1>5 DEF StoresGuarded, Persisting

(* The record of a verified dashboard says where it came from, and leaves  *)
(* the marks of the others alone.                                          *)
LEMMA VerifyKeepsStores ==
  ASSUME Accountable, Inductive, WorkInv, StoresGuarded, Verify
  PROVE  StoresGuarded'
<1>1. /\ UNCHANGED <<shared, local, marker, lineage>> /\ imp \in ImportRequests
      /\ imp.pc = "verify"
  BY DEF Verify, ImportOnly, files, Inductive, TypeOK
<1>2. imp.cur # NoDashboard /\ imp.cur \in Dashboards /\ form.desired[imp.cur] \in Contents
  BY <1>1, CurrentOK DEF Inductive, TypeInv
<1>3. /\ imp'.pc = "p_shared" /\ imp'.cur = imp.cur /\ imp'.descent = imp.descent
      /\ imp'.store = imp.store /\ imp'.plan = imp.plan /\ imp'.ref = imp.ref
      /\ imp'.next = RecordArtifact(imp.store, imp.cur, imp.ref, form.desired[imp.cur])
  BY <1>1 DEF Verify, ImportRequests
<1>4. \A d \in Dashboards : /\ FeatureBefore(d)' => FeatureBefore(d)
                            /\ Feature(d)' => Feature(d)
  BY <1>1, <1>3 DEF FeatureBefore, Feature, Unrecorded, Persisting
<1>5. ASSUME NEW d \in Dashboards, Feature(d)
      PROVE  FromFeature(imp'.next[d])
  <2>1. imp.store \in Stores /\ imp.ref \in Refs
    BY <1>1 DEF ImportRequests
  <2>2. CASE d = imp.cur
    <3>1. ~ IsCanonicalSource(imp.ref)
      BY <1>2, <1>5, <2>2 DEF StoresGuarded, WorkInv, WorkInOrder, CurrentFromGit
    <3>2. imp'.next[d] = [ref |-> imp.ref, hash |-> form.desired[imp.cur]]
      BY <1>2, <1>3, <2>1, <2>2 DEF RecordArtifact, Stores
    <3>3. imp'.next[d] \in Entry /\ imp'.next[d].ref = imp.ref
      BY <1>2, <2>1, <3>2 DEF Entry
    <3> QED BY <3>1, <3>3, DistinctAssumption DEF FromFeature, IsCanonicalLive
  <2>3. CASE d # imp.cur
    <3>1. imp'.next[d] = imp.store[d]
      BY <1>2, <1>3, <2>1, <2>3 DEF RecordArtifact, Stores
    <3>2. FeatureBefore(d)
      BY <1>5, <2>3 DEF Feature, FeatureBefore, Unrecorded
    <3> QED BY <1>1, <3>1, <3>2 DEF StoresGuarded
  <2> QED BY <2>2, <2>3
<1>6. \A d \in Dashboards : Marked(d) => Marked(d)'
  BY <1>1 DEF Marked
<1> QED BY <1>1, <1>3, <1>4, <1>5, <1>6 DEF StoresGuarded, Persisting

LEMMA PersistKeepsStores ==
  ASSUME Accountable, Inductive, WorkInv, StoresGuarded,
         \/ PersistShared \/ PersistMarker \/ PersistLocal
         \/ PersistFails \/ PersistUnverified
  PROVE  StoresGuarded'
<1>1. /\ Persisting /\ lineage' = lineage /\ imp \in ImportRequests
      /\ imp.after \in {"review", "managed", "apply", "dashboard"} /\ marker' \in {marker, TRUE}
  BY DEF PersistShared, PersistMarker, PersistLocal, PersistFails, PersistUnverified,
     Persisting, ImportOnly, files, Inductive, TypeOK, ImportRequests
<1>2. /\ imp.after # "dashboard" => imp.cur = NoDashboard
      /\ imp.after = "dashboard" => imp.cur # NoDashboard /\ imp.cur \in Dashboards
  BY <1>1, NextKeepsApplied
<1>3. \A d \in Dashboards : /\ FeatureBefore(d) => Marked(d) /\ FromFeature(imp.store[d])
                            /\ Feature(d) => FromFeature(imp.next[d])
  BY <1>1 DEF StoresGuarded, Persisting
<1>4. ASSUME NEW d \in Dashboards, Marked(d), FromFeature(imp.next[d])
      PROVE  Marked(d)'
  <2> DEFINE written == OkFile(imp.next)
  <2>1. CASE PersistShared \/ PersistLocal
    <3>1. /\ marker' = marker
          /\ \/ shared' = written /\ local' = local
             \/ shared' = shared /\ local' = written
      BY <2>1 DEF PersistShared, PersistLocal
    <3>2. written.status = "ok" /\ written.store = imp.next
      BY DEF OkFile
    <3> HIDE DEF written
    <3> QED BY <1>4, <3>1, <3>2 DEF Marked
  <2>2. CASE PersistMarker \/ PersistFails
    BY <1>4, <2>2 DEF PersistMarker, PersistFails, ImportOnly, files, Marked
  <2>3. CASE PersistUnverified
    BY <1>4, <2>3 DEF PersistUnverified, Marked, OkFile, MissingFile, InvalidFile
  <2> QED BY <2>1, <2>2, <2>3
<1>5. \A d \in Dashboards : FeatureBefore(d) => Feature(d)
  BY DEF FeatureBefore, Feature
(* The write of the shared file or the marker, or a failure of the record: *)
(* the dashboard is still unrecorded.                                      *)
<1>6. CASE \E pc \in {"p_marker", "p_local", "rollback", "reload"} :
             /\ imp' = [imp EXCEPT !.pc = pc]
             /\ pc = "p_local" => marker'
             /\ pc = "reload" => imp.after = "apply"
  <2>1. /\ imp'.pc \in {"p_marker", "p_local", "rollback", "reload"}
        /\ imp'.next = imp.next /\ imp'.store = imp.store /\ imp'.plan = imp.plan
        /\ imp'.ref = imp.ref /\ imp'.cur = imp.cur /\ imp'.descent = imp.descent
        /\ imp'.pc = "p_local" => marker'
        /\ imp'.pc = "reload" => imp.after = "apply"
    BY <1>1, <1>6 DEF ImportRequests
  <2>2. \A d \in Dashboards : /\ FeatureBefore(d)' => FeatureBefore(d)
                              /\ Feature(d)' => Feature(d)
    BY <1>1, <1>2, <2>1, ConstantsAssumption DEF FeatureBefore, Feature, Unrecorded, Persisting
  <2> QED BY <1>1, <1>3, <1>4, <1>5, <2>1, <2>2 DEF StoresGuarded, Persisting
(* The request ends with it.                                               *)
<1>7. CASE imp' = IdleImport /\ imp.after # "dashboard"
  <2>1. /\ imp'.pc = "idle" /\ imp'.cur = NoDashboard
        /\ \A d \in Dashboards : imp'.plan[d].status = "SAME"
    BY <1>7 DEF IdleImport
  <2>2. \A d \in Dashboards : imp'.plan[d].status \notin APPLYABLE_STATUSES
    BY <2>1 DEF APPLYABLE_STATUSES
  <2>3. \A d \in Dashboards : FeatureBefore(d)' => FeatureBefore(d)
    BY <1>1, <1>2, <1>7, <2>1, ConstantsAssumption DEF FeatureBefore, Unrecorded
  <2> QED BY <1>3, <1>4, <1>5, <2>1, <2>2, <2>3 DEF StoresGuarded, Persisting
(* The dashboard is recorded in both files.                                *)
<1>8. CASE /\ imp.after = "dashboard" /\ PersistLocal
           /\ imp' = [Settled(imp) EXCEPT !.store = imp.next, !.applied = @ \cup {imp.cur}]
  <2>1. /\ imp'.pc = "loop" /\ imp'.cur = NoDashboard /\ imp'.store = imp.next
        /\ imp'.plan = imp.plan /\ imp'.ref = imp.ref
    BY <1>1, <1>8 DEF Settled, ImportRequests
  <2>2. \A d \in Dashboards : /\ FeatureBefore(d)' => Feature(d)
                              /\ Feature(d)' => Feature(d)
    BY <1>1, <2>1, ConstantsAssumption DEF FeatureBefore, Feature, Unrecorded
  <2>3. ASSUME NEW d \in Dashboards, Feature(d)
        PROVE  Marked(d)'
    <3>1. /\ shared' = shared /\ shared.status = "ok" /\ shared.store = imp.next
          /\ local' = OkFile(imp.next) /\ marker' = marker /\ marker
      BY <1>8 DEF PersistLocal, StoresGuarded, WorkInv, WorkInOrder, RecordsKept
    <3>2. FromFeature(imp.next[d])
      BY <1>3, <2>3
    <3> QED BY <3>1, <3>2 DEF Marked, OkFile
  <2> QED BY <1>3, <2>1, <2>2, <2>3 DEF StoresGuarded, Persisting
<1> QED BY <1>1, <1>6, <1>7, <1>8
    DEF PersistShared, PersistMarker, PersistLocal, PersistFails, PersistUnverified, AfterPersistFailure, StoresGuarded

(* HA users, developers and Export write no record, and a file is lost     *)
(* only if the other one is not.                                           *)
LEMMA OutsideKeepsStores ==
  ASSUME StoresGuarded, UNCHANGED <<imp, marker>>,
         \A d \in Dashboards : lineage'[d] = "feature" => lineage[d] = "feature",
         shared' = shared \/ (shared'.status # "ok" /\ Fault("lose_shared")),
         local' = local \/ (local'.status # "ok" /\ Fault("lose_local"))
  PROVE  StoresGuarded'
<1>1. \A d \in Dashboards : /\ FeatureBefore(d)' => FeatureBefore(d)
                            /\ Feature(d)' => Feature(d)
  BY DEF FeatureBefore, Feature, Unrecorded, Persisting
<1>2. \A d \in Dashboards : Marked(d) => Marked(d)'
  BY DEF Marked
<1> QED BY <1>1, <1>2 DEF StoresGuarded, Persisting

-----------------------------------------------------------------------------
(* Descents, and Export's run.                                             *)

(* The tip of main is a revision of main.                                  *)
LEMMA CommitOnBranch ==
  ASSUME TypeOK, head["main"] \in DOMAIN git, git[head["main"]].on = "main",
         NEW rev \in Revision, git' = Append(git, rev),
         \/ head'["main"] = head["main"]
         \/ head'["main"] = Len(git) + 1 /\ rev.on = "main"
  PROVE  git'[head'["main"]].on = "main"
<1>1. git \in Seq(Revision)
  BY DEF TypeOK
<1>2. /\ \A i \in DOMAIN git : git'[i] = git[i]
      /\ git'[Len(git) + 1] = rev
  BY <1>1, HistoryGrows
<1> QED BY <1>2

LEMMA StepKeepsLineage ==
  ASSUME Inductive, LineageOK, [Next]_vars
  PROVE  LineageOK'
<1>1. /\ head["main"] \in DOMAIN git /\ git[head["main"]].on = "main"
      /\ lineage \in [Dashboards -> {"canonical", "feature"}]
  BY DEF Inductive, TypeOK, LineageOK
<1>2. ASSUME UNCHANGED <<live, git, lineage>>, head'["main"] = head["main"]
      PROVE  LineageOK'
  BY <1>2 DEF LineageOK, MainContents
<1>3. ASSUME NEW descent \in [Dashboards -> {"canonical", "feature"}],
             Observe(live', git', descent), git'[head'["main"]].on = "main"
      PROVE  LineageOK'
  BY <1>3, ObservedLineage DEF Inductive, LineageOK
<1>4. ASSUME NEW d \in Dashboards, NEW value \in EditValues, HaEdit(d, value)
      PROVE  LineageOK'
  BY <1>1, <1>3, <1>4 DEF HaEdit
<1>5. ASSUME NEW branch \in {"main", "feature"}, NEW d \in Dashboards,
             NEW content \in Contents, GitCommit(branch, d, content)
      PROVE  LineageOK'
  <2> DEFINE rev == [git[head[branch]] EXCEPT !.tree[d] = content, !.on = branch]
  <2>1. rev \in Revision /\ rev.on = branch
    BY RevisionType DEF Inductive, TypeOK, Revision, Trees
  <2>2. git' = Append(git, rev) /\ Observe(live', git', lineage)
    BY <1>5 DEF GitCommit
  <2>3. \/ head'["main"] = head["main"]
        \/ head'["main"] = Len(git) + 1 /\ branch = "main"
    BY <1>5 DEF GitCommit, Inductive, TypeOK
  <2> HIDE DEF rev
  <2>4. git'[head'["main"]].on = "main"
    BY <1>1, <2>1, <2>2, <2>3, CommitOnBranch DEF Inductive
  <2> QED BY <1>1, <1>3, <2>2, <2>4
<1>6. CASE GitRebase
  BY <1>2, <1>6 DEF GitRebase, Inductive, TypeOK
<1>7. ASSUME NEW status \in {"missing", "invalid"}, LoseShared(status) \/ LoseLocal(status)
      PROVE  LineageOK'
  BY <1>2, <1>7 DEF LoseShared, LoseLocal
<1>8. CASE ImportStep
  <2>1. head' = head /\ git' = git
    BY <1>8 DEF ImportStep, Review, Apply, ApplyManaged, Reload, SkipDashboard,
       StartDashboard, LastReadRaises, CreateDashboard, CreateRaises, SaveDashboard, SaveRaises, Verify, VerifyMismatch,
       VerifyRaises, PersistShared, PersistMarker, PersistLocal, PersistFails,
       PersistUnverified, Restore, RestoreFails, ArmGuard, ArmFails, FinishApply,
       CrashImport, ImportOnly
  <2>2. CASE \E value, descent : SetLive(value, descent) /\ descent \in {"canonical", "feature"}
    <3>1. PICK value, descent : SetLive(value, descent) /\ descent \in {"canonical", "feature"}
      BY <2>2
    <3>2. [lineage EXCEPT ![imp.cur] = descent] \in [Dashboards -> {"canonical", "feature"}]
      BY <1>1, <3>1
    <3> QED BY <1>1, <1>3, <2>1, <3>1, <3>2 DEF SetLive
  <2>3. CASE UNCHANGED <<live, lineage>>
    BY <1>2, <2>1, <2>3
  <2>4. imp.descent \in {"canonical", "feature"} /\ SavedDescent \in {"canonical", "feature"}
    BY DEF Inductive, TypeOK, ImportRequests, SavedDescent
  <2>5. \/ UNCHANGED <<live, lineage>>
        \/ \E value, descent : SetLive(value, descent) /\ descent \in {"canonical", "feature"}
    <3>1. CASE CreateDashboard \/ CreateRaises \/ SaveDashboard \/ SaveRaises
               \/ Restore \/ RestoreFails
      BY <2>4, <3>1 DEF CreateDashboard, CreateRaises, SaveDashboard, SaveRaises,
         Restore, RestoreFails, Raises
    <3>2. CASE ~ (CreateDashboard \/ CreateRaises \/ SaveDashboard \/ SaveRaises
                    \/ Restore \/ RestoreFails)
      BY <1>8, <3>2 DEF ImportStep, Review, Apply, ApplyManaged, Reload, SkipDashboard,
         StartDashboard, LastReadRaises, Verify, VerifyMismatch, VerifyRaises, PersistShared, PersistMarker, PersistLocal,
         PersistFails, PersistUnverified, ArmGuard, ArmFails, FinishApply, CrashImport
    <3> QED BY <3>1, <3>2
  <2> QED BY <2>2, <2>3, <2>5
<1>9. CASE ExportPush
  <2> DEFINE rev == [tree |-> exp.tree, bases |-> exp.bases, on |-> "main"]
  <2>1. rev \in Revision /\ rev.on = "main"
    BY DEF Inductive, TypeOK, ExportRuns, Revision
  <2>2. git' = Append(git, rev) /\ Observe(live', git', lineage)
    BY <1>9 DEF ExportPush
  <2>3. head'["main"] = Len(git) + 1
    BY <1>9 DEF ExportPush, Inductive, TypeOK
  <2> HIDE DEF rev
  <2>4. git'[head'["main"]].on = "main"
    BY <1>1, <2>1, <2>2, <2>3, CommitOnBranch DEF Inductive
  <2> QED BY <1>1, <1>3, <2>2, <2>4
<1>10. CASE ExportCollect \/ ExportClone \/ ExportPublish \/ ExportEnds \/ ExportFails
  BY <1>2, <1>10 DEF ExportCollect, ExportClone, ExportPublish, ExportEnds, ExportFails
<1>11. CASE UNCHANGED vars
  BY <1>2, <1>11 DEF vars
<1> QED BY <1>4, <1>5, <1>6, <1>7, <1>8, <1>9, <1>10, <1>11
    DEF Next, Environment, ExportStep

LEMMA StepKeepsStores ==
  ASSUME Accountable, Inductive, WorkInv, FeatureGuarded, [Next]_vars
  PROVE  StoresGuarded'
<1>1. LineageOK /\ StoresGuarded /\ lineage \in [Dashboards -> {"canonical", "feature"}]
  BY DEF FeatureGuarded, Inductive, TypeOK
<1>2. CASE ImportStep
  BY <1>1, <1>2, StartKeepsStores, ManagedKeepsStores, ReloadKeepsStores, SelectKeepsStores, CallsKeepStores,
     VerifyKeepsStores, PersistKeepsStores, EndKeepsStores
  DEF ImportStep
<1>3. CASE Environment
  <2>1. UNCHANGED <<imp, marker>>
    BY <1>3 DEF Environment, HaEdit, GitCommit, GitRebase, LoseShared, LoseLocal, files
  <2>2. lineage' = lineage \/ Observe(live', git', lineage)
    BY <1>3 DEF Environment, HaEdit, GitCommit, GitRebase, LoseShared, LoseLocal
  <2>3. \A d \in Dashboards : lineage'[d] = "feature" => lineage[d] = "feature"
    BY <1>1, <2>2, ObservedLineage DEF Inductive
  <2>4. /\ shared' = shared \/ (shared'.status # "ok" /\ Fault("lose_shared"))
        /\ local' = local \/ (local'.status # "ok" /\ Fault("lose_local"))
    BY <1>3 DEF Environment, HaEdit, GitCommit, GitRebase, LoseShared, LoseLocal,
       MissingFile, files
  <2> QED BY <1>1, <2>1, <2>3, <2>4, OutsideKeepsStores
<1>4. CASE ExportStep
  <2>1. UNCHANGED <<imp, marker, shared, local>>
    BY <1>4 DEF ExportStep, ExportCollect, ExportClone, ExportPublish, ExportPush,
       ExportEnds, ExportFails, files
  <2>2. lineage' = lineage \/ Observe(live', git', lineage)
    BY <1>4 DEF ExportStep, ExportCollect, ExportClone, ExportPublish, ExportPush,
       ExportEnds, ExportFails
  <2>3. \A d \in Dashboards : lineage'[d] = "feature" => lineage[d] = "feature"
    BY <1>1, <2>2, ObservedLineage DEF Inductive
  <2> QED BY <1>1, <2>1, <2>3, OutsideKeepsStores
<1>5. CASE UNCHANGED vars
  BY <1>1, <1>5, OutsideKeepsStores DEF vars, files
<1> QED BY <1>2, <1>3, <1>4, <1>5 DEF Next

(* While Export runs Import does not, and the other way round.             *)
LEMMA ImportKeepsRun ==
  ASSUME Accountable, RunGuarded, ImportStep
  PROVE  RunGuarded'
<1>1. exp.pc = "idle"
  <2>1. CASE imp.pc # "idle"
    BY <2>1 DEF RunGuarded
  <2>2. CASE imp.pc = "idle"
    <3>1. \/ \E ref \in Refs, pinned \in BOOLEAN : \E sha \in RevisionsOf(ref, pinned) :
               Review(ref, sha, pinned)
          \/ \E selected \in SUBSET Dashboards : Apply(selected)
          \/ ApplyManaged
      BY <2>2 DEF ImportStep, Reload, SkipDashboard, StartDashboard, LastReadRaises, CreateDashboard,
         CreateRaises, SaveDashboard, SaveRaises, Verify, VerifyMismatch, VerifyRaises,
         PersistShared, PersistMarker, PersistLocal, PersistFails, PersistUnverified,
         Restore, RestoreFails, ArmGuard, ArmFails, FinishApply, CrashImport
    <3> QED BY <3>1 DEF Review, Apply, ApplyManaged, MayStart, Accountable
  <2> QED BY <2>1, <2>2
<1>2. exp' = exp
  BY ImportStepLive
<1> QED BY <1>1, <1>2 DEF RunGuarded

LEMMA OutsideKeepsRun ==
  ASSUME Inductive, RunGuarded, GitGrows, UNCHANGED <<imp, exp>>, marker => marker',
         shared' = shared \/ shared'.status # "ok"
  PROVE  RunGuarded'
<1>1. git'[exp.clone] = git[exp.clone]
  BY ReplaceableGrows DEF Inductive, TypeOK, ExportRuns
<1> QED BY <1>1 DEF RunGuarded

(* A run that saw a dashboard from a feature takes its file from main.     *)
LEMMA ExportKeepsRun ==
  ASSUME Accountable, Inductive, WorkInv, FeatureGuarded, ExportStep
  PROVE  RunGuarded'
<1>1. /\ UNCHANGED <<imp, marker, shared>> /\ exp \in ExportRuns
      /\ lineage \in [Dashboards -> {"canonical", "feature"}]
  BY DEF ExportStep, ExportCollect, ExportClone, ExportPublish, ExportPush,
     ExportEnds, ExportFails, files, Inductive, TypeOK
<1>2. CASE ExportCollect
  <2>1. /\ imp.pc = "idle" /\ imp.cur = NoDashboard
        /\ exp'.pc = "clone" /\ exp'.descent = lineage
    BY <1>2 DEF ExportCollect, MayStart, Accountable, IdleExport, WorkInv, WorkInOrder,
       Positioned, BetweenDashboards
  <2>2. \A d \in Dashboards : lineage[d] = "feature" => FeatureBefore(d)
    BY <2>1, ConstantsAssumption DEF FeatureBefore, Unrecorded
  <2>3. \A d \in Dashboards : lineage[d] = "feature" =>
          marker /\ (shared.status = "ok" => FromFeature(shared.store[d]))
    BY <2>2 DEF FeatureGuarded, StoresGuarded, Marked
  <2> QED BY <1>1, <2>1, <2>3 DEF RunGuarded
<1>3. CASE ExportClone
  <2>1. exp.pc = "clone" /\ exp'.pc = "publish" /\ exp'.descent = exp.descent
    BY <1>1, <1>3 DEF ExportClone, ExportRuns
  <2> QED BY <1>1, <2>1 DEF FeatureGuarded, RunGuarded
<1>4. CASE ExportPublish
  <2>1. /\ exp.pc = "publish" /\ exp'.pc = "push" /\ exp'.descent = exp.descent
        /\ exp'.clone = exp.clone /\ git' = git
        /\ exp'.tree = [d \in Dashboards |-> IF WritesFile(ActionFor(d))
                          THEN exp.snap[d] ELSE git[exp.clone].tree[d]]
    BY <1>1, <1>4 DEF ExportPublish, ExportRuns
  <2>2. ASSUME NEW d \in Dashboards, exp.descent[d] = "feature"
        PROVE  ~ WritesFile(ActionFor(d))
    <3>1. marker /\ (shared.status = "ok" => FromFeature(shared.store[d]))
      BY <2>1, <2>2 DEF FeatureGuarded, RunGuarded
    <3>2. ~ SyncAllowed(d, shared, marker, cache, cacheMarker)
      <4>1. CASE shared.status = "ok"
        BY <3>1, <4>1 DEF SyncAllowed, GuardState, FromFeature
      <4>2. CASE shared.status # "ok"
        BY <3>1, <4>2 DEF SyncAllowed, GuardState, Initialized
      <4> QED BY <4>1, <4>2
    <3>3. ActionFor(d) = "SKIPPED"
      BY <3>2 DEF ActionFor, SyncAction
    <3> QED BY <3>3 DEF WritesFile
  <2>3. \A d \in Dashboards : exp.descent[d] = "feature" =>
          exp'.tree[d] = git'[exp'.clone].tree[d]
    BY <2>1, <2>2
  <2> QED BY <1>1, <2>1, <2>3 DEF FeatureGuarded, RunGuarded
<1>5. CASE ExportPush \/ ExportEnds \/ ExportFails
  <2>1. exp'.pc = "idle"
    BY <1>5 DEF ExportPush, ExportEnds, ExportFails, IdleExport
  <2> QED BY <2>1 DEF RunGuarded
<1> QED BY <1>2, <1>3, <1>4, <1>5 DEF ExportStep

LEMMA StepKeepsRun ==
  ASSUME Accountable, Inductive, WorkInv, FeatureGuarded, [Next]_vars
  PROVE  RunGuarded'
<1>1. CASE Environment
  <2>1. GitGrows
    <3>1. ASSUME NEW branch \in {"main", "feature"}, NEW d \in Dashboards,
                 NEW content \in Contents, GitCommit(branch, d, content)
          PROVE  GitGrows
      <4>1. [git[head[branch]] EXCEPT !.tree[d] = content, !.on = branch] \in Revision
        BY RevisionType DEF Inductive, TypeOK, Revision, Trees
      <4> QED BY <3>1, <4>1 DEF GitCommit, GitGrows
    <3> QED BY <1>1, <3>1 DEF Environment, HaEdit, GitRebase, LoseShared, LoseLocal, GitGrows
  <2>2. /\ UNCHANGED <<imp, exp, marker>> /\ (shared' = shared \/ shared'.status # "ok")
    BY <1>1 DEF Environment, HaEdit, GitCommit, GitRebase, LoseShared, LoseLocal,
       MissingFile, files
  <2> QED BY <2>1, <2>2, OutsideKeepsRun DEF FeatureGuarded
<1>2. CASE ImportStep
  BY <1>2, ImportKeepsRun DEF FeatureGuarded
<1>3. CASE ExportStep
  BY <1>3, ExportKeepsRun
<1>4. CASE UNCHANGED vars
  BY <1>4, OutsideKeepsRun DEF vars, files, GitGrows, FeatureGuarded
<1> QED BY <1>1, <1>2, <1>3, <1>4 DEF Next

LEMMA InitGuarded ==
  ASSUME Init
  PROVE  FeatureGuarded
<1>1. /\ imp.pc = "idle" /\ imp.cur = NoDashboard /\ exp.pc = "idle"
      /\ \A d \in Dashboards : imp.plan[d].status = "SAME" /\ lineage[d] = "canonical"
  BY DEF Init, IdleImport, IdleExport
<1>2. git[head["main"]].on = "main"
  BY DEF Init, InitialRevision
<1>3. LineageOK
  BY <1>1, <1>2 DEF LineageOK
<1>4. StoresGuarded
  BY <1>1, ConstantsAssumption
  DEF StoresGuarded, FeatureBefore, Persisting, APPLYABLE_STATUSES
<1>5. RunGuarded
  BY <1>1 DEF RunGuarded
<1> QED BY <1>3, <1>4, <1>5 DEF FeatureGuarded

(* Whatever descends from a feature is marked so in every file Import or   *)
(* Export may look at, and Export's run takes the file of such a dashboard *)
(* from main: given that the two take turns, that HA answers what it did,  *)
(* that Import is not stopped between a save and its record, and that one  *)
(* of the two provenance files is there.                                   *)
THEOREM FeaturesAreGuarded ==
  ASSUME Accountable
  PROVE  Spec => []FeatureGuarded
<1>1. Init => FeatureGuarded
  BY InitGuarded
<1>2. Inductive /\ WorkInv /\ FeatureGuarded /\ [Next]_vars => FeatureGuarded'
  BY StepKeepsLineage, StepKeepsStores, StepKeepsRun DEF FeatureGuarded
<1>3. Inductive /\ WorkInOrder /\ AppliedIsRecorded => Inductive /\ WorkInv
  BY DEF WorkInv
<1> QED BY <1>1, <1>2, <1>3, ApplyWorksInOrder, PTL DEF Spec

LEMMA StepPublishesCanonical ==
  ASSUME Inductive, FeatureGuarded, [Next]_vars, NEW d \in Dashboards, Publishes(d)
  PROVE  exp.descent[d] = "canonical"
<1>1. exp \in ExportRuns /\ git \in Seq(Revision) /\ git' # git /\ exp' # exp
  BY DEF Publishes, Inductive, TypeOK
<1>2. ExportPush
  <2>1. ~ Environment
    BY <1>1 DEF Environment, HaEdit, GitCommit, GitRebase, LoseShared, LoseLocal
  <2>2. ~ ImportStep
    BY <1>1, ImportStepLive
  <2>3. ~ UNCHANGED vars
    BY <1>1 DEF vars
  <2> QED BY <1>1, <2>1, <2>2, <2>3 DEF Next, ExportStep, ExportCollect, ExportClone,
          ExportPublish, ExportEnds, ExportFails
<1>3. /\ head["main"] = exp.clone
      /\ git' = Append(git, [tree |-> exp.tree, bases |-> exp.bases, on |-> "main"])
  BY <1>2 DEF ExportPush
<1>4. git'[Len(git')].tree = exp.tree /\ Main = git[exp.clone]
  BY <1>1, <1>3 DEF Main
<1>5. exp.tree[d] # git[exp.clone].tree[d] /\ exp.pc = "push"
  BY <1>4 DEF Publishes
<1>6. exp.descent[d] # "feature"
  BY <1>5 DEF FeatureGuarded, RunGuarded
<1> QED BY <1>1, <1>6 DEF ExportRuns

(* Export never pushes to main a LIVE dashboard that descends from a       *)
(* feature deployment.                                                     *)
THEOREM NoFeatureReachesMain ==
  ASSUME Accountable
  PROVE  Spec => NoFeatureExport
<1>1. Inductive /\ FeatureGuarded /\ [Next]_vars =>
        [\A d \in Dashboards : Publishes(d) => exp.descent[d] = "canonical"]_vars
  BY StepPublishesCanonical
<1> QED BY <1>1, FeaturesAreGuarded, InductiveInvariance, PTL DEF Spec, NoFeatureExport
=============================================================================
