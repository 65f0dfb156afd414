------------------------- MODULE DashboardSyncProofs ------------------------
(***************************************************************************)
(* Theorems about DashboardSync, for every set of dashboards and contents, *)
(* every bound and every combination of failures.                          *)
(***************************************************************************)
EXTENDS DashboardSync, TLAPS

(* Git history only grows, and a revision never changes.                   *)
LEMMA HistoryGrows ==
  ASSUME NEW history \in Seq(Revision), NEW rev \in Revision
  PROVE  LET longer == Append(history, rev) IN
         /\ longer \in Seq(Revision)
         /\ DOMAIN history \subseteq DOMAIN longer
         /\ \A i \in DOMAIN history : longer[i] = history[i]
         /\ DOMAIN longer = DOMAIN history \cup {Len(history) + 1}
         /\ longer[Len(history) + 1] = rev
<1> SUFFICES LET longer == Append(history, rev) IN
             /\ longer \in Seq(Revision)
             /\ DOMAIN history = 1..Len(history)
             /\ DOMAIN longer = 1..(Len(history) + 1)
             /\ \A i \in DOMAIN history : longer[i] = history[i]
             /\ longer[Len(history) + 1] = rev
             /\ Len(history) \in Nat
  BY SMT
<1> QED BY SMT DEF Revision

LEMMA RevisionType ==
  ASSUME TypeOK, NEW sha \in DOMAIN git
  PROVE  /\ git[sha] \in Revision
         /\ git[sha].tree \in Trees /\ git[sha].bases \in Bases
<1>1. git \in Seq(Revision)
  BY DEF TypeOK
<1>2. git[sha] \in Revision
  BY <1>1, SMT
<1> QED BY <1>2 DEF Revision

(* Every status has a name, and only a dashboard Git has a file for can be *)
(* applied.                                                                *)
LEMMA StatusType ==
  ASSUME NEW d \in Dashboards, NEW ref, NEW sha \in DOMAIN git, NEW store, TypeOK
  PROVE  /\ Status(d, ref, sha, store) \in Statuses
         /\ Status(d, ref, sha, store) \in APPLYABLE_STATUSES =>
              git[sha].tree[d] \in Contents
<1>1. git[sha].tree[d] \in Contents \cup {NoFile}
  BY RevisionType DEF Trees
<1> DEFINE github == git[sha].tree[d]
           current == Reading(live[d])
           entry == store[d]
<1>2. \A base : classify(github, current, base) \in Statuses
  BY DEF classify, Statuses, APPLYABLE_STATUSES
<1>3. classify_with_provenance(github, current, git[sha].bases[d],
        IsCanonicalSource(ref), entry) \in Statuses
  BY <1>2 DEF classify_with_provenance, Statuses
<1>4. classify_missing_ha(d \in Creatable, live[d] # Unregistered) \in Statuses
  BY DEF classify_missing_ha, Statuses, APPLYABLE_STATUSES
<1>5. CASE github = NoFile
  BY <1>5 DEF Status, Statuses, APPLYABLE_STATUSES
<1>6. CASE github # NoFile
  BY <1>1, <1>3, <1>4, <1>6 DEF Status, Statuses
<1> QED BY <1>5, <1>6

-----------------------------------------------------------------------------
(* Type correctness.                                                       *)

TypeInv == TypeOK /\ RequestOK

LEMMA TypesGrow ==
  ASSUME TypeOK, NEW rev \in Revision, git' = Append(git, rev)
  PROVE  /\ git' \in Seq(Revision)
         /\ DOMAIN git \subseteq DOMAIN git' /\ Len(git) + 1 \in DOMAIN git'
         /\ \A i \in DOMAIN git : git'[i] = git[i]
         /\ ImportRequests \subseteq ImportRequests'
         /\ ExportRuns \subseteq ExportRuns'
         /\ Forms \subseteq Forms'
<1>1. git \in Seq(Revision)
  BY DEF TypeOK
<1>2. /\ git' \in Seq(Revision)
      /\ DOMAIN git \subseteq DOMAIN git' /\ Len(git) + 1 \in DOMAIN git'
      /\ \A i \in DOMAIN git : git'[i] = git[i]
  BY <1>1, HistoryGrows
<1>3. ImportRequests \subseteq ImportRequests'
  BY <1>2 DEF ImportRequests
<1>4. ExportRuns \subseteq ExportRuns'
  BY <1>2 DEF ExportRuns
<1>5. Forms \subseteq Forms'
  BY <1>2 DEF Forms
<1> QED BY <1>2, <1>3, <1>4, <1>5

LEMMA ObserveType ==
  ASSUME TypeOK, NEW descent \in [Dashboards -> {"canonical", "feature"}],
         NEW live2, NEW git2, Observe(live2, git2, descent)
  PROVE  /\ lineage' \in [Dashboards -> {"canonical", "feature"}]
         /\ seen' \in [Dashboards -> SUBSET Contents]
         /\ \A d \in Dashboards : seen[d] \subseteq seen'[d]
         /\ \A d \in Dashboards : {live2[d]} \cap Contents \subseteq seen'[d]
BY DEF TypeOK, Observe

LEMMA HaEditType ==
  ASSUME TypeInv, NEW d \in Dashboards, NEW value \in EditValues, HaEdit(d, value)
  PROVE  TypeInv'
<1>1. live' \in [Dashboards -> LiveValues]
  BY ConstantsAssumption DEF TypeInv, TypeOK, HaEdit, LiveValues
<1>2. /\ lineage' \in [Dashboards -> {"canonical", "feature"}]
      /\ seen' \in [Dashboards -> SUBSET Contents]
  BY ObserveType DEF TypeInv, TypeOK, HaEdit
<1>3. edits' \in 0..MaxEdits
  BY ConstantsAssumption DEF TypeInv, TypeOK, HaEdit
<1>4. TypeOK'
  BY <1>1, <1>2, <1>3 DEF TypeInv, TypeOK, HaEdit, files, ImportRequests, ExportRuns, Forms
<1>5. RequestOK'
  BY DEF TypeInv, RequestOK, HaEdit, Desired
<1> QED BY <1>4, <1>5 DEF TypeInv

LEMMA GitCommitType ==
  ASSUME TypeInv, NEW branch \in {"main", "feature"}, NEW d \in Dashboards,
         NEW content \in Contents, GitCommit(branch, d, content)
  PROVE  TypeInv'
<1> DEFINE rev == [git[head[branch]] EXCEPT !.tree[d] = content, !.on = branch]
<1>1. head[branch] \in DOMAIN git
  BY DEF TypeInv, TypeOK
<1>2. rev \in Revision
  BY <1>1, RevisionType DEF TypeInv, Revision, Trees
<1>3. git' = Append(git, rev)
  BY DEF GitCommit
<1> HIDE DEF rev
<1>4. /\ git' \in Seq(Revision)
      /\ DOMAIN git \subseteq DOMAIN git' /\ Len(git) + 1 \in DOMAIN git'
      /\ \A i \in DOMAIN git : git'[i] = git[i]
      /\ ImportRequests \subseteq ImportRequests'
      /\ ExportRuns \subseteq ExportRuns'
      /\ Forms \subseteq Forms'
  BY <1>2, <1>3, TypesGrow DEF TypeInv
<1>5. head' \in [{"main", "feature"} -> DOMAIN git']
  BY <1>4 DEF TypeInv, TypeOK, GitCommit
<1>6. /\ lineage' \in [Dashboards -> {"canonical", "feature"}]
      /\ seen' \in [Dashboards -> SUBSET Contents]
  BY ObserveType DEF TypeInv, TypeOK, GitCommit
<1>7. commits' \in 0..MaxCommits
  BY ConstantsAssumption DEF TypeInv, TypeOK, GitCommit
<1>8. TypeOK'
  BY <1>4, <1>5, <1>6, <1>7 DEF TypeInv, TypeOK, GitCommit, files
<1>9. imp.sha \in DOMAIN git
  BY DEF TypeInv, TypeOK, ImportRequests
<1>10. RequestOK'
  BY <1>4, <1>9 DEF TypeInv, RequestOK, GitCommit, Desired
<1> QED BY <1>8, <1>10 DEF TypeInv

LEMMA OutsideType ==
  ASSUME TypeInv,
         \/ GitRebase
         \/ \E status \in {"missing", "invalid"} : LoseShared(status) \/ LoseLocal(status)
  PROVE  TypeInv'
<1>1. CASE GitRebase
  <2>1. head' \in [{"main", "feature"} -> DOMAIN git']
    BY <1>1 DEF TypeInv, TypeOK, GitRebase
  <2>2. TypeOK'
    BY <1>1, <2>1 DEF TypeInv, TypeOK, GitRebase, files, bounds, ImportRequests, ExportRuns, Forms
  <2> QED BY <1>1, <2>2 DEF TypeInv, RequestOK, GitRebase, Desired
<1>2. ASSUME NEW status \in {"missing", "invalid"}, LoseShared(status) PROVE TypeInv'
  <2>1. shared' \in Files
    BY <1>2 DEF LoseShared, MissingFile, Files, EmptyStore, Stores
  <2>2. TypeOK'
    BY <1>2, <2>1 DEF TypeInv, TypeOK, LoseShared, bounds, ImportRequests, ExportRuns, Forms
  <2> QED BY <1>2, <2>2 DEF TypeInv, RequestOK, LoseShared, Desired
<1>3. ASSUME NEW status \in {"missing", "invalid"}, LoseLocal(status) PROVE TypeInv'
  <2>1. local' \in Files
    BY <1>3 DEF LoseLocal, MissingFile, Files, EmptyStore, Stores
  <2>2. TypeOK'
    BY <1>3, <2>1 DEF TypeInv, TypeOK, LoseLocal, bounds, ImportRequests, ExportRuns, Forms
  <2> QED BY <1>3, <2>2 DEF TypeInv, RequestOK, LoseLocal, Desired
<1> QED BY <1>1, <1>2, <1>3

LEMMA IdleType ==
  ASSUME TypeOK
  PROVE  IdleImport \in ImportRequests /\ IdleExport \in ExportRuns
<1>1. 1 \in DOMAIN git
  <2>1. git \in Seq(Revision) /\ head["main"] \in DOMAIN git
    BY DEF TypeOK
  <2> QED BY <2>1, SMT
<1>2. IdleImport \in ImportRequests
  BY <1>1 DEF IdleImport, ImportRequests, ImportPC, Refs, EmptyStore, Stores, Statuses, Readings
<1>3. IdleExport \in ExportRuns
  BY <1>1 DEF IdleExport, ExportRuns, Readings, Trees, Bases
<1> QED BY <1>2, <1>3

LEMMA StoreTypes ==
  ASSUME TypeOK
  PROVE  /\ LoadImportStore(local, shared) \in Stores
         /\ \A ref, sha : AdoptCanonical(LoadImportStore(local, shared),
              Adoptable(ref, sha, LoadImportStore(local, shared)), live) \in Stores
         /\ HealShared => shared' \in Files /\ marker' \in BOOLEAN
<1>1. LoadImportStore(local, shared) \in Stores
  BY DEF TypeOK, LoadImportStore, Files
<1>2. ASSUME NEW ref, NEW sha
      PROVE  AdoptCanonical(LoadImportStore(local, shared),
               Adoptable(ref, sha, LoadImportStore(local, shared)), live) \in Stores
  BY <1>1 DEF AdoptCanonical, Adoptable, Stores, Entry, Refs
<1>3. HealShared => shared' \in Files /\ marker' \in BOOLEAN
  BY DEF TypeOK, HealShared
<1> QED BY <1>1, <1>2, <1>3

(* collect_changes changes a request in nothing but its store and where it *)
(* goes on.                                                                *)
LEMMA CollectType ==
  ASSUME TypeOK, NEW request \in ImportRequests, CollectChanges(request)
  PROVE  /\ imp' \in ImportRequests
         /\ imp'.todo = request.todo /\ imp'.cur = request.cur
         /\ imp'.after = request.after
         /\ imp'.pc \in {request.pc, "p_shared"}
         /\ shared' \in Files /\ marker' \in BOOLEAN
BY StoreTypes DEF CollectChanges, ImportRequests, ImportPC

LEMMA RevisionsOfType ==
  ASSUME TypeOK, NEW ref \in Refs, NEW pinned \in BOOLEAN
  PROVE  RevisionsOf(ref, pinned) \subseteq DOMAIN git
BY DEF TypeOK, Refs, RevisionsOf, MainRevisions

LEMMA ReviewFormType ==
  ASSUME TypeOK, NEW ref \in Refs, NEW sha \in DOMAIN git, NEW pinned \in BOOLEAN
  PROVE  ReviewForm(ref, sha, pinned) \in Forms
<1> DEFINE plan == Plan(ref, sha, LoadImportStore(local, shared))
           ready == {d \in Dashboards : plan[d].status \in APPLYABLE_STATUSES}
<1>1. \A d \in Dashboards : plan[d].current \in Readings
  BY DEF Plan, Reading, Readings
<1>2. \A d \in ready : git[sha].tree[d] \in Contents
  BY StatusType DEF Plan
<1>3. [d \in ready |-> plan[d].current] \in [ready -> Readings]
  BY <1>1
<1>4. [d \in ready |-> git[sha].tree[d]] \in [ready -> Contents]
  BY <1>2
<1>5. ready \in SUBSET Dashboards
  OBVIOUS
<1>6. ReviewForm(ref, sha, pinned) =
        [ref |-> ref, sha |-> sha, pinned |-> pinned, ready |-> ready,
         preview |-> [d \in ready |-> plan[d].current],
         desired |-> [d \in ready |-> git[sha].tree[d]]]
  BY DEF ReviewForm
<1> HIDE DEF ready, plan
<1> QED BY <1>3, <1>4, <1>5, <1>6 DEF Forms

LEMMA ReviewType ==
  ASSUME TypeInv, NEW ref \in Refs, NEW pinned \in BOOLEAN,
         NEW sha \in RevisionsOf(ref, pinned), Review(ref, sha, pinned)
  PROVE  TypeInv'
<1> DEFINE request == [IdleImport EXCEPT !.ref = ref, !.sha = sha]
<1>1. sha \in DOMAIN git
  BY RevisionsOfType DEF TypeInv
<1>2. /\ request \in ImportRequests
      /\ request.todo = {} /\ request.cur = NoDashboard
      /\ request.after = "review" /\ request.pc = "idle"
  BY <1>1, IdleType DEF TypeInv, ImportRequests, IdleImport
<1>3. CollectChanges(request)
  BY DEF Review
<1> HIDE DEF request
<1>4. /\ imp' \in ImportRequests
      /\ imp'.todo = {} /\ imp'.cur = NoDashboard
      /\ imp'.after = "review" /\ imp'.pc \in {"idle", "p_shared"}
      /\ shared' \in Files /\ marker' \in BOOLEAN
  BY <1>2, <1>3, CollectType DEF TypeInv
<1>5. form' \in Forms
  BY <1>1, ReviewFormType DEF TypeInv, Review
<1>6. TypeOK'
  BY <1>4, <1>5 DEF TypeInv, TypeOK, Review, bounds, ImportRequests, ExportRuns, Forms
<1>7. RequestOK'
  BY <1>4 DEF RequestOK
<1> QED BY <1>6, <1>7 DEF TypeInv

LEMMA PlanType ==
  ASSUME TypeOK, NEW ref, NEW sha \in DOMAIN git, NEW store
  PROVE  Plan(ref, sha, store) \in
           [Dashboards -> [status : Statuses, current : Readings]]
BY StatusType DEF Plan, Reading, Readings

LEMMA ApplyType ==
  ASSUME TypeInv, NEW selected \in SUBSET Dashboards, Apply(selected)
  PROVE  TypeInv'
<1>1. /\ form # NoForm /\ form.ref \in Refs /\ form.sha \in DOMAIN git
      /\ selected \subseteq form.ready
  BY DEF TypeInv, TypeOK, Forms, Apply
<1> DEFINE store == LoadImportStore(local, shared)
           request == [IdleImport EXCEPT !.pc = "reload", !.after = "apply",
             !.ref = form.ref, !.sha = form.sha, !.todo = selected,
             !.plan = Plan(form.ref, form.sha, store)]
<1>2. Plan(form.ref, form.sha, store) \in
        [Dashboards -> [status : Statuses, current : Readings]]
  BY <1>1, PlanType DEF TypeInv
<1>3. /\ request \in ImportRequests
      /\ request.todo = selected /\ request.cur = NoDashboard
      /\ request.after = "apply" /\ request.pc = "reload"
  BY <1>1, <1>2, IdleType DEF TypeInv, ImportRequests, ImportPC, IdleImport
<1>4. CollectChanges(request)
  BY DEF Apply
<1> HIDE DEF request
<1>5. /\ imp' \in ImportRequests
      /\ imp'.todo = selected /\ imp'.cur = NoDashboard
      /\ imp'.after = "apply" /\ imp'.pc \in {"reload", "p_shared"}
      /\ shared' \in Files /\ marker' \in BOOLEAN
  BY <1>3, <1>4, CollectType DEF TypeInv
<1>6. TypeOK'
  BY <1>5 DEF TypeInv, TypeOK, Apply, bounds, ImportRequests, ExportRuns, Forms
<1>7. RequestOK'
  BY <1>1, <1>5 DEF RequestOK, Apply
<1> QED BY <1>6, <1>7 DEF TypeInv

LEMMA ApplyManagedType ==
  ASSUME TypeInv, ApplyManaged
  PROVE  TypeInv'
<1>1. shared' \in Files /\ marker' \in BOOLEAN
  BY StoreTypes DEF TypeInv, ApplyManaged
<1>2. /\ imp' \in ImportRequests
      /\ imp'.todo = {} /\ imp'.cur = NoDashboard
      /\ imp'.after = "managed" /\ imp'.pc = "p_shared"
  BY StoreTypes, IdleType
     DEF TypeInv, TypeOK, ApplyManaged, ImportRequests, ImportPC, IdleImport
<1>3. TypeOK'
  BY <1>1, <1>2 DEF TypeInv, TypeOK, ApplyManaged, bounds, ImportRequests, ExportRuns, Forms
<1>4. RequestOK'
  BY <1>2 DEF RequestOK
<1> QED BY <1>3, <1>4 DEF TypeInv

LEMMA ReloadType ==
  ASSUME TypeInv, Reload
  PROVE  TypeInv'
<1>1. shared' \in Files /\ marker' \in BOOLEAN
  BY StoreTypes DEF TypeInv, Reload
<1>2. imp' \in ImportRequests
  BY StoreTypes DEF TypeInv, TypeOK, Reload, ImportRequests, ImportPC
<1>3. TypeOK'
  BY <1>1, <1>2 DEF TypeInv, TypeOK, Reload, bounds, ImportRequests, ExportRuns, Forms
<1>4. RequestOK'
  BY <1>2 DEF TypeInv, TypeOK, RequestOK, Reload, Desired, ImportRequests
<1> QED BY <1>3, <1>4 DEF TypeInv

(* Steps of the loop leave the type of everything but the request, LIVE    *)
(* and the history alone.                                                  *)
LEMMA LoopStepType ==
  ASSUME TypeOK, ImportOnly, imp' \in ImportRequests,
         \/ UNCHANGED <<live, lineage, seen>>
         \/ \E value \in LiveValues, descent \in {"canonical", "feature"} :
              imp.cur \in Dashboards /\ SetLive(value, descent)
  PROVE  TypeOK' /\ UNCHANGED <<git, form>>
<1>1. CASE UNCHANGED <<live, lineage, seen>>
  BY <1>1 DEF TypeOK, ImportOnly, files, bounds, ImportRequests, ExportRuns, Forms
<1>2. ASSUME NEW value \in LiveValues, NEW descent \in {"canonical", "feature"},
             imp.cur \in Dashboards, SetLive(value, descent)
      PROVE  TypeOK'
  <2>1. live' \in [Dashboards -> LiveValues]
    BY <1>2 DEF TypeOK, SetLive
  <2>2. [lineage EXCEPT ![imp.cur] = descent] \in [Dashboards -> {"canonical", "feature"}]
    BY <1>2 DEF TypeOK
  <2>3. /\ lineage' \in [Dashboards -> {"canonical", "feature"}]
        /\ seen' \in [Dashboards -> SUBSET Contents]
    BY <1>2, <2>2, ObserveType DEF SetLive
  <2> QED BY <2>1, <2>3 DEF TypeOK, ImportOnly, files, bounds, ImportRequests, ExportRuns, Forms
<1> QED BY <1>1, <1>2 DEF ImportOnly

LEMMA SettledType ==
  ASSUME TypeInv
  PROVE  /\ Settled(imp) \in ImportRequests
         /\ Settled(imp).pc = "loop" /\ Settled(imp).cur = NoDashboard
         /\ Settled(imp).todo \subseteq imp.todo
BY DEF TypeInv, TypeOK, Settled, ImportRequests, ImportPC

LEMMA SelectType ==
  ASSUME TypeInv, NEW d \in Dashboards, SkipDashboard(d) \/ StartDashboard(d)
  PROVE  TypeInv'
<1>1. CASE SkipDashboard(d)
  <2>1. imp' \in ImportRequests
    BY <1>1 DEF TypeInv, TypeOK, SkipDashboard, ImportRequests
  <2>2. TypeOK' /\ UNCHANGED <<git, form>>
    BY <1>1, <2>1, LoopStepType DEF TypeInv, SkipDashboard
  <2>3. RequestOK'
    BY <1>1, <2>1, <2>2 DEF TypeInv, TypeOK, RequestOK, SkipDashboard, Desired, ImportRequests
  <2> QED BY <2>2, <2>3 DEF TypeInv
<1>2. CASE StartDashboard(d)
  <2>1. imp' \in ImportRequests
    BY <1>2 DEF TypeInv, TypeOK, StartDashboard, ImportRequests, ImportPC
  <2>2. TypeOK' /\ UNCHANGED <<git, form>>
    BY <1>2, <2>1, LoopStepType DEF TypeInv, StartDashboard
  <2>3. form # NoForm /\ d \in form.ready
    BY <1>2 DEF TypeInv, RequestOK, StartDashboard
  <2>4. Desired(d) \in Contents
    BY <1>2, <2>3 DEF TypeInv, TypeOK, Forms, StartDashboard, PassesChecks, AsReviewed
  <2>5. imp'.cur = d /\ imp'.todo = imp.todo /\ imp'.sha = imp.sha
    BY <1>2 DEF TypeInv, TypeOK, StartDashboard, ImportRequests
  <2>6. RequestOK'
    BY <1>2, <2>2, <2>3, <2>4, <2>5, ConstantsAssumption DEF TypeInv, RequestOK, StartDashboard, Desired
  <2> QED BY <2>2, <2>6 DEF TypeInv
<1> QED BY <1>1, <1>2

(* A step that works on the current dashboard, or is done with it.         *)
LEMMA RequestStepOK ==
  ASSUME TypeInv, UNCHANGED <<git, form>>,
         imp'.todo \subseteq imp.todo,
         \/ imp'.cur = imp.cur /\ imp'.sha = imp.sha /\ imp.cur # NoDashboard
         \/ imp'.cur = NoDashboard /\ imp'.pc \in {"idle", "loop", "reload"}
  PROVE  RequestOK'
BY DEF TypeInv, RequestOK, Desired

LEMMA CurrentOK ==
  ASSUME TypeInv,
         \/ imp.pc \in {"create", "save", "verify", "discard", "undo", "rollback", "arm"}
         \/ imp.pc \in {"p_shared", "p_marker", "p_local"} /\ imp.after = "dashboard"
  PROVE  /\ imp.cur # NoDashboard /\ imp.cur \in Dashboards
         /\ form # NoForm /\ imp.cur \in form.ready
         /\ Desired(imp.cur) \in Contents /\ form.desired[imp.cur] \in Contents
         /\ Before(imp.cur) \in LiveValues /\ SavedDescent \in {"canonical", "feature"}
<1>1. /\ imp.cur # NoDashboard /\ form # NoForm /\ imp.cur \in form.ready
      /\ Desired(imp.cur) \in Contents
  BY DEF TypeInv, RequestOK
<1>2. imp.cur \in Dashboards
  BY <1>1 DEF TypeInv, TypeOK, ImportRequests
<1>3. form.desired[imp.cur] \in Contents
  BY <1>1 DEF TypeInv, TypeOK, Forms
<1>4. Before(imp.cur) \in LiveValues
  BY <1>2 DEF TypeInv, TypeOK, ImportRequests, Before, LiveValues, Readings
<1> QED BY <1>1, <1>2, <1>3, <1>4 DEF SavedDescent

LEMMA CreateDashboardType ==
  ASSUME TypeInv, CreateDashboard
  PROVE  TypeInv'
<1>1. /\ imp.cur # NoDashboard /\ imp.cur \in Dashboards
      /\ Desired(imp.cur) \in Contents /\ form.desired[imp.cur] \in Contents
      /\ Before(imp.cur) \in LiveValues /\ SavedDescent \in {"canonical", "feature"}
  BY CurrentOK DEF CreateDashboard
<1>2. /\ imp' \in ImportRequests
      /\ imp'.todo \subseteq imp.todo /\ imp'.sha = imp.sha
      /\ \/ imp'.cur = imp.cur
         \/ imp'.cur = NoDashboard /\ imp'.pc = "loop"
  BY <1>1 DEF TypeInv, TypeOK, CreateDashboard, ImportRequests, ImportPC
<1>3. \/ UNCHANGED <<live, lineage, seen>>
      \/ \E value \in LiveValues, descent \in {"canonical", "feature"} : SetLive(value, descent)
  BY <1>1 DEF CreateDashboard, LiveValues
<1>4. TypeOK' /\ UNCHANGED <<git, form>>
  BY <1>1, <1>2, <1>3, LoopStepType DEF TypeInv, CreateDashboard
<1>5. RequestOK'
  BY <1>1, <1>2, <1>4, RequestStepOK
<1> QED BY <1>4, <1>5 DEF TypeInv

LEMMA CreateRaisesType ==
  ASSUME TypeInv, CreateRaises
  PROVE  TypeInv'
<1>1. /\ imp.cur # NoDashboard /\ imp.cur \in Dashboards
      /\ Desired(imp.cur) \in Contents /\ form.desired[imp.cur] \in Contents
      /\ Before(imp.cur) \in LiveValues /\ SavedDescent \in {"canonical", "feature"}
  BY CurrentOK DEF CreateRaises
<1>2. /\ imp' \in ImportRequests
      /\ imp'.todo \subseteq imp.todo /\ imp'.sha = imp.sha
      /\ \/ imp'.cur = imp.cur
         \/ imp'.cur = NoDashboard /\ imp'.pc = "loop"
  BY <1>1 DEF TypeInv, TypeOK, CreateRaises, ImportRequests, ImportPC, Settled
<1>3. \/ UNCHANGED <<live, lineage, seen>>
      \/ \E value \in LiveValues, descent \in {"canonical", "feature"} : SetLive(value, descent)
  BY <1>1 DEF CreateRaises, Raises, LiveValues
<1>4. TypeOK' /\ UNCHANGED <<git, form>>
  BY <1>1, <1>2, <1>3, LoopStepType DEF TypeInv, CreateRaises
<1>5. RequestOK'
  BY <1>1, <1>2, <1>4, RequestStepOK
<1> QED BY <1>4, <1>5 DEF TypeInv

LEMMA SaveDashboardType ==
  ASSUME TypeInv, SaveDashboard
  PROVE  TypeInv'
<1>1. /\ imp.cur # NoDashboard /\ imp.cur \in Dashboards
      /\ Desired(imp.cur) \in Contents /\ form.desired[imp.cur] \in Contents
      /\ Before(imp.cur) \in LiveValues /\ SavedDescent \in {"canonical", "feature"}
  BY CurrentOK DEF SaveDashboard
<1>2. /\ imp' \in ImportRequests
      /\ imp'.todo \subseteq imp.todo /\ imp'.sha = imp.sha
      /\ \/ imp'.cur = imp.cur
         \/ imp'.cur = NoDashboard /\ imp'.pc = "loop"
  BY <1>1 DEF TypeInv, TypeOK, SaveDashboard, ImportRequests, ImportPC
<1>3. \/ UNCHANGED <<live, lineage, seen>>
      \/ \E value \in LiveValues, descent \in {"canonical", "feature"} : SetLive(value, descent)
  BY <1>1 DEF SaveDashboard, LiveValues
<1>4. TypeOK' /\ UNCHANGED <<git, form>>
  BY <1>1, <1>2, <1>3, LoopStepType DEF TypeInv, SaveDashboard
<1>5. RequestOK'
  BY <1>1, <1>2, <1>4, RequestStepOK
<1> QED BY <1>4, <1>5 DEF TypeInv

LEMMA SaveRaisesType ==
  ASSUME TypeInv, SaveRaises
  PROVE  TypeInv'
<1>1. /\ imp.cur # NoDashboard /\ imp.cur \in Dashboards
      /\ Desired(imp.cur) \in Contents /\ form.desired[imp.cur] \in Contents
      /\ Before(imp.cur) \in LiveValues /\ SavedDescent \in {"canonical", "feature"}
  BY CurrentOK DEF SaveRaises
<1>2. /\ imp' \in ImportRequests
      /\ imp'.todo \subseteq imp.todo /\ imp'.sha = imp.sha
      /\ \/ imp'.cur = imp.cur
         \/ imp'.cur = NoDashboard /\ imp'.pc = "loop"
  BY <1>1 DEF TypeInv, TypeOK, SaveRaises, ImportRequests, ImportPC, AfterException, Settled
<1>3. \/ UNCHANGED <<live, lineage, seen>>
      \/ \E value \in LiveValues, descent \in {"canonical", "feature"} : SetLive(value, descent)
  BY <1>1 DEF SaveRaises, Raises, LiveValues
<1>4. TypeOK' /\ UNCHANGED <<git, form>>
  BY <1>1, <1>2, <1>3, LoopStepType DEF TypeInv, SaveRaises
<1>5. RequestOK'
  BY <1>1, <1>2, <1>4, RequestStepOK
<1> QED BY <1>4, <1>5 DEF TypeInv

LEMMA VerifyType ==
  ASSUME TypeInv, Verify
  PROVE  TypeInv'
<1>1. /\ imp.cur # NoDashboard /\ imp.cur \in Dashboards
      /\ Desired(imp.cur) \in Contents /\ form.desired[imp.cur] \in Contents
      /\ Before(imp.cur) \in LiveValues /\ SavedDescent \in {"canonical", "feature"}
  BY CurrentOK DEF Verify
<1>2. /\ imp' \in ImportRequests
      /\ imp'.todo \subseteq imp.todo /\ imp'.sha = imp.sha
      /\ \/ imp'.cur = imp.cur
         \/ imp'.cur = NoDashboard /\ imp'.pc = "loop"
  BY <1>1 DEF TypeInv, TypeOK, Verify, ImportRequests, ImportPC, RecordArtifact, Stores, Entry
<1>3. \/ UNCHANGED <<live, lineage, seen>>
      \/ \E value \in LiveValues, descent \in {"canonical", "feature"} : SetLive(value, descent)
  BY <1>1 DEF Verify
<1>4. TypeOK' /\ UNCHANGED <<git, form>>
  BY <1>1, <1>2, <1>3, LoopStepType DEF TypeInv, Verify
<1>5. RequestOK'
  BY <1>1, <1>2, <1>4, RequestStepOK
<1> QED BY <1>4, <1>5 DEF TypeInv

LEMMA VerifyMismatchType ==
  ASSUME TypeInv, VerifyMismatch
  PROVE  TypeInv'
<1>1. /\ imp.cur # NoDashboard /\ imp.cur \in Dashboards
      /\ Desired(imp.cur) \in Contents /\ form.desired[imp.cur] \in Contents
      /\ Before(imp.cur) \in LiveValues /\ SavedDescent \in {"canonical", "feature"}
  BY CurrentOK DEF VerifyMismatch
<1>2. /\ imp' \in ImportRequests
      /\ imp'.todo \subseteq imp.todo /\ imp'.sha = imp.sha
      /\ \/ imp'.cur = imp.cur
         \/ imp'.cur = NoDashboard /\ imp'.pc = "loop"
  BY <1>1 DEF TypeInv, TypeOK, VerifyMismatch, ImportRequests, ImportPC
<1>3. \/ UNCHANGED <<live, lineage, seen>>
      \/ \E value \in LiveValues, descent \in {"canonical", "feature"} : SetLive(value, descent)
  BY <1>1 DEF VerifyMismatch
<1>4. TypeOK' /\ UNCHANGED <<git, form>>
  BY <1>1, <1>2, <1>3, LoopStepType DEF TypeInv, VerifyMismatch
<1>5. RequestOK'
  BY <1>1, <1>2, <1>4, RequestStepOK
<1> QED BY <1>4, <1>5 DEF TypeInv

LEMMA VerifyRaisesType ==
  ASSUME TypeInv, VerifyRaises
  PROVE  TypeInv'
<1>1. /\ imp.cur # NoDashboard /\ imp.cur \in Dashboards
      /\ Desired(imp.cur) \in Contents /\ form.desired[imp.cur] \in Contents
      /\ Before(imp.cur) \in LiveValues /\ SavedDescent \in {"canonical", "feature"}
  BY CurrentOK DEF VerifyRaises
<1>2. /\ imp' \in ImportRequests
      /\ imp'.todo \subseteq imp.todo /\ imp'.sha = imp.sha
      /\ \/ imp'.cur = imp.cur
         \/ imp'.cur = NoDashboard /\ imp'.pc = "loop"
  BY <1>1 DEF TypeInv, TypeOK, VerifyRaises, ImportRequests, ImportPC, AfterException, Settled
<1>3. \/ UNCHANGED <<live, lineage, seen>>
      \/ \E value \in LiveValues, descent \in {"canonical", "feature"} : SetLive(value, descent)
  BY <1>1 DEF VerifyRaises
<1>4. TypeOK' /\ UNCHANGED <<git, form>>
  BY <1>1, <1>2, <1>3, LoopStepType DEF TypeInv, VerifyRaises
<1>5. RequestOK'
  BY <1>1, <1>2, <1>4, RequestStepOK
<1> QED BY <1>4, <1>5 DEF TypeInv

LEMMA RestoreType ==
  ASSUME TypeInv, Restore
  PROVE  TypeInv'
<1>1. /\ imp.cur # NoDashboard /\ imp.cur \in Dashboards
      /\ Desired(imp.cur) \in Contents /\ form.desired[imp.cur] \in Contents
      /\ Before(imp.cur) \in LiveValues /\ SavedDescent \in {"canonical", "feature"}
  BY CurrentOK DEF Restore
<1>2. /\ imp' \in ImportRequests
      /\ imp'.todo \subseteq imp.todo /\ imp'.sha = imp.sha
      /\ \/ imp'.cur = imp.cur
         \/ imp'.cur = NoDashboard /\ imp'.pc = "loop"
  BY <1>1 DEF TypeInv, TypeOK, Restore, ImportRequests, ImportPC, Settled
<1>3. \/ UNCHANGED <<live, lineage, seen>>
      \/ \E value \in LiveValues, descent \in {"canonical", "feature"} : SetLive(value, descent)
  BY <1>1 DEF Restore, TypeInv, TypeOK, ImportRequests
<1>4. TypeOK' /\ UNCHANGED <<git, form>>
  BY <1>1, <1>2, <1>3, LoopStepType DEF TypeInv, Restore
<1>5. RequestOK'
  BY <1>1, <1>2, <1>4, RequestStepOK
<1> QED BY <1>4, <1>5 DEF TypeInv

LEMMA RestoreFailsType ==
  ASSUME TypeInv, RestoreFails
  PROVE  TypeInv'
<1>1. /\ imp.cur # NoDashboard /\ imp.cur \in Dashboards
      /\ Desired(imp.cur) \in Contents /\ form.desired[imp.cur] \in Contents
      /\ Before(imp.cur) \in LiveValues /\ SavedDescent \in {"canonical", "feature"}
  BY CurrentOK DEF RestoreFails
<1>2. /\ imp' \in ImportRequests
      /\ imp'.todo \subseteq imp.todo /\ imp'.sha = imp.sha
      /\ \/ imp'.cur = imp.cur
         \/ imp'.cur = NoDashboard /\ imp'.pc = "loop"
  BY <1>1 DEF TypeInv, TypeOK, RestoreFails, ImportRequests, ImportPC, Settled
<1>3. \/ UNCHANGED <<live, lineage, seen>>
      \/ \E value \in LiveValues, descent \in {"canonical", "feature"} : SetLive(value, descent)
  BY <1>1 DEF RestoreFails, Raises, TypeInv, TypeOK, ImportRequests
<1>4. TypeOK' /\ UNCHANGED <<git, form>>
  BY <1>1, <1>2, <1>3, LoopStepType DEF TypeInv, RestoreFails
<1>5. RequestOK'
  BY <1>1, <1>2, <1>4, RequestStepOK
<1> QED BY <1>4, <1>5 DEF TypeInv

LEMMA ArmFailsType ==
  ASSUME TypeInv, ArmFails
  PROVE  TypeInv'
<1>1. /\ imp.cur # NoDashboard /\ imp.cur \in Dashboards
      /\ Desired(imp.cur) \in Contents /\ form.desired[imp.cur] \in Contents
      /\ Before(imp.cur) \in LiveValues /\ SavedDescent \in {"canonical", "feature"}
  BY CurrentOK DEF ArmFails
<1>2. /\ imp' \in ImportRequests
      /\ imp'.todo \subseteq imp.todo /\ imp'.sha = imp.sha
      /\ \/ imp'.cur = imp.cur
         \/ imp'.cur = NoDashboard /\ imp'.pc = "loop"
  BY <1>1 DEF TypeInv, TypeOK, ArmFails, ImportRequests, ImportPC, Settled
<1>3. \/ UNCHANGED <<live, lineage, seen>>
      \/ \E value \in LiveValues, descent \in {"canonical", "feature"} : SetLive(value, descent)
  BY <1>1 DEF ArmFails
<1>4. TypeOK' /\ UNCHANGED <<git, form>>
  BY <1>1, <1>2, <1>3, LoopStepType DEF TypeInv, ArmFails
<1>5. RequestOK'
  BY <1>1, <1>2, <1>4, RequestStepOK
<1> QED BY <1>4, <1>5 DEF TypeInv

(* Steps that write provenance files.                                      *)
LEMMA FilesStepType ==
  ASSUME TypeOK, UNCHANGED <<live, git, head, form, exp, bounds, lineage, seen>>,
         imp' \in ImportRequests, armed' \subseteq Dashboards,
         shared' \in Files, local' \in Files, cache' \in Files,
         marker' \in BOOLEAN, cacheMarker' \in BOOLEAN
  PROVE  TypeOK'
BY DEF TypeOK, bounds, ImportRequests, ExportRuns, Forms

LEMMA PersistType ==
  ASSUME TypeInv, PersistShared \/ PersistMarker \/ PersistLocal
         \/ PersistFails \/ PersistUnverified
  PROVE  TypeInv'
<1>1. imp.after = "dashboard" => imp.cur \in Dashboards /\ imp.cur # NoDashboard
  BY CurrentOK
  DEF PersistShared, PersistMarker, PersistLocal, PersistFails, PersistUnverified
<1>2. imp.after \in {"review", "managed", "apply", "dashboard"}
  BY DEF TypeInv, TypeOK, ImportRequests
<1>3. CASE PersistShared
  <2>1. imp' \in ImportRequests /\ shared' \in Files /\ armed' \subseteq Dashboards
    BY <1>3 DEF TypeInv, TypeOK, PersistShared, ImportRequests, ImportPC, OkFile, Files
  <2>2. TypeOK'
    <3>1. /\ UNCHANGED <<live, git, head, form, exp, bounds, lineage, seen>>
          /\ shared' \in Files /\ local' \in Files /\ cache' \in Files
          /\ marker' \in BOOLEAN /\ cacheMarker' \in BOOLEAN /\ armed' \subseteq Dashboards
      BY <1>3, <2>1 DEF TypeInv, TypeOK, PersistShared
    <3> QED BY <2>1, <3>1, FilesStepType DEF TypeInv
  <2>3. RequestOK'
    BY <1>1, <1>2, <1>3 DEF TypeInv, TypeOK, RequestOK, PersistShared, Desired, ImportRequests
  <2> QED BY <2>2, <2>3 DEF TypeInv
<1>4. CASE PersistMarker
  <2>1. imp' \in ImportRequests /\ marker' \in BOOLEAN
    BY <1>4 DEF TypeInv, TypeOK, PersistMarker, ImportRequests, ImportPC
  <2>2. TypeOK'
    <3>1. /\ UNCHANGED <<live, git, head, form, exp, bounds, lineage, seen>>
          /\ shared' \in Files /\ local' \in Files /\ cache' \in Files
          /\ marker' \in BOOLEAN /\ cacheMarker' \in BOOLEAN /\ armed' \subseteq Dashboards
      BY <1>4, <2>1 DEF TypeInv, TypeOK, PersistMarker
    <3> QED BY <2>1, <3>1, FilesStepType DEF TypeInv
  <2>3. RequestOK'
    BY <1>1, <1>2, <1>4 DEF TypeInv, TypeOK, RequestOK, PersistMarker, Desired, ImportRequests
  <2> QED BY <2>2, <2>3 DEF TypeInv
<1>5. CASE PersistLocal
  <2>1. IdleImport \in ImportRequests /\ Settled(imp) \in ImportRequests
    BY IdleType, SettledType DEF TypeInv
  <2>2. imp' \in ImportRequests /\ local' \in Files
    BY <1>1, <1>2, <1>5, <2>1 DEF TypeInv, TypeOK, PersistLocal, ImportRequests, ImportPC, OkFile, Files
  <2>3. TypeOK'
    <3>1. /\ UNCHANGED <<live, git, head, form, exp, bounds, lineage, seen>>
          /\ shared' \in Files /\ local' \in Files /\ cache' \in Files
          /\ marker' \in BOOLEAN /\ cacheMarker' \in BOOLEAN /\ armed' \subseteq Dashboards
      BY <1>5, <2>2 DEF TypeInv, TypeOK, PersistLocal
    <3> QED BY <2>2, <3>1, FilesStepType DEF TypeInv
  <2>4. /\ imp'.todo \subseteq imp.todo
        /\ \/ imp'.cur = imp.cur /\ imp'.sha = imp.sha /\ imp'.pc = "reload"
           \/ imp'.cur = NoDashboard /\ imp'.pc \in {"idle", "loop", "reload"}
    BY <1>2, <1>5 DEF TypeInv, TypeOK, PersistLocal, Settled, IdleImport, ImportRequests
  <2>5. RequestOK'
    BY <1>5, <2>4, RequestStepOK DEF PersistLocal
  <2> QED BY <2>3, <2>5 DEF TypeInv
<1>6. ASSUME NEW unreadable \in BOOLEAN, imp' = AfterPersistFailure(unreadable)
      PROVE  /\ imp' \in ImportRequests /\ imp'.todo \subseteq imp.todo
             /\ \/ imp'.cur = imp.cur /\ imp'.sha = imp.sha
                   /\ (imp'.pc = "reload" \/ imp.after = "dashboard")
                \/ imp'.cur = NoDashboard /\ imp'.pc = "idle"
  <2>1. IdleImport \in ImportRequests
    BY IdleType DEF TypeInv
  <2>2. CASE imp.after \in {"review", "managed"}
    BY <1>6, <2>1, <2>2 DEF AfterPersistFailure, IdleImport
  <2>3. CASE imp.after = "apply"
    BY <1>6, <2>1, <2>3 DEF AfterPersistFailure, IdleImport, TypeInv, TypeOK, ImportRequests, ImportPC
  <2>4. CASE imp.after = "dashboard"
    BY <1>6, <2>4 DEF AfterPersistFailure, TypeInv, TypeOK, ImportRequests, ImportPC
  <2> QED BY <1>2, <2>2, <2>3, <2>4
<1>7. CASE PersistFails
  <2>1. TypeOK' /\ UNCHANGED <<git, form>>
    BY <1>6, <1>7, LoopStepType DEF TypeInv, PersistFails
  <2>2. RequestOK'
    BY <1>1, <1>6, <1>7, <2>1, RequestStepOK DEF PersistFails
  <2> QED BY <2>1, <2>2 DEF TypeInv
<1>8. CASE PersistUnverified
  <2>1. /\ UNCHANGED <<live, git, head, form, exp, bounds, lineage, seen>>
        /\ shared' \in Files /\ local' \in Files /\ cache' \in Files
        /\ marker' \in BOOLEAN /\ cacheMarker' \in BOOLEAN /\ armed' \subseteq Dashboards
    BY <1>8 DEF TypeInv, TypeOK, ImportRequests, PersistUnverified, OkFile,
       MissingFile, InvalidFile, EmptyStore, Stores, Files
  <2>2. TypeOK'
    BY <1>6, <1>8, <2>1, FilesStepType DEF TypeInv, PersistUnverified
  <2>3. RequestOK'
    BY <1>1, <1>6, <1>8, <2>1, RequestStepOK DEF PersistUnverified
  <2> QED BY <2>2, <2>3 DEF TypeInv
<1> QED BY <1>3, <1>4, <1>5, <1>7, <1>8

LEMMA ArmGuardType ==
  ASSUME TypeInv, ArmGuard
  PROVE  TypeInv'
<1>1. imp.cur \in Dashboards
  BY CurrentOK DEF ArmGuard
<1>2. /\ imp' \in ImportRequests
      /\ imp'.todo \subseteq imp.todo /\ imp'.cur = NoDashboard /\ imp'.pc = "loop"
  BY SettledType DEF ArmGuard
<1>3. marker' \in BOOLEAN /\ armed' \subseteq Dashboards
  BY <1>1 DEF TypeInv, TypeOK, ArmGuard
<1>4. TypeOK'
  BY <1>2, <1>3 DEF TypeInv, TypeOK, ArmGuard, bounds, ImportRequests, ExportRuns, Forms
<1>5. RequestOK'
  BY <1>2, RequestStepOK DEF ArmGuard
<1> QED BY <1>4, <1>5 DEF TypeInv

LEMMA EndRequestType ==
  ASSUME TypeInv, LastReadRaises \/ FinishApply \/ CrashImport
  PROVE  TypeInv'
<1>1. imp' = IdleImport /\ ImportOnly /\ UNCHANGED <<live, lineage, seen>>
  BY DEF LastReadRaises, FinishApply, CrashImport
<1>2. imp' \in ImportRequests
  BY <1>1, IdleType DEF TypeInv
<1>3. TypeOK' /\ UNCHANGED <<git, form>>
  BY <1>1, <1>2, LoopStepType DEF TypeInv
<1>4. imp'.todo = {} /\ imp'.cur = NoDashboard /\ imp'.pc = "idle"
  BY <1>1 DEF IdleImport
<1>5. RequestOK'
  BY <1>4 DEF RequestOK
<1> QED BY <1>3, <1>5 DEF TypeInv

-----------------------------------------------------------------------------
(* Type correctness: Export.                                               *)

(* A dashboard Export publishes or gives a base has a configuration.       *)
LEMMA PublishesReading ==
  ASSUME TypeOK, NEW d \in Dashboards,
         WritesFile(ActionFor(d)) \/ MovesBase(ActionFor(d))
  PROVE  exp.snap[d] \in Contents
<1>1. exp.snap[d] \in Contents \cup {NoConfig}
  BY DEF TypeOK, ExportRuns, Readings
<1> QED BY <1>1 DEF ActionFor, WritesFile, MovesBase

LEMMA ExportKeepsRequest ==
  ASSUME TypeInv, UNCHANGED <<git, form, imp>>
  PROVE  RequestOK'
BY DEF TypeInv, RequestOK, Desired

LEMMA ExportReadType ==
  ASSUME TypeInv, ExportCollect \/ ExportClone \/ ExportEnds \/ ExportFails
  PROVE  TypeInv'
<1>1. exp' \in ExportRuns
  <2>1. IdleExport \in ExportRuns
    BY IdleType DEF TypeInv
  <2>2. CASE ExportCollect
    <3>1. PICK unread \in SUBSET Dashboards :
            exp' = [IdleExport EXCEPT !.pc = "clone", !.descent = lineage,
                      !.snap = [d \in Dashboards |->
                                  IF d \in unread THEN NoConfig ELSE Reading(live[d])]]
      BY <2>2 DEF ExportCollect
    <3>2. [d \in Dashboards |-> IF d \in unread THEN NoConfig ELSE Reading(live[d])]
            \in [Dashboards -> Readings]
      BY DEF Reading, Readings
    <3> QED BY <2>1, <3>1, <3>2 DEF TypeInv, TypeOK, ExportRuns
  <2>3. CASE ExportClone
    BY <2>3 DEF TypeInv, TypeOK, ExportClone, ExportRuns
  <2>4. CASE ExportEnds \/ ExportFails
    BY <2>1, <2>4 DEF ExportEnds, ExportFails
  <2> QED BY <2>2, <2>3, <2>4
<1>2. UNCHANGED <<live, git, head, files, form, imp, bounds, lineage, seen, armed>>
  BY DEF ExportCollect, ExportClone, ExportEnds, ExportFails
<1>3. TypeOK'
  BY <1>1, <1>2 DEF TypeInv, TypeOK, files, bounds, ImportRequests, ExportRuns, Forms
<1>4. RequestOK'
  BY <1>2, ExportKeepsRequest
<1> QED BY <1>3, <1>4 DEF TypeInv

LEMMA ExportPublishType ==
  ASSUME TypeInv, ExportPublish
  PROVE  TypeInv'
<1>1. exp.clone \in DOMAIN git
  BY DEF TypeInv, TypeOK, ExportRuns
<1>2. git[exp.clone].tree \in Trees /\ git[exp.clone].bases \in Bases
  BY <1>1, RevisionType DEF TypeInv
<1>3. /\ exp'.tree = [d \in Dashboards |-> IF WritesFile(ActionFor(d))
                        THEN exp.snap[d] ELSE git[exp.clone].tree[d]]
      /\ exp'.bases = [d \in Dashboards |-> IF MovesBase(ActionFor(d))
                        THEN exp.snap[d] ELSE git[exp.clone].bases[d]]
      /\ exp' = [exp EXCEPT !.pc = "push", !.snap = IdleExport.snap,
                            !.tree = exp'.tree, !.bases = exp'.bases]
  BY DEF TypeInv, TypeOK, ExportRuns, ExportPublish
<1>4. exp'.tree \in Trees /\ exp'.bases \in Bases
  BY <1>2, <1>3, PublishesReading DEF TypeInv, Trees, Bases
<1>5. IdleExport.snap \in [Dashboards -> Readings]
  BY DEF IdleExport, Readings
<1>6. exp' \in ExportRuns
  BY <1>3, <1>4, <1>5 DEF TypeInv, TypeOK, ExportRuns
<1>7. cache' \in Files /\ cacheMarker' \in BOOLEAN
  BY DEF TypeInv, TypeOK, ExportPublish, RefreshCache
<1>8. UNCHANGED <<live, git, head, shared, marker, local, form, imp, bounds,
                  lineage, seen, armed>>
  BY DEF ExportPublish
<1>9. TypeOK'
  BY <1>6, <1>7, <1>8 DEF TypeInv, TypeOK, bounds, ImportRequests, ExportRuns, Forms
<1>10. RequestOK'
  BY <1>8, ExportKeepsRequest
<1> QED BY <1>9, <1>10 DEF TypeInv

LEMMA ExportPushType ==
  ASSUME TypeInv, ExportPush
  PROVE  TypeInv'
<1> DEFINE rev == [tree |-> exp.tree, bases |-> exp.bases, on |-> "main"]
<1>1. rev \in Revision
  BY DEF TypeInv, TypeOK, ExportRuns, Revision
<1>2. git' = Append(git, rev)
  BY DEF ExportPush
<1> HIDE DEF rev
<1>3. /\ git' \in Seq(Revision)
      /\ DOMAIN git \subseteq DOMAIN git' /\ Len(git) + 1 \in DOMAIN git'
      /\ \A i \in DOMAIN git : git'[i] = git[i]
      /\ ImportRequests \subseteq ImportRequests'
      /\ ExportRuns \subseteq ExportRuns'
      /\ Forms \subseteq Forms'
  BY <1>1, <1>2, TypesGrow DEF TypeInv
<1>4. head' \in [{"main", "feature"} -> DOMAIN git']
  BY <1>3 DEF TypeInv, TypeOK, ExportPush
<1>5. /\ lineage' \in [Dashboards -> {"canonical", "feature"}]
      /\ seen' \in [Dashboards -> SUBSET Contents]
  BY ObserveType DEF TypeInv, TypeOK, ExportPush
<1>6. exp' \in ExportRuns'
  BY <1>3, IdleType DEF TypeInv, ExportPush
<1>7. TypeOK'
  BY <1>3, <1>4, <1>5, <1>6 DEF TypeInv, TypeOK, ExportPush, files, bounds
<1>8. imp.sha \in DOMAIN git
  BY DEF TypeInv, TypeOK, ImportRequests
<1>9. RequestOK'
  BY <1>3, <1>8 DEF TypeInv, RequestOK, ExportPush, Desired
<1> QED BY <1>7, <1>9 DEF TypeInv

-----------------------------------------------------------------------------

LEMMA InitType ==
  ASSUME Init
  PROVE  TypeInv
<1>1. PICK tree \in Trees, agreed \in SUBSET Dashboards :
        /\ \A d \in agreed : tree[d] = live[d]
        /\ git = << InitialRevision(tree,
                     [d \in Dashboards |-> IF d \in agreed THEN tree[d] ELSE NoBase]) >>
  BY ConstantsAssumption DEF Init, Trees
<1>2. live \in [Dashboards -> LiveValues]
  BY ConstantsAssumption DEF Init, LiveValues
<1>3. \A d \in agreed : tree[d] \in Contents
  BY <1>1, <1>2, DistinctAssumption DEF Trees, LiveValues
<1>4. [d \in Dashboards |-> IF d \in agreed THEN tree[d] ELSE NoBase] \in Bases
  BY <1>3 DEF Bases
<1>5. InitialRevision(tree, [d \in Dashboards |-> IF d \in agreed THEN tree[d] ELSE NoBase])
        \in Revision
  BY <1>4 DEF InitialRevision, Revision
<1>6. git \in Seq(Revision) /\ DOMAIN git = {1}
  BY <1>1, <1>5
<1>7. head \in [{"main", "feature"} -> DOMAIN git]
  BY <1>6 DEF Init
<1>8. MissingFile \in Files
  BY DEF MissingFile, Files, EmptyStore, Stores
<1>9. imp \in ImportRequests
  BY <1>6 DEF Init, IdleImport, ImportRequests, ImportPC, Refs, EmptyStore, Stores, Statuses, Readings
<1>10. exp \in ExportRuns
  BY <1>6 DEF Init, IdleExport, ExportRuns, Readings, Trees, Bases
<1>11. edits \in 0..MaxEdits /\ commits \in 0..MaxCommits
  BY ConstantsAssumption DEF Init
<1>12. /\ lineage \in [Dashboards -> {"canonical", "feature"}]
       /\ seen \in [Dashboards -> SUBSET Contents]
  BY DEF Init
<1>13. TypeOK
  BY <1>2, <1>6, <1>7, <1>8, <1>9, <1>10, <1>11, <1>12 DEF Init, TypeOK
<1>14. RequestOK
  BY DEF Init, IdleImport, RequestOK
<1> QED BY <1>13, <1>14 DEF TypeInv

LEMMA StepType ==
  ASSUME TypeInv, [Next]_vars
  PROVE  TypeInv'
<1>1. CASE Environment
  BY <1>1, HaEditType, GitCommitType, OutsideType DEF Environment
<1>2. CASE ImportStep
  <2>1. ASSUME NEW ref \in Refs, NEW pinned \in BOOLEAN,
               NEW sha \in RevisionsOf(ref, pinned), Review(ref, sha, pinned)
        PROVE  TypeInv'
    BY <2>1, ReviewType
  <2> QED BY <1>2, <2>1, ApplyType, ApplyManagedType, ReloadType, SelectType,
     CreateDashboardType, CreateRaisesType, SaveDashboardType, SaveRaisesType, VerifyType,
     VerifyMismatchType, VerifyRaisesType, PersistType, RestoreType,
     RestoreFailsType, ArmGuardType, ArmFailsType, EndRequestType
  DEF ImportStep
<1>3. CASE ExportStep
  BY <1>3, ExportReadType, ExportPublishType, ExportPushType DEF ExportStep
<1>4. CASE UNCHANGED vars
  BY <1>4 DEF vars, files, bounds, TypeInv, TypeOK, RequestOK, Desired,
     ImportRequests, ExportRuns, Forms
<1> QED BY <1>1, <1>2, <1>3, <1>4 DEF Next

(* Every variable of Import, Export, HA and Git has its type, and Import   *)
(* only ever works on a dashboard that is selectable in the form it        *)
(* applies and that has a file in Git.                                     *)
THEOREM TypeCorrectness == Spec => [](TypeOK /\ RequestOK)
<1>1. Init => TypeInv
  BY InitType
<1>2. TypeInv /\ [Next]_vars => TypeInv'
  BY StepType
<1> QED BY <1>1, <1>2, PTL DEF Spec, TypeInv

-----------------------------------------------------------------------------
(* Bases are common ancestors, and Export overwrites only what was LIVE.   *)

AgreedInv == LiveWasSeen /\ BasesWereAgreed /\ RunOK

LEMMA MainGrows ==
  ASSUME TypeOK, NEW rev \in Revision, git' = Append(git, rev), NEW d \in Dashboards
  PROVE  /\ MainContents(git, d) \subseteq MainContents(git', d)
         /\ rev.on = "main" => rev.tree[d] \in MainContents(git', d)
<1>1. git \in Seq(Revision)
  BY DEF TypeOK
<1>2. /\ DOMAIN git \subseteq DOMAIN git'
      /\ \A i \in DOMAIN git : git'[i] = git[i]
      /\ Len(git) + 1 \in DOMAIN git' /\ git'[Len(git) + 1] = rev
  BY <1>1, HistoryGrows
<1> QED BY <1>2 DEF MainContents

LEMMA SeenGrows ==
  ASSUME TypeOK, NEW git2, NEW descent, Observe(live', git2, descent)
  PROVE  /\ \A d \in Dashboards : seen[d] \subseteq seen'[d]
         /\ LiveWasSeen'
BY DEF TypeOK, Observe, LiveWasSeen

(* Import and HA users: Git and Export's run stay as they are.             *)
LEMMA LiveStepAgreed ==
  ASSUME TypeInv, AgreedInv, UNCHANGED <<git, exp>>,
         \/ UNCHANGED <<live, seen>>
         \/ \E descent : Observe(live', git, descent)
  PROVE  AgreedInv'
<1>1. /\ \A d \in Dashboards : seen[d] \subseteq seen'[d]
      /\ LiveWasSeen'
  <2>1. CASE UNCHANGED <<live, seen>>
    BY <2>1 DEF AgreedInv, LiveWasSeen
  <2>2. CASE \E descent : Observe(live', git, descent)
    BY <2>2, SeenGrows DEF TypeInv
  <2> QED BY <2>1, <2>2
<1>2. BasesWereAgreed'
  BY <1>1 DEF AgreedInv, BasesWereAgreed
<1>3. RunOK'
  BY <1>1 DEF AgreedInv, RunOK
<1> QED BY <1>1, <1>2, <1>3 DEF AgreedInv

LEMMA ImportStepLive ==
  ASSUME ImportStep
  PROVE  /\ UNCHANGED <<git, exp>>
         /\ \/ UNCHANGED <<live, seen>>
            \/ \E descent : Observe(live', git, descent)
<1>1. CASE \E ref \in Refs, pinned \in BOOLEAN : \E sha \in RevisionsOf(ref, pinned) :
             Review(ref, sha, pinned)
  BY <1>1 DEF Review
<1>2. CASE (\E selected \in SUBSET Dashboards : Apply(selected)) \/ ApplyManaged
  BY <1>2 DEF Apply, ApplyManaged
<1>3. CASE (\E d \in Dashboards : SkipDashboard(d) \/ StartDashboard(d)) \/ LastReadRaises
  BY <1>3 DEF SkipDashboard, StartDashboard, LastReadRaises, ImportOnly
<1>4. CASE CreateDashboard \/ CreateRaises \/ SaveDashboard \/ SaveRaises
  BY <1>4 DEF CreateDashboard, CreateRaises, SaveDashboard, SaveRaises, Raises,
     SetLive, ImportOnly
<1>5. CASE Reload \/ Verify \/ VerifyMismatch \/ VerifyRaises \/ FinishApply \/ CrashImport
  BY <1>5 DEF Reload, Verify, VerifyMismatch, VerifyRaises, FinishApply, CrashImport, ImportOnly
<1>6. CASE PersistShared \/ PersistMarker \/ PersistLocal \/ PersistFails \/ PersistUnverified
  BY <1>6 DEF PersistShared, PersistMarker, PersistLocal, PersistFails, PersistUnverified, ImportOnly
<1>7. CASE Restore \/ RestoreFails \/ ArmGuard \/ ArmFails
  BY <1>7 DEF Restore, RestoreFails, ArmGuard, ArmFails, Raises, SetLive, ImportOnly
<1> QED BY <1>1, <1>2, <1>3, <1>4, <1>5, <1>6, <1>7 DEF ImportStep

(* A revision appended to Git whose bases are agreed keeps all of them so. *)
LEMMA AppendAgreed ==
  ASSUME TypeInv, AgreedInv, NEW rev \in Revision, git' = Append(git, rev),
         \A d \in Dashboards : seen[d] \subseteq seen'[d],
         \A d \in Dashboards : rev.bases[d] # NoBase =>
           rev.bases[d] \in seen'[d] \cap MainContents(git', d)
  PROVE  BasesWereAgreed'
<1>1. git \in Seq(Revision)
  BY DEF TypeInv, TypeOK
<1>2. /\ DOMAIN git' = DOMAIN git \cup {Len(git) + 1}
      /\ \A i \in DOMAIN git : git'[i] = git[i]
      /\ git'[Len(git) + 1] = rev
  BY <1>1, HistoryGrows
<1>3. \A d \in Dashboards : MainContents(git, d) \subseteq MainContents(git', d)
  BY MainGrows DEF TypeInv
<1> SUFFICES ASSUME NEW i \in DOMAIN git', NEW d \in Dashboards,
                    git'[i].bases[d] # NoBase
             PROVE  git'[i].bases[d] \in seen'[d] \cap MainContents(git', d)
  BY DEF BasesWereAgreed
<1>4. CASE i \in DOMAIN git
  BY <1>2, <1>3, <1>4 DEF AgreedInv, BasesWereAgreed
<1>5. CASE i = Len(git) + 1
  BY <1>2, <1>5
<1> QED BY <1>2, <1>4, <1>5

LEMMA GitCommitAgreed ==
  ASSUME TypeInv, AgreedInv, NEW branch \in {"main", "feature"},
         NEW d \in Dashboards, NEW content \in Contents, GitCommit(branch, d, content)
  PROVE  AgreedInv'
<1> DEFINE rev == [git[head[branch]] EXCEPT !.tree[d] = content, !.on = branch]
<1>1. head[branch] \in DOMAIN git /\ exp.clone \in DOMAIN git
  BY DEF TypeInv, TypeOK, ExportRuns
<1>2. rev \in Revision /\ rev.bases = git[head[branch]].bases
  BY <1>1, RevisionType DEF TypeInv, Revision, Trees
<1>3. git' = Append(git, rev) /\ UNCHANGED <<live, exp>>
  BY DEF GitCommit
<1> HIDE DEF rev
<1>4. /\ \A e \in Dashboards : seen[e] \subseteq seen'[e]
      /\ LiveWasSeen'
  BY SeenGrows DEF TypeInv, GitCommit
<1>5. \A e \in Dashboards : MainContents(git, e) \subseteq MainContents(git', e)
  BY <1>2, <1>3, MainGrows DEF TypeInv
<1>6. \A e \in Dashboards : rev.bases[e] # NoBase =>
        rev.bases[e] \in seen'[e] \cap MainContents(git', e)
  BY <1>1, <1>2, <1>4, <1>5 DEF AgreedInv, BasesWereAgreed
<1>7. BasesWereAgreed'
  BY <1>2, <1>3, <1>4, <1>6, AppendAgreed
<1>8. git'[exp.clone] = git[exp.clone]
  BY <1>1, <1>2, <1>3, TypesGrow DEF TypeInv
<1>9. RunOK'
  BY <1>3, <1>4, <1>5, <1>8 DEF AgreedInv, RunOK
<1> QED BY <1>4, <1>7, <1>9 DEF AgreedInv

LEMMA ExportReadAgreed ==
  ASSUME TypeInv, AgreedInv,
         ExportCollect \/ ExportClone \/ ExportEnds \/ ExportFails
  PROVE  AgreedInv'
<1>1. UNCHANGED <<live, git, seen>>
  BY DEF ExportCollect, ExportClone, ExportEnds, ExportFails
<1>2. LiveWasSeen' /\ BasesWereAgreed'
  BY <1>1 DEF AgreedInv, LiveWasSeen, BasesWereAgreed
<1>3. \A d \in Dashboards : exp'.snap[d] \in seen[d] \cup {NoConfig}
  <2>1. CASE ExportCollect
    <3>1. PICK unread \in SUBSET Dashboards :
            exp'.snap = [d \in Dashboards |->
                           IF d \in unread THEN NoConfig ELSE Reading(live[d])]
      BY <2>1 DEF ExportCollect, IdleExport
    <3> QED BY <3>1 DEF AgreedInv, LiveWasSeen, Reading
  <2>2. CASE ExportClone
    BY <2>2 DEF TypeInv, TypeOK, ExportRuns, ExportClone, AgreedInv, RunOK
  <2>3. CASE ExportEnds \/ ExportFails
    BY <2>3 DEF ExportEnds, ExportFails, IdleExport
  <2> QED BY <2>1, <2>2, <2>3
<1>4. exp'.pc # "push"
  <2>1. CASE ExportCollect
    <3>1. exp'.pc = "clone"
      BY <2>1 DEF ExportCollect, IdleExport
    <3> QED BY <3>1
  <2>2. CASE ExportClone
    <3>1. exp'.pc = "publish"
      BY <2>2 DEF TypeInv, TypeOK, ExportRuns, ExportClone
    <3> QED BY <3>1
  <2>3. CASE ExportEnds \/ ExportFails
    <3>1. exp'.pc = "idle"
      BY <2>3 DEF ExportEnds, ExportFails, IdleExport
    <3> QED BY <3>1
  <2> QED BY <2>1, <2>2, <2>3
<1>5. RunOK'
  BY <1>1, <1>3, <1>4 DEF RunOK
<1> QED BY <1>2, <1>5 DEF AgreedInv

(* The three-way rule: what sync writes replaces the base, or nothing.     *)
LEMMA SyncWritesOverBase ==
  ASSUME TypeOK, NEW d \in Dashboards, WritesFile(ActionFor(d))
  PROVE  git[exp.clone].tree[d] \in {NoFile, git[exp.clone].bases[d]}
BY DEF ActionFor, SyncAction, WritesFile

LEMMA SyncMovesBaseToTree ==
  ASSUME TypeOK, NEW d \in Dashboards, MovesBase(ActionFor(d))
  PROVE  WritesFile(ActionFor(d)) \/ git[exp.clone].tree[d] = exp.snap[d]
BY DEF ActionFor, SyncAction, WritesFile, MovesBase

LEMMA ExportPublishAgreed ==
  ASSUME TypeInv, AgreedInv, ExportPublish
  PROVE  AgreedInv'
<1>1. UNCHANGED <<live, git, seen>>
  BY DEF ExportPublish
<1>2. LiveWasSeen' /\ BasesWereAgreed'
  BY <1>1 DEF AgreedInv, LiveWasSeen, BasesWereAgreed
<1>3. exp.clone \in DOMAIN git
  BY DEF TypeInv, TypeOK, ExportRuns
<1>4. /\ exp'.tree = [d \in Dashboards |-> IF WritesFile(ActionFor(d))
                        THEN exp.snap[d] ELSE git[exp.clone].tree[d]]
      /\ exp'.bases = [d \in Dashboards |-> IF MovesBase(ActionFor(d))
                        THEN exp.snap[d] ELSE git[exp.clone].bases[d]]
      /\ exp'.snap = IdleExport.snap /\ exp'.clone = exp.clone
  BY DEF TypeInv, TypeOK, ExportRuns, ExportPublish
<1>5. ASSUME NEW d \in Dashboards, exp'.bases[d] # NoBase
      PROVE  exp'.bases[d] \in seen[d] \cap (MainContents(git, d) \cup {exp'.tree[d]})
  <2>1. CASE MovesBase(ActionFor(d))
    <3>1. exp'.bases[d] = exp.snap[d] /\ exp'.tree[d] = exp.snap[d]
      BY <1>4, <2>1, SyncMovesBaseToTree DEF TypeInv
    <3>2. exp.snap[d] \in seen[d]
      BY <2>1, PublishesReading, DistinctAssumption DEF TypeInv, AgreedInv, RunOK
    <3> QED BY <3>1, <3>2
  <2>2. CASE ~ MovesBase(ActionFor(d))
    BY <1>3, <1>4, <1>5, <2>2 DEF AgreedInv, BasesWereAgreed
  <2> QED BY <2>1, <2>2
<1>6. ASSUME NEW d \in Dashboards, exp'.tree[d] # git[exp.clone].tree[d]
      PROVE  git[exp.clone].tree[d] \in seen[d] \cup {NoFile}
  <2>1. git[exp.clone].tree[d] \in {NoFile, git[exp.clone].bases[d]}
    BY <1>4, <1>6, SyncWritesOverBase DEF TypeInv
  <2>2. git[exp.clone].tree[d] \in Contents \cup {NoFile}
    BY <1>3, RevisionType DEF TypeInv, Trees
  <2> QED BY <1>3, <2>1, <2>2, DistinctAssumption DEF AgreedInv, BasesWereAgreed
<1>7. RunOK'
  BY <1>1, <1>4, <1>5, <1>6 DEF RunOK, IdleExport
<1> QED BY <1>2, <1>7 DEF AgreedInv

LEMMA ExportPushAgreed ==
  ASSUME TypeInv, AgreedInv, ExportPush
  PROVE  AgreedInv'
<1> DEFINE rev == [tree |-> exp.tree, bases |-> exp.bases, on |-> "main"]
<1>1. rev \in Revision
  BY DEF TypeInv, TypeOK, ExportRuns, Revision
<1>2. git' = Append(git, rev) /\ exp' = IdleExport
  BY DEF ExportPush
<1>3. rev.bases = exp.bases /\ rev.tree = exp.tree /\ rev.on = "main"
  OBVIOUS
<1> HIDE DEF rev
<1>4. /\ \A d \in Dashboards : seen[d] \subseteq seen'[d]
      /\ LiveWasSeen'
  BY SeenGrows DEF TypeInv, ExportPush, Observe, LiveWasSeen
<1>5. \A d \in Dashboards : /\ MainContents(git, d) \subseteq MainContents(git', d)
                            /\ exp.tree[d] \in MainContents(git', d)
  BY <1>1, <1>2, <1>3, MainGrows DEF TypeInv
<1>6. \A d \in Dashboards : rev.bases[d] # NoBase =>
        rev.bases[d] \in seen'[d] \cap MainContents(git', d)
  BY <1>3, <1>4, <1>5 DEF AgreedInv, RunOK, ExportPush
<1>7. BasesWereAgreed'
  BY <1>1, <1>2, <1>4, <1>6, AppendAgreed
<1>8. RunOK'
  BY <1>2 DEF RunOK, IdleExport
<1> QED BY <1>4, <1>7, <1>8 DEF AgreedInv

LEMMA InitAgreed ==
  ASSUME Init
  PROVE  AgreedInv
<1>1. PICK tree \in Trees, agreed \in SUBSET Dashboards :
        /\ \A d \in agreed : tree[d] = live[d]
        /\ git = << InitialRevision(tree,
                     [d \in Dashboards |-> IF d \in agreed THEN tree[d] ELSE NoBase]) >>
  BY ConstantsAssumption DEF Init, Trees
<1>2. /\ live \in [Dashboards -> LiveValues]
      /\ seen = [d \in Dashboards |-> {live[d]} \cap Contents]
  BY ConstantsAssumption DEF Init, LiveValues
<1>3. \A d \in agreed : tree[d] \in Contents
  BY <1>1, <1>2, DistinctAssumption DEF Trees, LiveValues
<1>4. /\ DOMAIN git = {1}
      /\ git[1].on = "main" /\ git[1].tree = tree
      /\ git[1].bases = [d \in Dashboards |-> IF d \in agreed THEN tree[d] ELSE NoBase]
  BY <1>1 DEF InitialRevision
<1>5. BasesWereAgreed
  <2> SUFFICES ASSUME NEW i \in DOMAIN git, NEW d \in Dashboards,
                      git[i].bases[d] # NoBase
               PROVE  git[i].bases[d] \in seen[d] \cap MainContents(git, d)
    BY DEF BasesWereAgreed
  <2>1. i = 1 /\ d \in agreed /\ git[i].bases[d] = tree[d]
    BY <1>4
  <2>2. tree[d] \in seen[d]
    BY <1>1, <1>2, <1>3, <2>1
  <2>3. tree[d] \in MainContents(git, d)
    BY <1>4 DEF MainContents
  <2> QED BY <2>1, <2>2, <2>3
<1>6. LiveWasSeen
  BY <1>2 DEF LiveWasSeen
<1>7. RunOK
  BY DEF Init, IdleExport, RunOK
<1> QED BY <1>5, <1>6, <1>7 DEF AgreedInv

LEMMA StepAgreed ==
  ASSUME TypeInv, AgreedInv, [Next]_vars
  PROVE  AgreedInv'
<1>1. ASSUME NEW d \in Dashboards, NEW value \in EditValues, HaEdit(d, value)
      PROVE  AgreedInv'
  BY <1>1, LiveStepAgreed DEF HaEdit
<1>2. ASSUME GitRebase \/ \E status \in {"missing", "invalid"} :
                            LoseShared(status) \/ LoseLocal(status)
      PROVE  AgreedInv'
  BY <1>2, LiveStepAgreed DEF GitRebase, LoseShared, LoseLocal
<1>3. CASE Environment
  BY <1>1, <1>2, <1>3, GitCommitAgreed DEF Environment
<1>4. CASE ImportStep
  BY <1>4, ImportStepLive, LiveStepAgreed
<1>5. CASE ExportStep
  BY <1>5, ExportReadAgreed, ExportPublishAgreed, ExportPushAgreed DEF ExportStep
<1>6. CASE UNCHANGED vars
  BY <1>6, LiveStepAgreed DEF vars
<1> QED BY <1>3, <1>4, <1>5, <1>6 DEF Next

(* The conjunction the runs check as Inductive, for every instance.        *)
THEOREM InductiveInvariance == Spec => []Inductive
<1>1. Init => TypeInv /\ AgreedInv
  BY InitType, InitAgreed
<1>2. TypeInv /\ AgreedInv /\ [Next]_vars => TypeInv' /\ AgreedInv'
  BY StepType, StepAgreed
<1>3. TypeInv /\ AgreedInv => Inductive
  BY DEF TypeInv, AgreedInv, Inductive
<1> QED BY <1>1, <1>2, <1>3, PTL DEF Spec

(* Every base in every revision is a content that main held and that was   *)
(* LIVE: the common ancestor Import's and Export's three-way decisions     *)
(* take it for, whatever fails and however the two overlap.                *)
THEOREM BasesAreCommonAncestors == Spec => []BasesWereAgreed
<1>1. Inductive => BasesWereAgreed
  BY DEF Inductive
<1> QED BY <1>1, InductiveInvariance, PTL

LEMMA StepPublishesSafely ==
  ASSUME Inductive, [Next]_vars, NEW d \in Dashboards, Publishes(d),
         Main.tree[d] # NoFile
  PROVE  Main.tree[d] \in seen[d]
<1>1. exp.pc = "push" /\ Len(git') > Len(git)
  BY DEF Publishes
<1>2. git \in Seq(Revision)
  BY DEF Inductive, TypeOK
<1>3. git' # git
  BY <1>1, <1>2
<1>4. CASE ExportPush
  <2>1. /\ head["main"] = exp.clone
        /\ git' = Append(git, [tree |-> exp.tree, bases |-> exp.bases, on |-> "main"])
    BY <1>4 DEF ExportPush
  <2>2. git'[Len(git')].tree = exp.tree
    BY <1>2, <2>1
  <2>3. Main = git[exp.clone]
    BY <2>1 DEF Main
  <2> QED BY <1>1, <2>2, <2>3 DEF Publishes, Inductive, RunOK
<1>5. CASE \E branch \in {"main", "feature"}, e \in Dashboards, content \in Contents :
             GitCommit(branch, e, content)
  <2>1. exp' = exp
    BY <1>5 DEF GitCommit
  <2> QED BY <2>1 DEF Publishes
<1>6. ASSUME NEW e \in Dashboards, NEW value \in EditValues, HaEdit(e, value)
      PROVE  FALSE
  BY <1>3, <1>6 DEF HaEdit
<1>7. ASSUME GitRebase \/ \E status \in {"missing", "invalid"} :
                            LoseShared(status) \/ LoseLocal(status)
      PROVE  FALSE
  BY <1>3, <1>7 DEF GitRebase, LoseShared, LoseLocal
<1>8. CASE ImportStep
  BY <1>3, <1>8, ImportStepLive
<1>9. CASE ExportCollect \/ ExportClone \/ ExportPublish \/ ExportEnds \/ ExportFails
  BY <1>3, <1>9 DEF ExportCollect, ExportClone, ExportPublish, ExportEnds, ExportFails
<1>10. CASE UNCHANGED vars
  BY <1>3, <1>10 DEF vars
<1> QED BY <1>4, <1>5, <1>6, <1>7, <1>8, <1>9, <1>10 DEF Next, Environment, ExportStep

(* A dashboard on main that Export replaces was LIVE at some time: a change *)
(* committed to main and not yet deployed is never overwritten by a push.  *)
THEOREM GitChangesSurvive == Spec => NoLostGitChange
<1>1. Inductive /\ [Next]_vars =>
        [\A d \in Dashboards :
           Publishes(d) /\ Main.tree[d] # NoFile => Main.tree[d] \in seen[d]]_vars
  BY StepPublishesSafely
<1> QED BY <1>1, InductiveInvariance, PTL DEF Spec, NoLostGitChange
=============================================================================
