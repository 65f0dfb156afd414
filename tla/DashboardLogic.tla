--------------------------- MODULE DashboardLogic ---------------------------
(***************************************************************************)
(* The three-way decisions about one dashboard: Import's classification    *)
(* (import/dashboard_logic.py) and Export's per-dashboard synchronisation  *)
(* (export/sync_dashboards.py).  Both compare the Git file, the LIVE       *)
(* configuration and a base, the content they last agreed on.              *)
(***************************************************************************)
EXTENDS Provenance

CONSTANTS
  Shells,     (* Contents is_empty_dashboard recognises as an empty shell.  *)
  Malformed,  (* Contents whose views are not a list of objects.            *)
  NoFile,     (* The tree has no file for the dashboard.                    *)
  NoBase,     (* state/dashboard-bases.json has no hash for the dashboard.  *)
  NoConfig    (* HA returns no Lovelace configuration.                      *)

APPLYABLE_STATUSES == {"READY", "BOOTSTRAP", "CREATE"}

classify(github, current, base) ==
  CASE base = NoBase /\ github = current    -> "IN SYNC NO BASE"
    [] base = NoBase /\ github # current /\ current \in Shells    -> "BOOTSTRAP"
    [] base = NoBase /\ github # current /\ current \notin Shells -> "CONFLICT"
    [] base # NoBase /\ github = current    -> "SAME"
    [] base # NoBase /\ github # current /\ current = base        -> "READY"
    [] base # NoBase /\ github # current /\ github = base         -> "CHANGED IN HA"
    [] OTHER                                -> "CONFLICT"

(* The hash of the last canonical Apply replaces a base that matches       *)
(* neither side, when it matches one itself.                               *)
CanonicalEffectiveBase(base, github, current, applied) ==
  IF applied \in {github, current} /\ base \notin {github, current}
  THEN applied ELSE base

classify_with_provenance(github, current, base, canonicalReview, entry) ==
  IF ~ IsCanonicalLive(entry)
  THEN IF canonicalReview
       THEN IF github = current THEN "SAME" ELSE "LIVE FROM FEATURE"
       ELSE classify(github, current, entry.hash)
  ELSE classify(github, current,
         IF entry = NoEntry THEN base
         ELSE CanonicalEffectiveBase(base, github, current, entry.hash))

(* Mutant: a review of any branch adopts.                                  *)
ShouldAdoptFromAnywhere(github, current, canonicalReview, entry) ==
  ~ IsCanonicalLive(entry) /\ github = current

(* LIVE that equals Git main while recorded as deployed from elsewhere.    *)
ShouldAdopt(github, current, canonicalReview, entry) ==
  ~ IsCanonicalLive(entry) /\ canonicalReview /\ github = current

classify_missing_ha(creatable, registered) ==
  IF registered THEN "BOOTSTRAP" ELSE IF creatable THEN "CREATE" ELSE "CONFLICT"

-----------------------------------------------------------------------------
(* Mutant: a change in HA wins although Git changed too.                   *)
SyncActionHaWins(allowed, github, current, base) ==
  CASE ~ allowed                     -> "SKIPPED"
    [] allowed /\ github = NoFile    -> "MIGRATED"
    [] allowed /\ github = current   -> "SAME"
    [] allowed /\ github \notin {NoFile, current}
         /\ base \notin {NoBase, current} -> "HA_CHANGE"
    [] OTHER                         -> "CONFLICT"

(* Export: what sync does with one dashboard of the snapshot.              *)
SyncAction(allowed, github, current, base) ==
  CASE ~ allowed                                      -> "SKIPPED"
    [] allowed /\ github = NoFile                     -> "MIGRATED"
    [] allowed /\ github = current                    -> "SAME"
    [] allowed /\ github \notin {NoFile, current}
         /\ base \notin {NoBase, current} /\ github = base -> "HA_CHANGE"
    [] allowed /\ github \notin {NoFile, current}
         /\ base # NoBase /\ github # base /\ current = base -> "PENDING"
    [] OTHER                                          -> "CONFLICT"

WritesFile(action) == action \in {"MIGRATED", "HA_CHANGE"}

(* Mutant: a conflict records a base as well.                              *)
MovesBaseOnConflict(action) == action \in {"MIGRATED", "HA_CHANGE", "SAME", "CONFLICT"}

MovesBase(action)  == action \in {"MIGRATED", "HA_CHANGE", "SAME"}
=============================================================================
