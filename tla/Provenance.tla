----------------------------- MODULE Provenance -----------------------------
(***************************************************************************)
(* LIVE deployment provenance, the module that Import and Export each keep *)
(* a copy of (import/deployment_provenance.py, export/deployment_prove-    *)
(* nance.py).  A store says, per dashboard, which Git source the LIVE      *)
(* dashboard was last deployed from.  Content hashes are identified with   *)
(* the contents: SHA-256 over canonical JSON is taken to be injective.     *)
(*                                                                         *)
(* Only definitions over values: the files themselves are variables of     *)
(* DashboardSync.                                                          *)
(***************************************************************************)

CONSTANTS
  Dashboards,   (* Dashboard file names, e.g. "dashboard-home.json".       *)
  Contents,     (* Dashboard configurations (one per SHA-256).             *)
  NoEntry       (* A dashboard the store has no record for.                *)

(* A source is a branch or an explicit commit; "main" is the canonical one.*)
Refs == {"main", "feature", "commit"}

Entry == [ref : Refs, hash : Contents]

Stores == [Dashboards -> Entry \cup {NoEntry}]

EmptyStore == [d \in Dashboards |-> NoEntry]

(* A provenance JSON file on disk: readable, absent or unparsable.         *)
OkFile(store) == [status |-> "ok", store |-> store]
MissingFile   == [status |-> "missing", store |-> EmptyStore]
InvalidFile   == [status |-> "invalid", store |-> EmptyStore]
Files == [status : {"ok", "missing", "invalid"}, store : Stores]

IsCanonicalSource(ref) == ref = "main"

IsCanonicalLive(entry) == entry = NoEntry \/ IsCanonicalSource(entry.ref)

(* Mutant: recording one dashboard forgets the others.                     *)
RecordOnlyArtifact(store, d, ref, content) ==
  [EmptyStore EXCEPT ![d] = [ref |-> ref, hash |-> content]]

(* record_artifacts for one verified dashboard.                            *)
RecordArtifact(store, d, ref, content) ==
  [store EXCEPT ![d] = [ref |-> ref, hash |-> content]]

(* adopt_canonical for every dashboard whose LIVE already equals Git main. *)
AdoptCanonical(store, adopted, current) ==
  [d \in Dashboards |->
     IF d \in adopted THEN [ref |-> "main", hash |-> current[d]] ELSE store[d]]

(* The copy in Import's /data wins over the shared one.                    *)
LoadImportStore(local, shared) ==
  IF local.status = "ok" THEN local.store ELSE shared.store

-----------------------------------------------------------------------------
(* Export's view: the shared file, plus what its cache may only restrict.  *)

Initialized(shared, marker, cache, cacheMarker) ==
  \/ marker \/ cacheMarker
  \/ shared.status # "missing"
  \/ cache.status # "missing"

GuardState(shared, marker, cache, cacheMarker) ==
  CASE shared.status = "ok"                             -> "ready"
    [] shared.status # "ok"
         /\ Initialized(shared, marker, cache, cacheMarker) -> "unavailable"
    [] OTHER                                            -> "legacy"

(* Mutant: an unavailable guard falls back to the cache, failing open.     *)
SyncAllowedFailOpen(d, shared, marker, cache, cacheMarker) ==
  IsCanonicalLive(cache.store[d]) /\ IsCanonicalLive(shared.store[d])

(* dashboard_sync_decision on the store load_export_store returns.  With   *)
(* an unavailable guard nothing is allowed, whatever the cache says; the   *)
(* legacy store is empty, so every dashboard is canonical in it.           *)
SyncAllowed(d, shared, marker, cache, cacheMarker) ==
  CASE GuardState(shared, marker, cache, cacheMarker) = "ready" ->
         IsCanonicalLive(cache.store[d]) /\ IsCanonicalLive(shared.store[d])
    [] GuardState(shared, marker, cache, cacheMarker) = "unavailable" -> FALSE
    [] OTHER -> TRUE
=============================================================================
