------------------------------ MODULE Refresh ------------------------------
(***************************************************************************)
(* `winbrew update`: ask the worker for a plan, fetch a snapshot or apply  *)
(* a patch to a copy of the catalog, verify, and swap the new catalog and  *)
(* its metadata in.  The store may be publishing at the same time, and the *)
(* process may fail or be killed between any two steps.                    *)
(***************************************************************************)
EXTENDS Publisher

VARIABLES
  files,      \* the client's catalog.db, metadata.json and their downloads
  refresh     \* the refresh in progress

vars == <<bucket, plans, run, built, failures, files, refresh>>

Junk == -1    \* bytes that are no catalog that was ever built

RefreshLabels == {"idle", "select", "patch", "fallback", "fetch_metadata",
                  "fetch_snapshot", "swap_catalog", "swap_metadata"}

Asleep == [pc |-> "idle", local |-> None, target |-> None, patch |-> NoPatch]

RefreshInit ==
  /\ files = [catalog |-> None, metadata |-> None,
              newCatalog |-> None, newMetadata |-> None]
  /\ refresh = Asleep

At(label) == refresh.pc = label

Goto(label) == refresh' = [refresh EXCEPT !.pc = label]

(* The temporary files go when a refresh starts and when it returns.       *)
Cleared(f) == [f EXCEPT !.newCatalog = None, !.newMetadata = None]

Return(f) == files' = Cleared(f) /\ refresh' = Asleep

(* Mutant of Verified: any catalog that can be read will do.               *)
Readable(bytes, hash) == bytes \notin {None, Junk}

(* verify_catalog_hash: a catalog's bytes are those that a hash stands for.*)
Verified(bytes, hash) == bytes = hash
----------------------------------------------------------------------------
StartRefresh ==
  /\ At("idle")
  /\ files' = Cleared(files)
  /\ refresh' = [Asleep EXCEPT !.pc = "select", !.local = files.metadata]
  /\ UNCHANGED <<publisherVars, failures>>

(* plan_catalog_download: a patch, or a snapshot and its metadata.         *)
Planned(r) ==
  [refresh EXCEPT !.target = r.target, !.patch = r.patch,
                  !.pc = IF r.mode = "patch" THEN "patch" ELSE "fetch_metadata"]

(* The worker's answer is planned; without one the refresh is over, and so *)
(* it is when the catalog is current.                                      *)
Select ==
  /\ At("select")
  /\ \/ \E r \in Selection(refresh.local) :
          /\ r.mode # "current"
          /\ refresh' = Planned(r)
          /\ UNCHANGED files
     \/ /\ \A r \in Selection(refresh.local) : r.mode = "current"
        /\ Return(files)
  /\ UNCHANGED <<publisherVars, failures>>

(* What the statements of a patch do, and what the client's authorizer     *)
(* lets them do (patch files begin with PRAGMA foreign_keys = ON).         *)
PatchActions == {"pragma", "transaction", "insert", "update", "delete"}

AuthorizedActions ==
  {"select", "read", "insert", "update", "delete", "transaction",
   "savepoint", "function", "recursive"}

(* The bytes of the client's catalog after a patch: unchanged in content   *)
(* where the authorizer refuses; the rows of the target, in pages that     *)
(* need not be laid out as the target's are, where the patch was made for  *)
(* that catalog.                                                           *)
Patched(p) ==
  IF PatchActions \subseteq AuthorizedActions /\ files.catalog = p.base
  THEN {p.to, Junk} ELSE {Junk}

PatchObjects == {p \in bucket.patches : p.from = refresh.patch.from /\ p.to = refresh.patch.to}

(* Mutant of ApplyPatch: its error is the command's error.                 *)
ApplyPatchOrFail ==
  /\ At("patch")
  /\ \E p \in PatchObjects : \E bytes \in Patched(p) :
       IF Verified(bytes, refresh.target)
       THEN /\ files' = [files EXCEPT !.newCatalog = bytes, !.newMetadata = refresh.target]
            /\ Goto("swap_catalog")
       ELSE Return(files)
  /\ UNCHANGED <<publisherVars, failures>>

(* apply_catalog_patch_release: an error leads to the full snapshot, and   *)
(* so does a copy whose hash is not the target's.                          *)
ApplyPatch ==
  /\ At("patch")
  /\ \E p \in PatchObjects : \E bytes \in Patched(p) :
       IF Verified(bytes, refresh.target)
       THEN /\ files' = [files EXCEPT !.newCatalog = bytes, !.newMetadata = refresh.target]
            /\ Goto("swap_catalog")
       ELSE /\ files' = Cleared(files)
            /\ Goto("fallback")
  /\ UNCHANGED <<publisherVars, failures>>

(* request_full_snapshot_plan asks the worker again, naming no catalog.    *)
Fallback ==
  /\ At("fallback")
  /\ \/ /\ \E r \in LatestFull : refresh' = Planned(r)
        /\ UNCHANGED files
     \/ LatestFull = {} /\ Return(files)
  /\ UNCHANGED <<publisherVars, failures>>

(* Mutant of FetchMetadata: it is downloaded to its place at once.         *)
FetchMetadataInPlace ==
  /\ At("fetch_metadata")
  /\ IF bucket.current = refresh.target
     THEN /\ files' = [files EXCEPT !.metadata = bucket.current, !.newMetadata = bucket.current]
          /\ Goto("fetch_snapshot")
     ELSE Return(files)
  /\ UNCHANGED <<publisherVars, failures>>

(* download_catalog_release: the metadata must be that of the target...    *)
FetchMetadata ==
  /\ At("fetch_metadata")
  /\ IF bucket.current = refresh.target
     THEN /\ files' = [files EXCEPT !.newMetadata = bucket.current]
          /\ Goto("fetch_snapshot")
     ELSE Return(files)
  /\ UNCHANGED <<publisherVars, failures>>

(* ...and the snapshot, downloaded and decompressed, that of the metadata. *)
FetchSnapshot ==
  /\ At("fetch_snapshot")
  /\ IF Verified(bucket.snapshot, files.newMetadata)
     THEN /\ files' = [files EXCEPT !.newCatalog = bucket.snapshot]
          /\ Goto("swap_catalog")
     ELSE Return(files)
  /\ UNCHANGED <<publisherVars, failures>>

(* The renames: the catalog first, then the metadata that speaks of it.    *)
SwapCatalog ==
  /\ At("swap_catalog")
  /\ files' = [files EXCEPT !.catalog = files.newCatalog, !.newCatalog = None]
  /\ Goto("swap_metadata")
  /\ UNCHANGED <<publisherVars, failures>>

SwapMetadata ==
  /\ At("swap_metadata")
  /\ Return([files EXCEPT !.metadata = files.newMetadata])
  /\ UNCHANGED <<publisherVars, failures>>

(* A request, a write or a rename fails: the command returns the error.    *)
RefreshFails ==
  /\ ~At("idle")
  /\ failures < MaxFailures
  /\ failures' = failures + 1
  /\ Return(files)
  /\ UNCHANGED publisherVars

(* A patch fails for want of the network or the disk.                      *)
PatchFails ==
  /\ At("patch")
  /\ failures < MaxFailures
  /\ failures' = failures + 1
  /\ files' = Cleared(files)
  /\ Goto("fallback")
  /\ UNCHANGED publisherVars

(* The process is killed and leaves the temporary files as they are, the   *)
(* one that it is writing in part.                                         *)
RefreshDies ==
  /\ ~At("idle")
  /\ failures < MaxFailures
  /\ failures' = failures + 1
  /\ files' = CASE At("fetch_metadata") -> [files EXCEPT !.newMetadata = Junk]
                [] refresh.pc \in {"patch", "fetch_snapshot"} ->
                     [files EXCEPT !.newCatalog = Junk]
                [] OTHER -> files
  /\ refresh' = Asleep
  /\ UNCHANGED publisherVars

RefreshStep ==
  StartRefresh \/ Select \/ ApplyPatch \/ Fallback \/ FetchMetadata
    \/ FetchSnapshot \/ SwapCatalog \/ SwapMetadata
=============================================================================
