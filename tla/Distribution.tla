---------------------------- MODULE Distribution ----------------------------
(***************************************************************************)
(* From the nightly build to a client's disk: workflow runs publish        *)
(* releases (Publisher) while a client refreshes its catalog (Refresh).    *)
(* The two share nothing but the object store and the table of plans, and  *)
(* either may stop between any two of its steps.                           *)
(***************************************************************************)
EXTENDS Refresh

Init == PublisherInit /\ RefreshInit

PublisherNext == (PublisherStep \/ RunFails) /\ UNCHANGED <<files, refresh>>

RefreshNext == RefreshStep \/ RefreshFails \/ PatchFails \/ RefreshDies

Next == PublisherNext \/ RefreshNext

(* A refresh that has begun goes on, and the user runs another one.        *)
Fairness == WF_vars(RefreshStep)

Spec == Init /\ [][Next]_vars /\ Fairness
----------------------------------------------------------------------------
(* The variables have their types.                                         *)
TypeOK ==
  /\ bucket \in [snapshot : Catalogs \cup {None}, current : Catalogs \cup {None},
                 patches : SUBSET Patches]
  /\ plans \in SUBSET Rows
  /\ run \in [pc : RunLabels, build : Catalogs \cup {None},
              remote : Catalogs \cup {None}, patch : Patches \cup {NoPatch}]
  /\ built \in Catalogs \cup {None}
  /\ failures \in 0..MaxFailures
  /\ files \in [catalog : Catalogs \cup {None}, metadata : Catalogs \cup {None},
                newCatalog : Catalogs \cup {None, Junk},
                newMetadata : Catalogs \cup {None, Junk}]
  /\ refresh \in [pc : RefreshLabels, local : Catalogs \cup {None},
                  target : Catalogs \cup {None}, patch : Patches \cup {NoPatch}]

(* Nothing is announced before it can be fetched, wherever a run stops:    *)
(* metadata.json never runs ahead of the snapshot, the plans never run     *)
(* ahead of metadata.json, and a patch that a plan names is in the store   *)
(* (uploadObjects and the order of the workflow's steps).                  *)
AnnouncedIsAvailable ==
  /\ bucket.current <= bucket.snapshot
  /\ \A r \in plans :
       /\ r.target <= bucket.current
       /\ r.mode = "patch" =>
            \E p \in bucket.patches : p.from = r.patch.from /\ p.to = r.patch.to

(* What a refresh is about to put in place is one release, whole: the      *)
(* target it was told, its bytes and its metadata, although snapshot and   *)
(* metadata are separate objects that a run replaces one after the other.  *)
SwapsOneRelease ==
  /\ At("swap_catalog") =>
       files.newCatalog = refresh.target /\ files.newMetadata = refresh.target
  /\ At("swap_metadata") =>
       files.catalog = refresh.target /\ files.newMetadata = refresh.target

(* A client that the worker tells it is current, which ends its refresh,   *)
(* has the catalog that its metadata names, whatever killed its earlier    *)
(* refreshes between the two renames of the swap.                          *)
CurrentIsTrue ==
  \A r \in plans : r.mode = "current" /\ r.key = files.metadata => files.catalog = files.metadata

(* A client gets a release that stays: it is complete in the store, the    *)
(* plans lead to it, and the user keeps refreshing.  Neither a patch that  *)
(* cannot be applied nor a refresh that died is in the way for ever.       *)
Stands(c) ==
  /\ bucket.snapshot = c /\ bucket.current = c
  /\ plans # {} /\ \A r \in plans : r.target = c

ClientsCatchUp ==
  \A c \in Catalogs :
    <>[]Stands(c) => <>[](files.catalog = c /\ files.metadata = c)
----------------------------------------------------------------------------
(* What the repository says of itself and the code does not do.            *)

(* patch.rs: the authorizer allows whatever "a legitimate patch" needs: a  *)
(* patch made for the client's catalog can turn it into the target.        *)
PatchesCanBeApplied ==
  \A p \in bucket.patches :
    p.base = p.from /\ p.base = files.catalog => p.to \in Patched(p)
=============================================================================
