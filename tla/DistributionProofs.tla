------------------------- MODULE DistributionProofs -------------------------
(***************************************************************************)
(* For any number of builds and failures: what the plans announce can be   *)
(* fetched, what a refresh swaps in is one release, and a client that is   *)
(* told it is current has the catalog that its metadata names.             *)
(***************************************************************************)
EXTENDS Distribution, TLAPS

(* What a run remembers agrees with the store: only it writes there, and   *)
(* it builds no catalog older than the released one.                       *)
RunIsInOrder ==
  /\ run.pc # "idle" => run.build \in Catalogs /\ bucket.current <= run.build
  /\ run.pc \in {"candidate", "snapshot", "metadata"} =>
       run.remote = bucket.current /\ run.remote < run.build
  /\ run.pc = "candidate" => run.remote # None
  /\ run.pc = "metadata" => bucket.snapshot = run.build
  /\ run.pc = "plans" =>
       /\ run.remote < run.build /\ bucket.current = run.build
       /\ \A r \in plans : r.target <= run.remote
  /\ run.patch # NoPatch => run.patch \in bucket.patches /\ run.patch.to = run.build

(* All plans lead to one release, and only its clients are current.        *)
PlansAgree ==
  /\ \A r, s \in plans : r.target = s.target
  /\ \A r \in plans : r.mode = "current" => r.key = r.target

(* No client holds or asks for a release that the plans have not reached.  *)
Reached(c) == c = None \/ (plans # {} /\ \A r \in plans : c <= r.target)

ClientIsBehind ==
  /\ Reached(files.catalog) /\ Reached(files.metadata)
  /\ Reached(refresh.target) /\ Reached(refresh.local)
  /\ refresh.pc \notin {"idle", "select"} =>
       refresh.target \in Catalogs /\ files.metadata <= refresh.target
  /\ At("fetch_snapshot") => files.newMetadata = refresh.target

Inv == /\ TypeOK /\ AnnouncedIsAvailable /\ SwapsOneRelease /\ CurrentIsTrue
       /\ RunIsInOrder /\ PlansAgree /\ ClientIsBehind
----------------------------------------------------------------------------
(* The initial states satisfy the invariant.                               *)
LEMMA InitGood == Init => Inv
  BY BoundsAssumption
  DEF Init, PublisherInit, RefreshInit, Inv, TypeOK, AnnouncedIsAvailable, SwapsOneRelease,
      CurrentIsTrue, RunIsInOrder, PlansAgree, Reached, ClientIsBehind, At, Asleep, Resting,
      NoPatch, None, Junk, Patches, Rows, Catalogs, RunLabels, RefreshLabels

(* The client's half of the invariant says nothing of the store but what   *)
(* the plans are: it outlives every step that leaves plans and client be.  *)
LEMMA ClientUntouched ==
  ASSUME Inv, UNCHANGED <<plans, files, refresh>>
  PROVE  SwapsOneRelease' /\ CurrentIsTrue' /\ PlansAgree' /\ ClientIsBehind'
  BY DEF Inv, SwapsOneRelease, CurrentIsTrue, PlansAgree, ClientIsBehind, Reached, At

LEMMA BuildGood == ASSUME Inv, Build, UNCHANGED <<files, refresh>> PROVE Inv'
  <1>1. TypeOK'
    <2>1. run' \in [pc : RunLabels, build : Catalogs \cup {None},
                     remote : Catalogs \cup {None}, patch : Patches \cup {NoPatch}]
      BY DEF Build, Resting, RunLabels
    <2>2. built' \in Catalogs \cup {None}
      BY DEF Inv, TypeOK, Build
    <2> QED BY <2>1, <2>2 DEF Inv, TypeOK, Build
  <1>2. AnnouncedIsAvailable' /\ RunIsInOrder'
    BY DEF Inv, TypeOK, AnnouncedIsAvailable, RunIsInOrder, Build, Resting, RunLabels
  <1> QED BY <1>1, <1>2, ClientUntouched DEF Inv, Build

LEMMA CompareGood == ASSUME Inv, Compare, UNCHANGED <<files, refresh>> PROVE Inv'
  <1>1. TypeOK'
    <2>1. run' \in [pc : RunLabels, build : Catalogs \cup {None},
                     remote : Catalogs \cup {None}, patch : Patches \cup {NoPatch}]
      BY DEF Inv, TypeOK, Compare, Resting, RunLabels
    <2> QED BY <2>1 DEF Inv, TypeOK, Compare
  <1>2. AnnouncedIsAvailable' /\ RunIsInOrder'
    BY DEF Inv, TypeOK, AnnouncedIsAvailable, RunIsInOrder, Compare, Resting, RunLabels,
           Catalogs, None
  <1> QED BY <1>1, <1>2, ClientUntouched DEF Inv, Compare

LEMMA UploadPatchGood == ASSUME Inv, UploadPatch, UNCHANGED <<files, refresh>> PROVE Inv'
  <1> DEFINE p == [from |-> run.remote, to |-> run.build, base |-> bucket.snapshot]
  <1>1. p \in Patches
    BY DEF Inv, TypeOK, AnnouncedIsAvailable, RunIsInOrder, UploadPatch, Patches, Catalogs, None
  <1>2. TypeOK'
    BY <1>1 DEF Inv, TypeOK, UploadPatch, RunLabels
  <1>3. AnnouncedIsAvailable'
    BY <1>1 DEF Inv, TypeOK, AnnouncedIsAvailable, UploadPatch
  <1>4. RunIsInOrder'
    BY <1>1 DEF Inv, TypeOK, RunIsInOrder, UploadPatch
  <1> QED BY <1>2, <1>3, <1>4, ClientUntouched DEF Inv, UploadPatch

LEMMA SkipPatchGood == ASSUME Inv, SkipPatch, UNCHANGED <<files, refresh>> PROVE Inv'
  <1>1. TypeOK' /\ AnnouncedIsAvailable' /\ RunIsInOrder'
    BY DEF Inv, TypeOK, AnnouncedIsAvailable, RunIsInOrder, SkipPatch, RunLabels
  <1> QED BY <1>1, ClientUntouched DEF Inv, SkipPatch

LEMMA UploadSnapshotGood == ASSUME Inv, UploadSnapshot, UNCHANGED <<files, refresh>> PROVE Inv'
  <1>1. TypeOK' /\ AnnouncedIsAvailable' /\ RunIsInOrder'
    BY DEF Inv, TypeOK, AnnouncedIsAvailable, RunIsInOrder, UploadSnapshot, RunLabels
  <1> QED BY <1>1, ClientUntouched DEF Inv, UploadSnapshot

LEMMA UploadMetadataGood == ASSUME Inv, UploadMetadata, UNCHANGED <<files, refresh>> PROVE Inv'
  <1>1. TypeOK'
    BY DEF Inv, TypeOK, RunIsInOrder, UploadMetadata, RunLabels
  <1>2. AnnouncedIsAvailable'
    <2>1. \A r \in plans : r.target \in Int
      BY DEF Inv, TypeOK, Rows, Catalogs
    <2>2. bucket'.current = run.build /\ bucket'.snapshot = run.build
          /\ bucket'.patches = bucket.patches /\ plans' = plans
      BY DEF Inv, TypeOK, RunIsInOrder, UploadMetadata
    <2>3. run.build \in Int /\ bucket.current \in Int /\ bucket.current < run.build
      BY DEF Inv, TypeOK, RunIsInOrder, UploadMetadata, Catalogs, None
    <2> QED BY <2>1, <2>2, <2>3 DEF Inv, AnnouncedIsAvailable
  <1>3. RunIsInOrder'
    <2>1. run'.pc = "plans" /\ run'.build = run.build /\ run'.remote = run.remote
          /\ run'.patch = run.patch /\ bucket'.patches = bucket.patches
          /\ bucket'.current = run.build /\ plans' = plans
      BY DEF Inv, TypeOK, UploadMetadata
    <2>2. run.build \in Catalogs /\ run.remote = bucket.current /\ run.remote < run.build
      BY DEF Inv, RunIsInOrder, UploadMetadata
    <2>3. run.build <= run.build
      BY <2>2 DEF Catalogs
    <2> QED BY <2>1, <2>2, <2>3 DEF Inv, AnnouncedIsAvailable, RunIsInOrder
  <1> QED BY <1>1, <1>2, <1>3, ClientUntouched DEF Inv, UploadMetadata

(* What the new rows are.                                                  *)
LEMMA PlanRowsType ==
  ASSUME NEW c \in Catalogs, NEW p \in Catalogs \cup {None}, p < c,
         NEW q \in Patches \cup {NoPatch}, q # NoPatch => q.to = c,
         NEW r \in PlanRows(c, p, q)
  PROVE  /\ r \in Rows /\ r.target = c
         /\ r.mode = "current" => r.key = c
         /\ r.mode = "patch" => r.patch = q /\ q # NoPatch
  <1>1. ASSUME NEW k \in Catalogs, NEW b \in BOOLEAN, r = FullRow(k, b, c)
        PROVE  r \in Rows /\ r.target = c /\ r.mode = "full"
    BY <1>1 DEF FullRow, Rows
  <1>2. CASE r = CurrentRow(c)
    BY <1>2 DEF CurrentRow, Rows
  <1>3. CASE q # NoPatch /\ r = PatchRow(q)
    <2>1. q \in Patches /\ q.from \in Catalogs
      BY <1>3 DEF Patches
    <2> QED BY <1>3, <2>1 DEF PatchRow, Rows
  <1>4. CASE \E k \in Catalogs : \E b \in BOOLEAN : r = FullRow(k, b, c)
    BY <1>1, <1>4
  <1> QED BY <1>2, <1>3, <1>4 DEF PlanRows

LEMMA PublishPlansGood == ASSUME Inv, PublishPlans, UNCHANGED <<files, refresh>> PROVE Inv'
  <1>0. /\ run.build \in Catalogs /\ run.remote \in Catalogs \cup {None}
        /\ run.patch \in Patches \cup {NoPatch} /\ run.remote < run.build
        /\ run.patch # NoPatch => run.patch \in bucket.patches /\ run.patch.to = run.build
        /\ bucket.current = run.build
    BY DEF Inv, TypeOK, RunIsInOrder, PublishPlans
  <1>1. \A r \in plans' :
          /\ r \in Rows /\ r.target = run.build
          /\ r.mode = "current" => r.key = run.build
          /\ r.mode = "patch" => r.patch = run.patch /\ run.patch # NoPatch
    BY <1>0, PlanRowsType DEF PublishPlans
  <1>2. plans' # {}
    BY DEF PublishPlans, PlanRows
  <1>3. run.build \in Int /\ run.remote \in Int
    BY <1>0 DEF Catalogs, None
  <1>4. TypeOK'
    BY <1>1 DEF Inv, TypeOK, PublishPlans, Resting, RunLabels
  <1>5. AnnouncedIsAvailable'
    BY <1>0, <1>1, <1>3 DEF Inv, AnnouncedIsAvailable, PublishPlans
  <1>6. RunIsInOrder'
    BY DEF PublishPlans, RunIsInOrder, Resting
  <1>7. PlansAgree'
    BY <1>1 DEF PlansAgree
  <1>8. ASSUME NEW x \in Int, Reached(x)
        PROVE  Reached(x)' /\ x < run.build
    <2>1. CASE x = None
      BY <2>1, <1>0 DEF Reached, Catalogs, None
    <2>2. CASE x # None
      <3>1. PICK r \in plans : x <= r.target
        BY <1>8, <2>2 DEF Reached
      <3>2. r.target \in Int /\ r.target <= run.remote
        BY <3>1 DEF Inv, TypeOK, RunIsInOrder, PublishPlans, Rows, Catalogs
      <3>3. x < run.build
        BY <1>0, <1>3, <1>8, <3>1, <3>2
      <3> QED BY <1>1, <1>2, <1>3, <1>8, <3>3 DEF Reached
    <2> QED BY <2>1, <2>2
  <1>9. files.catalog \in Int /\ files.metadata \in Int /\ refresh.target \in Int
        /\ refresh.local \in Int
    BY DEF Inv, TypeOK, Catalogs, None
  <1>10. ClientIsBehind'
    BY <1>8, <1>9 DEF Inv, ClientIsBehind, Reached, At
  <1>11. CurrentIsTrue'
    BY <1>1, <1>3, <1>8, <1>9 DEF Inv, ClientIsBehind, CurrentIsTrue
  <1>12. SwapsOneRelease'
    BY DEF Inv, SwapsOneRelease, At
  <1> QED BY <1>4, <1>5, <1>6, <1>7, <1>10, <1>11, <1>12 DEF Inv

LEMMA RunFailsGood == ASSUME Inv, RunFails, UNCHANGED <<files, refresh>> PROVE Inv'
  <1>1. TypeOK'
    BY BoundsAssumption DEF Inv, TypeOK, RunFails, Resting, RunLabels
  <1>2. AnnouncedIsAvailable' /\ RunIsInOrder'
    BY DEF Inv, AnnouncedIsAvailable, RunIsInOrder, RunFails, Resting
  <1> QED BY <1>1, <1>2, ClientUntouched DEF Inv, RunFails

(* A step of the client leaves the publisher's half as it is.              *)
LEMMA PublisherUntouched ==
  ASSUME Inv, UNCHANGED publisherVars
  PROVE  AnnouncedIsAvailable' /\ RunIsInOrder' /\ PlansAgree'
  BY DEF Inv, AnnouncedIsAvailable, RunIsInOrder, PlansAgree, publisherVars

(* The types of the client's state, one field at a time.                   *)
LEMMA ClientTypes ==
  ASSUME TypeOK
  PROVE  /\ files.catalog \in Catalogs \cup {None} /\ files.metadata \in Catalogs \cup {None}
         /\ refresh.target \in Int /\ files.metadata \in Int /\ files.catalog \in Int
         /\ \A r \in plans : r.target \in Catalogs /\ r.target \in Int
  BY DEF TypeOK, Rows, Catalogs, None

(* A refresh that ends, however it ends, leaves catalog and metadata be.   *)
LEMMA ReturnGood ==
  ASSUME Inv, Return(files), UNCHANGED publisherVars, failures' \in 0..MaxFailures
  PROVE  Inv'
  <1>1. TypeOK'
    BY DEF Inv, TypeOK, Return, Cleared, Asleep, RefreshLabels, publisherVars
  <1>2. files'.catalog = files.catalog /\ files'.metadata = files.metadata /\ refresh' = Asleep
    BY DEF Inv, TypeOK, Return, Cleared
  <1>3. SwapsOneRelease' /\ CurrentIsTrue' /\ ClientIsBehind'
    BY <1>2 DEF Inv, SwapsOneRelease, CurrentIsTrue, ClientIsBehind, Reached, At, Asleep,
                publisherVars
  <1> QED BY <1>1, <1>3, PublisherUntouched DEF Inv

LEMMA StartRefreshGood == ASSUME Inv, StartRefresh PROVE Inv'
  <1>1. TypeOK'
    BY DEF Inv, TypeOK, StartRefresh, Cleared, Asleep, RefreshLabels, publisherVars
  <1>2. /\ files'.catalog = files.catalog /\ files'.metadata = files.metadata
        /\ refresh'.pc = "select" /\ refresh'.target = None /\ refresh'.local = files.metadata
        /\ plans' = plans
    BY DEF Inv, TypeOK, StartRefresh, Cleared, Asleep, publisherVars
  <1>3. SwapsOneRelease' /\ CurrentIsTrue' /\ ClientIsBehind'
    BY <1>2 DEF Inv, SwapsOneRelease, CurrentIsTrue, ClientIsBehind, Reached, At
  <1> QED BY <1>1, <1>3, PublisherUntouched DEF Inv, StartRefresh

(* A plan, wherever it comes from, names a release that the client has not *)
(* gone beyond.                                                            *)
LEMMA PlanIsAhead ==
  ASSUME Inv, NEW r \in plans
  PROVE  /\ r.target \in Catalogs /\ r.patch \in Patches \cup {NoPatch}
         /\ Reached(r.target) /\ files.metadata <= r.target
  <1>1. r.target \in Catalogs /\ r.patch \in Patches \cup {NoPatch}
    BY DEF Inv, TypeOK, Rows
  <1>2. \A s \in plans : s.target = r.target
    BY DEF Inv, PlansAgree
  <1>3. r.target \in Int /\ 0 <= r.target
    BY <1>1 DEF Catalogs
  <1>4. Reached(r.target)
    BY <1>2, <1>3 DEF Reached
  <1>5. files.metadata <= r.target
    BY <1>3 DEF Inv, ClientIsBehind, Reached, None
  <1> QED BY <1>1, <1>4, <1>5

(* What the client makes of a plan.                                        *)
LEMMA PlannedGood ==
  ASSUME Inv, NEW r \in plans, refresh' = Planned(r), UNCHANGED <<files, publisherVars, failures>>
  PROVE  Inv'
  <1>1. /\ refresh'.pc \in {"patch", "fetch_metadata"} /\ refresh'.target = r.target
        /\ refresh'.local = refresh.local /\ plans' = plans
    BY DEF Inv, TypeOK, Planned, publisherVars
  <1>2. TypeOK'
    <2>1. r.target \in Catalogs /\ r.patch \in Patches \cup {NoPatch}
      BY PlanIsAhead
    <2>2. refresh' \in [pc : RefreshLabels, local : Catalogs \cup {None},
                         target : Catalogs \cup {None}, patch : Patches \cup {NoPatch}]
      BY <2>1 DEF Inv, TypeOK, Planned, RefreshLabels
    <2> QED BY <2>2 DEF Inv, TypeOK, publisherVars
  <1>3. SwapsOneRelease' /\ CurrentIsTrue' /\ ClientIsBehind'
    BY <1>1, PlanIsAhead
    DEF Inv, SwapsOneRelease, CurrentIsTrue, ClientIsBehind, Reached, At
  <1> QED BY <1>2, <1>3, PublisherUntouched DEF Inv

LEMMA SelectGood == ASSUME Inv, Select PROVE Inv'
  <1>1. Selection(refresh.local) \subseteq plans
    BY DEF Selection, PlanFor, LatestFull
  <1>2. CASE Return(files)
    BY <1>2, ReturnGood DEF Inv, TypeOK, Select
  <1>3. CASE \E r \in plans : refresh' = Planned(r) /\ UNCHANGED files
    BY <1>3, PlannedGood DEF Select
  <1> QED BY <1>1, <1>2, <1>3 DEF Select

(* A patch that cannot be had or used leaves the target as it was.         *)
LEMMA GivenUpGood ==
  ASSUME Inv, At("patch"), files' = Cleared(files), Goto("fallback"),
         UNCHANGED publisherVars, failures' \in 0..MaxFailures
  PROVE  Inv'
  <1>1. TypeOK'
    BY DEF Inv, TypeOK, Goto, Cleared, RefreshLabels, publisherVars
  <1>2. /\ files'.catalog = files.catalog /\ files'.metadata = files.metadata
        /\ refresh'.pc = "fallback" /\ refresh'.target = refresh.target
        /\ refresh'.local = refresh.local /\ plans' = plans
    BY DEF Inv, TypeOK, Cleared, Goto, publisherVars
  <1>3. SwapsOneRelease' /\ CurrentIsTrue' /\ ClientIsBehind'
    BY <1>2 DEF Inv, SwapsOneRelease, CurrentIsTrue, ClientIsBehind, Reached, At
  <1> QED BY <1>1, <1>3, PublisherUntouched DEF Inv

LEMMA ApplyPatchGood == ASSUME Inv, ApplyPatch PROVE Inv'
  <1>0. failures' \in 0..MaxFailures
    BY DEF Inv, TypeOK, ApplyPatch
  <1>1. CASE files' = Cleared(files) /\ Goto("fallback")
    BY <1>0, <1>1, GivenUpGood DEF ApplyPatch
  <1>2. CASE \E bytes : /\ bytes = refresh.target
                        /\ files' = [files EXCEPT !.newCatalog = bytes,
                                                  !.newMetadata = refresh.target]
                        /\ Goto("swap_catalog")
    <2>1. /\ files'.catalog = files.catalog /\ files'.metadata = files.metadata
          /\ files'.newCatalog = refresh.target /\ files'.newMetadata = refresh.target
          /\ refresh'.pc = "swap_catalog" /\ refresh'.target = refresh.target
          /\ refresh'.local = refresh.local /\ plans' = plans
      BY <1>2 DEF Inv, TypeOK, Goto, ApplyPatch, publisherVars
    <2>2. TypeOK'
      <3>1. refresh' \in [pc : RefreshLabels, local : Catalogs \cup {None},
                           target : Catalogs \cup {None}, patch : Patches \cup {NoPatch}]
        BY <1>2 DEF Inv, TypeOK, Goto, RefreshLabels
      <3>2. files' \in [catalog : Catalogs \cup {None}, metadata : Catalogs \cup {None},
                        newCatalog : Catalogs \cup {None, Junk},
                        newMetadata : Catalogs \cup {None, Junk}]
        BY <1>2 DEF Inv, TypeOK
      <3> QED BY <1>0, <3>1, <3>2 DEF Inv, TypeOK, ApplyPatch, publisherVars
    <2>3. refresh.target \in Catalogs /\ files.metadata <= refresh.target
      BY DEF Inv, ClientIsBehind, ApplyPatch, At
    <2>4. SwapsOneRelease' /\ CurrentIsTrue' /\ ClientIsBehind'
      BY <2>1, <2>3 DEF Inv, SwapsOneRelease, CurrentIsTrue, ClientIsBehind, Reached, At
    <2> QED BY <2>2, <2>4, PublisherUntouched DEF Inv, ApplyPatch
  <1> QED BY <1>1, <1>2 DEF ApplyPatch, Verified

LEMMA FallbackGood == ASSUME Inv, Fallback PROVE Inv'
  <1>1. LatestFull \subseteq plans
    BY DEF LatestFull
  <1>2. CASE Return(files)
    BY <1>2, ReturnGood DEF Inv, TypeOK, Fallback
  <1>3. CASE \E r \in plans : refresh' = Planned(r) /\ UNCHANGED files
    BY <1>3, PlannedGood DEF Fallback
  <1> QED BY <1>1, <1>2, <1>3 DEF Fallback

LEMMA FetchMetadataGood == ASSUME Inv, FetchMetadata PROVE Inv'
  <1>1. CASE Return(files)
    BY <1>1, ReturnGood DEF Inv, TypeOK, FetchMetadata
  <1>2. CASE /\ bucket.current = refresh.target
             /\ files' = [files EXCEPT !.newMetadata = bucket.current]
             /\ Goto("fetch_snapshot")
    <2>1. /\ files'.catalog = files.catalog /\ files'.metadata = files.metadata
          /\ files'.newMetadata = refresh.target
          /\ refresh'.pc = "fetch_snapshot" /\ refresh'.target = refresh.target
          /\ refresh'.local = refresh.local /\ plans' = plans
      BY <1>2 DEF Inv, TypeOK, Goto, FetchMetadata, publisherVars
    <2>2. TypeOK'
      BY <1>2 DEF Inv, TypeOK, Goto, FetchMetadata, RefreshLabels, publisherVars
    <2>3. refresh.target \in Catalogs /\ files.metadata <= refresh.target
      BY DEF Inv, ClientIsBehind, FetchMetadata, At
    <2>4. SwapsOneRelease' /\ CurrentIsTrue' /\ ClientIsBehind'
      BY <2>1, <2>3 DEF Inv, SwapsOneRelease, CurrentIsTrue, ClientIsBehind, Reached, At
    <2> QED BY <2>2, <2>4, PublisherUntouched DEF Inv, FetchMetadata
  <1> QED BY <1>1, <1>2 DEF FetchMetadata

(* Whatever the store holds by now, only the snapshot that the downloaded  *)
(* metadata speaks of is kept.                                             *)
LEMMA FetchSnapshotGood == ASSUME Inv, FetchSnapshot PROVE Inv'
  <1>1. CASE Return(files)
    BY <1>1, ReturnGood DEF Inv, TypeOK, FetchSnapshot
  <1>2. CASE /\ bucket.snapshot = files.newMetadata
             /\ files' = [files EXCEPT !.newCatalog = bucket.snapshot]
             /\ Goto("swap_catalog")
    <2>1. files.newMetadata = refresh.target /\ refresh.target \in Catalogs
          /\ files.metadata <= refresh.target
      BY DEF Inv, ClientIsBehind, FetchSnapshot, At
    <2>2. /\ files'.catalog = files.catalog /\ files'.metadata = files.metadata
          /\ files'.newCatalog = refresh.target /\ files'.newMetadata = refresh.target
          /\ refresh'.pc = "swap_catalog" /\ refresh'.target = refresh.target
          /\ refresh'.local = refresh.local /\ plans' = plans
      BY <1>2, <2>1 DEF Inv, TypeOK, Goto, FetchSnapshot, publisherVars
    <2>3. TypeOK'
      BY <1>2 DEF Inv, TypeOK, Goto, FetchSnapshot, RefreshLabels, publisherVars
    <2>4. SwapsOneRelease' /\ CurrentIsTrue' /\ ClientIsBehind'
      BY <2>1, <2>2 DEF Inv, SwapsOneRelease, CurrentIsTrue, ClientIsBehind, Reached, At
    <2> QED BY <2>3, <2>4, PublisherUntouched DEF Inv, FetchSnapshot
  <1> QED BY <1>1, <1>2 DEF FetchSnapshot, Verified

(* The catalog goes in before the metadata.  A plan that calls the old     *)
(* metadata current leads to that very release, which the target, being    *)
(* reached and not older, then is.                                         *)
LEMMA SwapCatalogGood == ASSUME Inv, SwapCatalog PROVE Inv'
  <1>1. /\ files.newCatalog = refresh.target /\ files.newMetadata = refresh.target
        /\ refresh.target \in Catalogs /\ files.metadata <= refresh.target
        /\ Reached(refresh.target)
    BY DEF Inv, ClientIsBehind, SwapsOneRelease, SwapCatalog, At
  <1>2. /\ files'.catalog = refresh.target /\ files'.metadata = files.metadata
        /\ files'.newMetadata = refresh.target
        /\ refresh'.pc = "swap_metadata" /\ refresh'.target = refresh.target
        /\ refresh'.local = refresh.local /\ plans' = plans
    BY <1>1 DEF Inv, TypeOK, Goto, SwapCatalog, publisherVars
  <1>3. TypeOK'
    BY <1>1 DEF Inv, TypeOK, Goto, SwapCatalog, RefreshLabels, publisherVars
  <1>4. CurrentIsTrue'
    <2> SUFFICES ASSUME NEW r \in plans, r.mode = "current", r.key = files.metadata
                 PROVE  refresh.target = files.metadata
      BY <1>2 DEF CurrentIsTrue
    <2>1. refresh.target <= r.target
      BY <1>1 DEF Reached, Catalogs, None
    <2>2. r.target = files.metadata
      BY DEF Inv, PlansAgree
    <2> QED BY <1>1, <2>1, <2>2, ClientTypes DEF Inv
  <1>5. SwapsOneRelease' /\ ClientIsBehind'
    BY <1>1, <1>2 DEF Inv, SwapsOneRelease, ClientIsBehind, Reached, At
  <1> QED BY <1>3, <1>4, <1>5, PublisherUntouched DEF Inv, SwapCatalog

LEMMA SwapMetadataGood == ASSUME Inv, SwapMetadata PROVE Inv'
  <1>1. /\ files.catalog = refresh.target /\ files.newMetadata = refresh.target
        /\ refresh.target \in Catalogs /\ Reached(refresh.target)
    BY DEF Inv, ClientIsBehind, SwapsOneRelease, SwapMetadata, At
  <1>2. /\ files'.catalog = refresh.target /\ files'.metadata = refresh.target
        /\ refresh' = Asleep /\ plans' = plans
    BY <1>1 DEF Inv, TypeOK, Return, Cleared, SwapMetadata, publisherVars
  <1>3. TypeOK'
    BY <1>1 DEF Inv, TypeOK, Return, Cleared, Asleep, SwapMetadata, RefreshLabels, publisherVars
  <1>4. SwapsOneRelease' /\ CurrentIsTrue' /\ ClientIsBehind'
    BY <1>1, <1>2 DEF Inv, SwapsOneRelease, CurrentIsTrue, ClientIsBehind, Reached, At, Asleep
  <1> QED BY <1>3, <1>4, PublisherUntouched DEF Inv, SwapMetadata

LEMMA RefreshFailsGood == ASSUME Inv, RefreshFails PROVE Inv'
  <1>1. failures' \in 0..MaxFailures
    BY BoundsAssumption DEF Inv, TypeOK, RefreshFails
  <1> QED BY <1>1, ReturnGood DEF RefreshFails

LEMMA PatchFailsGood == ASSUME Inv, PatchFails PROVE Inv'
  <1>1. failures' \in 0..MaxFailures
    BY BoundsAssumption DEF Inv, TypeOK, PatchFails
  <1> QED BY <1>1, GivenUpGood DEF PatchFails

LEMMA RefreshDiesGood == ASSUME Inv, RefreshDies PROVE Inv'
  <1>1. failures' \in 0..MaxFailures
    BY BoundsAssumption DEF Inv, TypeOK, RefreshDies
  <1>2. /\ files'.catalog = files.catalog /\ files'.metadata = files.metadata
        /\ refresh' = Asleep /\ plans' = plans
    BY DEF Inv, TypeOK, RefreshDies, publisherVars
  <1>3. files' \in [catalog : Catalogs \cup {None}, metadata : Catalogs \cup {None},
                    newCatalog : Catalogs \cup {None, Junk},
                    newMetadata : Catalogs \cup {None, Junk}]
    BY DEF Inv, TypeOK, RefreshDies
  <1>4. TypeOK'
    BY <1>1, <1>3 DEF Inv, TypeOK, RefreshDies, Asleep, RefreshLabels, publisherVars
  <1>5. SwapsOneRelease' /\ CurrentIsTrue' /\ ClientIsBehind'
    BY <1>2 DEF Inv, SwapsOneRelease, CurrentIsTrue, ClientIsBehind, Reached, At, Asleep
  <1> QED BY <1>4, <1>5, PublisherUntouched DEF Inv, RefreshDies
----------------------------------------------------------------------------
(* Every step of either program keeps the invariant.                       *)
LEMMA StepGood == ASSUME Inv, [Next]_vars PROVE Inv'
  <1>1. ASSUME PublisherStep, UNCHANGED <<files, refresh>> PROVE Inv'
    BY <1>1, BuildGood, CompareGood, UploadPatchGood, SkipPatchGood, UploadSnapshotGood,
       UploadMetadataGood, PublishPlansGood DEF PublisherStep
  <1>2. ASSUME RunFails, UNCHANGED <<files, refresh>> PROVE Inv'
    BY <1>2, RunFailsGood
  <1>3. ASSUME RefreshStep PROVE Inv'
    BY <1>3, StartRefreshGood, SelectGood, ApplyPatchGood, FallbackGood, FetchMetadataGood,
       FetchSnapshotGood, SwapCatalogGood, SwapMetadataGood DEF RefreshStep
  <1>4. CASE RefreshFails \/ PatchFails \/ RefreshDies
    BY <1>4, RefreshFailsGood, PatchFailsGood, RefreshDiesGood
  <1>5. CASE UNCHANGED vars
    <2>1. TypeOK'
      BY <1>5 DEF Inv, TypeOK, vars
    <2> QED BY <2>1, <1>5, PublisherUntouched, ClientUntouched DEF Inv, vars, publisherVars
  <1> QED BY <1>1, <1>2, <1>3, <1>4, <1>5 DEF Next, PublisherNext, RefreshNext

(* In every state that publisher and client can reach together, each has   *)
(* gone as far as its own steps, in their order, have taken it.            *)
THEOREM Invariance == Spec => []Inv
  BY InitGood, StepGood, PTL DEF Spec

(* Distribution.tla's variables have their types.                          *)
THEOREM DistributionTyped == Spec => []TypeOK
  <1>1. Inv => TypeOK
    BY DEF Inv
  <1> QED BY <1>1, Invariance, PTL

(* publisher.go and the workflow announce nothing that is not in the store *)
(* yet, whatever run dies where and whatever the next run builds.          *)
THEOREM PublishedInOrder == Spec => []AnnouncedIsAvailable
  <1>1. Inv => AnnouncedIsAvailable
    BY DEF Inv
  <1> QED BY <1>1, Invariance, PTL

(* refresh_catalog swaps in the bytes and the metadata of one release, the *)
(* one that it was told, whatever is published between its downloads.      *)
THEOREM OneReleaseSwapped == Spec => []SwapsOneRelease
  <1>1. Inv => SwapsOneRelease
    BY DEF Inv
  <1> QED BY <1>1, Invariance, PTL

(* A client whose metadata the worker calls current has that catalog, for  *)
(* a swap that was cut in two never leaves metadata ahead of the catalog.  *)
THEOREM CurrentCatalogIsTrue == Spec => []CurrentIsTrue
  <1>1. Inv => CurrentIsTrue
    BY DEF Inv
  <1> QED BY <1>1, Invariance, PTL
=============================================================================
