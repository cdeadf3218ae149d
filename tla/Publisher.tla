----------------------------- MODULE Publisher -----------------------------
(***************************************************************************)
(* How a catalog becomes a release: the nightly workflow builds a catalog  *)
(* and the publisher uploads it to the object store and then has the table *)
(* of update plans in D1 replaced.  The update worker answers clients by   *)
(* that table alone.  A run may die between any two of its steps; the next *)
(* one starts from what the store then holds.                              *)
(*                                                                         *)
(* A catalog is identified with its hash, and hashes are numbered in the   *)
(* order in which catalogs are first built.                                *)
(***************************************************************************)
EXTENDS Integers

CONSTANTS
  MaxBuild,     \* bound: how many different catalogs the workflow builds
  MaxFailures   \* bound: how many runs and refreshes fail or are killed

ASSUME BoundsAssumption == MaxBuild \in Nat /\ MaxFailures \in Nat

VARIABLES
  bucket,     \* the object store: the snapshot, metadata.json, the patches
  plans,      \* the table update_plans
  run,        \* the workflow run in progress
  built,      \* the newest catalog built so far
  failures    \* failures so far, for the bound

publisherVars == <<bucket, plans, run, built>>

Catalogs == 1..MaxBuild

None == 0     \* no such file or object, or an empty hash

Patches == [from : Catalogs, to : Catalogs, base : Catalogs]

NoPatch == [from |-> None, to |-> None, base |-> None]

(* A synthetic row is the one keyed "full:<hash>": no client matches it.   *)
Rows == [key : Catalogs, synthetic : BOOLEAN, mode : {"current", "full", "patch"},
         target : Catalogs, latest : BOOLEAN, patch : Patches \cup {NoPatch}]

RunLabels == {"idle", "compare", "candidate", "snapshot", "metadata", "plans"}

Resting == [pc |-> "idle", build |-> None, remote |-> None, patch |-> NoPatch]

PublisherInit ==
  /\ bucket = [snapshot |-> None, current |-> None, patches |-> {}]
  /\ plans = {}
  /\ run = Resting
  /\ built = None
  /\ failures = 0
----------------------------------------------------------------------------
(* The crawler and the parser produce a catalog.  Each build stamps its    *)
(* rows anew, so that no released catalog comes back once there is a newer *)
(* one; what was built and never released, or the released one, may.       *)
Build ==
  /\ run.pc = "idle"
  /\ \E c \in Catalogs :
       /\ bucket.current <= c /\ c <= built + 1
       /\ run' = [Resting EXCEPT !.pc = "compare", !.build = c]
       /\ built' = IF c > built THEN c ELSE built
  /\ UNCHANGED <<bucket, plans, failures>>

(* publish reads the remote metadata: the same hash ends the run.          *)
Compare ==
  /\ run.pc = "compare"
  /\ run' = IF bucket.current = run.build
            THEN Resting
            ELSE [run EXCEPT !.remote = bucket.current,
                             !.pc = IF bucket.current = None THEN "snapshot" ELSE "candidate"]
  /\ UNCHANGED <<bucket, plans, built, failures>>

(* The patch is the difference to the snapshot in the store, published for *)
(* clients at the remote metadata's hash.  Its key is made of both hashes. *)
UploadPatch ==
  LET p == [from |-> run.remote, to |-> run.build, base |-> bucket.snapshot] IN
  /\ run.pc = "candidate"
  /\ run' = [run EXCEPT !.patch = p, !.pc = "snapshot"]
  /\ bucket' = [bucket EXCEPT !.patches =
                  {q \in @ : q.from # p.from \/ q.to # p.to} \cup {p}]
  /\ UNCHANGED <<plans, built, failures>>

(* The rows drifted, the patch is too large, or it could not be made.      *)
SkipPatch ==
  /\ run.pc = "candidate"
  /\ run' = [run EXCEPT !.pc = "snapshot"]
  /\ UNCHANGED <<bucket, plans, built, failures>>

(* Mutant of UploadSnapshot: the error of a failed upload is only logged.  *)
UploadSnapshotOrNot ==
  /\ run.pc = "snapshot"
  /\ run' = [run EXCEPT !.pc = "metadata"]
  /\ bucket' \in {bucket, [bucket EXCEPT !.snapshot = run.build]}
  /\ UNCHANGED <<plans, built, failures>>

(* uploadObjects: the snapshot is replaced first, the metadata after it.   *)
UploadSnapshot ==
  /\ run.pc = "snapshot"
  /\ run' = [run EXCEPT !.pc = "metadata"]
  /\ bucket' = [bucket EXCEPT !.snapshot = run.build]
  /\ UNCHANGED <<plans, built, failures>>

UploadMetadata ==
  /\ run.pc = "metadata"
  /\ run' = [run EXCEPT !.pc = "plans"]
  /\ bucket' = [bucket EXCEPT !.current = run.build]
  /\ UNCHANGED <<plans, built, failures>>

FullRow(key, synthetic, target) ==
  [key |-> key, synthetic |-> synthetic, mode |-> "full", target |-> target,
   latest |-> TRUE, patch |-> NoPatch]

CurrentRow(c) ==
  [key |-> c, synthetic |-> FALSE, mode |-> "current", target |-> c,
   latest |-> FALSE, patch |-> NoPatch]

PatchRow(p) ==
  [key |-> p.from, synthetic |-> FALSE, mode |-> "patch", target |-> p.to,
   latest |-> FALSE, patch |-> p]

(* buildUpdatePlanRows.                                                    *)
PlanRows(current, previous, patch) ==
  IF previous = None THEN {FullRow(current, FALSE, current)}
  ELSE {CurrentRow(current)}
       \cup IF patch = NoPatch THEN {FullRow(previous, FALSE, current)}
            ELSE {FullRow(current, TRUE, current), PatchRow(patch)}

(* The last steps of the workflow execute the SQL that the publisher has   *)
(* written: the old rows go and the new ones come in one transaction.      *)
PublishPlans ==
  /\ run.pc = "plans"
  /\ plans' = PlanRows(run.build, run.remote, run.patch)
  /\ run' = Resting
  /\ UNCHANGED <<bucket, built, failures>>

(* A step fails, which ends the workflow, or the runner dies.              *)
RunFails ==
  /\ run.pc # "idle"
  /\ failures < MaxFailures
  /\ run' = Resting
  /\ failures' = failures + 1
  /\ UNCHANGED <<bucket, plans, built>>

PublisherStep ==
  Build \/ Compare \/ UploadPatch \/ SkipPatch \/ UploadSnapshot
    \/ UploadMetadata \/ PublishPlans
----------------------------------------------------------------------------
(* The update worker's answers, as the rows that they are made from.       *)

LatestFull == {r \in plans : r.latest /\ r.mode = "full"}

PlanFor(c) == {r \in plans : ~r.synthetic /\ r.key = c}

(* None, where there is no row at all, is an HTTP 500.                     *)
Selection(c) == IF PlanFor(c) = {} THEN LatestFull ELSE PlanFor(c)
=============================================================================
