------------------------------ MODULE CatalogPatch -----------------------------
(***************************************************************************)
(* The patch between two catalogs: how the publisher finds that their rows *)
(* have drifted apart, what it writes otherwise                            *)
(* (infra/publisher/internal/publisher/release_artifacts.go), and what     *)
(* those statements do to the tables they are executed on.                 *)
(***************************************************************************)
EXTENDS CatalogTables, FiniteSetsExt

\* driftedPackageIDs: a package under another rowid in the other catalog.
DriftedPackages(prev, cur) ==
    {i \in Held(prev) \intersect Held(cur) : prev.pkgs[i].rowid # cur.pkgs[i].rowid}

\* driftedInstallerIDs: an installer under another id.
DriftedInstallers(prev, cur) ==
    {y \in cur.inst : \E x \in prev.inst : x.pkg = y.pkg /\ x.key = y.key /\ x.id # y.id}

\* errCatalogRowIDDrift: no patch is made.
Drifted(prev, cur) == DriftedPackages(prev, cur) # {} \/ DriftedInstallers(prev, cur) # {}

\* loadPackageRows: what the publisher selects, compares and writes of a row, which
\* is not its lists.  Of the installers it knows no lists either.
Published(row) == IF row = None THEN None ELSE [row EXCEPT !.content = Trimmed[row.content]]

\* An installer's id is one of its package's in the other catalog.
Known(x, db) == \E y \in db.inst : y.id = x.id /\ y.pkg = x.pkg

\* buildCatalogPatchSQLFromSnapshots.  A package that is new or not equal, its
\* rowid and its stamps included, is written with all its installers; of the
\* others only the installers that differ are.
PatchBetween(prev, cur) ==
    LET changed == {i \in Held(cur) : Published(cur.pkgs[i]) # Published(prev.pkgs[i])}
        kept == Held(cur) \ changed
    IN [rows    |-> {<<i, Published(cur.pkgs[i])>> : i \in changed},
        inst    |-> {x \in cur.inst : x.pkg \in changed \/ ~Known(x, prev)},
        updated |-> {x \in cur.inst : x.pkg \in kept /\ Known(x, prev) /\ x \notin prev.inst},
        dropped |-> {x \in prev.inst : x.pkg \in kept /\ ~Known(x, cur)},
        removed |-> Held(prev) \ Held(cur)]

--------------------------------------------------------------------------------
(* The statements, as SQLite executes them with foreign_keys on and          *)
(* recursive_triggers off.                                                   *)

\* Mutant: foreign_keys off, so that nothing cascades.
ReplaceRowAlone(db, i, row) ==
    LET gone == {j \in Held(db) : j = i \/ db.pkgs[j].rowid = row.rowid}
    IN [db EXCEPT
          !.pkgs = [j \in Ids |-> IF j = i THEN row ELSE IF j \in gone THEN None ELSE db.pkgs[j]],
          !.fts = db.fts \union {<<row.rowid, row.content>>}]

\* INSERT OR REPLACE INTO catalog_packages: the rows it conflicts with, by id or
\* by rowid, go with their installers, and no delete trigger fires for them.  The
\* columns that the statement does not name are NULL in the new row.
ReplacePackage(db, i, row) ==
    LET gone == {j \in Held(db) : j = i \/ db.pkgs[j].rowid = row.rowid}
    IN [db EXCEPT
          !.pkgs = [j \in Ids |-> IF j = i THEN row ELSE IF j \in gone THEN None ELSE db.pkgs[j]],
          !.inst = {x \in db.inst : x.pkg \notin gone},
          !.lists = ListsBut(db, {x \in db.inst : x.pkg \in gone}),
          !.fts = db.fts \union {<<row.rowid, row.content>>}]

\* INSERT OR REPLACE INTO catalog_installers, conflicting by id or by key: the new
\* rows have no lists.
ReplaceInstallers(db, new) ==
    LET gone == {x \in db.inst : \E y \in new : x.id = y.id \/ (x.pkg = y.pkg /\ x.key = y.key)}
    IN [db EXCEPT !.inst = (db.inst \ gone) \union new, !.lists = ListsBut(db, gone)]

\* UPDATE catalog_installers: by id, and the lists stay.  Where no installer has
\* drifted, no other has the new key.
UpdateInstallers(db, new) ==
    LET old == {x \in db.inst : \E y \in new : x.id = y.id}
    IN [db EXCEPT !.inst = (db.inst \ old) \union {y \in new : \E x \in old : x.id = y.id}]

\* DELETE FROM catalog_installers, DELETE FROM catalog_packages.
DropInstallers(db, gone) ==
    LET old == {x \in db.inst : \E y \in gone : x.id = y.id}
    IN [db EXCEPT !.inst = db.inst \ old, !.lists = ListsBut(db, old)]
RemovePackages(db, ids) == Prune(db, Ids \ ids)

\* The statements of one package, which the patch has in the order of the ids.
ApplyTo(db, patch, i) ==
    LET written == {p \in patch.rows : p[1] = i}
        upserted == IF written = {} THEN db
                    ELSE ReplacePackage(db, i, (CHOOSE p \in written : TRUE)[2])
        inserted == ReplaceInstallers(upserted, {x \in patch.inst : x.pkg = i})
        updated == UpdateInstallers(inserted, {x \in patch.updated : x.pkg = i})
    IN DropInstallers(updated, {x \in patch.dropped : x.pkg = i})

\* The database with the statements of the packages below n executed.
Applied(db, patch) ==
    LET after[n \in Nat] ==
            IF n = 0 THEN db
            ELSE IF n - 1 \in Ids THEN ApplyTo(after[n - 1], patch, n - 1)
            ELSE after[n - 1]
    IN after

ApplyPatch(db, patch) ==
    RemovePackages(Applied(db, patch)[Max(Ids \union {0}) + 1], patch.removed)

\* What a patch carries of the rows: all that the publisher knows, which are not the
\* lists, the index and the next installer id.
SameRows(a, b) ==
    /\ \A i \in Ids : Published(a.pkgs[i]) = Published(b.pkgs[i])
    /\ a.inst = b.inst
================================================================================
