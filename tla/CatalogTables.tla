----------------------------- MODULE CatalogTables -----------------------------
(***************************************************************************)
(* The catalog database as a value: catalog_packages, catalog_installers   *)
(* and the full-text index over the packages, and what the parser's        *)
(* statements do to them (infra/parser/src/sqlite.rs over                  *)
(* infra/parser/schema/catalog.sql).  catalog_packages_raw follows its     *)
(* package and is part of its content.                                     *)
(***************************************************************************)
EXTENDS Integers, FiniteSets

CONSTANTS
    Ids,          \* package ids, numbered in the order of their text
    Contents,     \* what a package's row, its raw record and its installers' lists may hold
    Trimmed,      \* a content without the lists: platform, commands, protocols,
                  \* file_extensions, capabilities and env_add_path
    Offers,       \* the installers of a content, by their canonical keys
    MaxRowid,     \* bound: rowids of packages
    None          \* the absent value

ASSUME TablesAssumption ==
    /\ Ids \subseteq Nat /\ IsFiniteSet(Ids)
    /\ Trimmed \in [Contents -> Contents]
    /\ Offers \in [Contents -> SUBSET Nat]
    /\ \A c \in Contents : Trimmed[Trimmed[c]] = Trimmed[c]
    /\ \A c \in Contents : IsFiniteSet(Offers[c]) /\ Offers[Trimmed[c]] = Offers[c]
    /\ MaxRowid \in Nat
    /\ None \notin Contents
    /\ None \notin [rowid : Nat, content : Contents, stamp : Nat]

--------------------------------------------------------------------------------
(* Rows. *)

PackageRows == [rowid : Nat, content : Contents, stamp : Nat]
InstallerRows == [id : Nat, pkg : Ids, key : Nat]

\* The lists of an installer are kept apart from its row: <<id, the content they
\* were written from>>, and nothing where they are NULL.
Databases == [pkgs  : [Ids -> PackageRows \union {None}],
              inst  : SUBSET InstallerRows,
              lists : SUBSET (Nat \X Contents),
              fts   : SUBSET (Nat \X Contents),
              seq   : Nat]

ASSUME AbsentAssumption == None \notin Databases

EmptyDb == [pkgs |-> [i \in Ids |-> None], inst |-> {}, lists |-> {}, fts |-> {}, seq |-> 0]

Held(db) == {i \in Ids : db.pkgs[i] # None}
Rowids(db) == {db.pkgs[i].rowid : i \in Held(db)}

\* SQLite gives a new row the rowid after the largest in use.  The key of
\* catalog_packages is its text id, so a rowid that was freed may come back.
IsNextRowid(db, r) ==
    /\ \A i \in Held(db) : db.pkgs[i].rowid < r
    /\ r = 1 \/ r - 1 \in Rowids(db)

\* What the triggers keep in the index for one package.
Indexed(db, i) == {<<db.pkgs[i].rowid, db.pkgs[i].content>>}

\* The lists without those of the installers that go.
ListsBut(db, gone) == {l \in db.lists : \A x \in gone : x.id # l[1]}

--------------------------------------------------------------------------------
(* CatalogWriter's statements. *)

\* PACKAGE_UPSERT and RAW_UPSERT, with the triggers ai and au.
UpsertPackage(db, i, c, day, r) ==
    LET old == db.pkgs[i]
        row == [rowid |-> IF old = None THEN r ELSE old.rowid, content |-> c, stamp |-> day]
    IN [db EXCEPT
          !.pkgs[i] = row,
          !.fts = (IF old = None THEN db.fts ELSE db.fts \ Indexed(db, i))
                    \union {<<row.rowid, c>>}]

\* Mutant: the installers of a package are deleted and inserted anew.
ReinsertInstallers(db, i, c) ==
    LET NewRow(k) == [id |-> db.seq + Cardinality({j \in Offers[c] : j <= k}), pkg |-> i, key |-> k]
        rows == {NewRow(k) : k \in Offers[c]}
    IN [db EXCEPT
          !.inst = {x \in db.inst : x.pkg # i} \union rows,
          !.lists = ListsBut(db, {x \in db.inst : x.pkg = i}) \union {<<x.id, c>> : x \in rows},
          !.seq = db.seq + Cardinality(Offers[c])]

\* sync_installers: an installer whose canonical key is known keeps its row and
\* gets the new lists, the others are inserted in the order of
\* compare_installers, and what is no longer offered is deleted.  AUTOINCREMENT
\* never gives an id twice.
SyncInstallers(db, i, c) ==
    LET known == {x \in db.inst : x.pkg = i}
        new == Offers[c] \ {x.key : x \in known}
        NewRow(k) == [id |-> db.seq + Cardinality({j \in new : j <= k}), pkg |-> i, key |-> k]
        rows == {x \in known : x.key \in Offers[c]} \union {NewRow(k) : k \in new}
    IN [db EXCEPT
          !.inst = (db.inst \ known) \union rows,
          !.lists = ListsBut(db, known) \union {<<x.id, c>> : x \in rows},
          !.seq = db.seq + Cardinality(new)]

\* CatalogWriter::write_package
WritePackage(db, i, c, day, r) ==
    SyncInstallers(UpsertPackage(db, i, c, day, r), i, c)

\* Mutant: no trigger for deletions.
PruneRowsAlone(db, seen) ==
    [db EXCEPT
       !.pkgs = [i \in Ids |-> IF i \in seen THEN db.pkgs[i] ELSE None],
       !.inst = {x \in db.inst : x.pkg \in seen},
       !.lists = ListsBut(db, {x \in db.inst : x.pkg \notin seen})]

\* PRUNE_STALE_PACKAGES, with the cascade to the installers and the trigger ad.
Prune(db, seen) ==
    [db EXCEPT
       !.pkgs = [i \in Ids |-> IF i \in seen THEN db.pkgs[i] ELSE None],
       !.inst = {x \in db.inst : x.pkg \in seen},
       !.lists = ListsBut(db, {x \in db.inst : x.pkg \notin seen}),
       !.fts = db.fts \ UNION {Indexed(db, i) : i \in Held(db) \ seen}]

--------------------------------------------------------------------------------
(* What the tables owe each other. *)

\* The index has exactly one entry for each package: its text under its rowid.
IndexMatches(db) == db.fts = UNION {Indexed(db, i) : i \in Held(db)}

\* No two packages share a rowid.
RowidsAreKeys(db) ==
    \A i, j \in Held(db) : db.pkgs[i].rowid = db.pkgs[j].rowid => i = j

\* No two installers share an id, and no package has one key twice.
InstallersAreKeys(db) ==
    \A x, y \in db.inst : (x.id = y.id \/ (x.pkg = y.pkg /\ x.key = y.key)) => x = y

\* Every package has the installers of its content with the lists of that, and no
\* installer is left without its package.
InstallersMatch(db) ==
    /\ {<<x.pkg, x.key>> : x \in db.inst} =
          UNION {{i} \X Offers[db.pkgs[i].content] : i \in Held(db)}
    /\ db.lists = {<<x.id, db.pkgs[x.pkg].content>> : x \in db.inst}
================================================================================
