------------------------------ MODULE NightlyProofs -----------------------------
(***************************************************************************)
(* Theorems of the nightly workflow, for any packages, buckets, manifests  *)
(* and number of runs: types, the tables of every catalog that is kept,    *)
(* the ids a build carries over, what a published catalog holds, and what  *)
(* the patch from the one before makes of that.                            *)
(***************************************************************************)
EXTENDS Nightly, NumberTheorems

(* Every id ever given is at most the sequence's value.                    *)
IdsAreDrawn(db) == \A x \in db.inst : x.id <= db.seq

(* Only installers have lists.                                             *)
ListsArePlaced(db) == \A l \in db.lists : \E x \in db.inst : x.id = l[1]

Good(db) == /\ db \in Databases /\ IdsAreDrawn(db) /\ ListsArePlaced(db)
            /\ IndexMatches(db) /\ RowidsAreKeys(db) /\ InstallersAreKeys(db)

(* A catalog by its tables.                                                *)
LEMMA DbFields ==
  ASSUME NEW db \in Databases
  PROVE  /\ db.pkgs \in [Ids -> PackageRows \union {None}] /\ db.inst \in SUBSET InstallerRows
         /\ db.lists \in SUBSET (Nat \X Contents)
         /\ db.fts \in SUBSET (Nat \X Contents) /\ db.seq \in Nat
         /\ db = [pkgs |-> db.pkgs, inst |-> db.inst, lists |-> db.lists, fts |-> db.fts,
                  seq |-> db.seq]
  BY DEF Databases

(* What an installer's lists are from: one content, or nothing.            *)
ListsOf(db, x) == {c \in Contents : <<x.id, c>> \in db.lists}

LEMMA EmptyGood == Good(EmptyDb)
  BY DEF Good, EmptyDb, Databases, IdsAreDrawn, ListsArePlaced, IndexMatches, RowidsAreKeys,
         InstallersAreKeys, Held, Indexed
--------------------------------------------------------------------------------
(* The place of a key among the new ones tells it from the others.         *)
LEMMA Rank ==
  ASSUME NEW S \in SUBSET Nat, IsFiniteSet(S), NEW k \in S
  PROVE  Cardinality({j \in S : j <= k}) \in 1..Cardinality(S)
  <1> DEFINE T == {j \in S : j <= k}
  <1>1. T \in SUBSET S /\ k \in T
    <2>1. k \in Nat
      OBVIOUS
    <2>2. k <= k
      BY <2>1
    <2> QED BY <2>2
  <1>2. IsFiniteSet(T) /\ Cardinality(T) <= Cardinality(S)
    BY <1>1, FS_Subset
  <1>3. Cardinality(T) \in Nat /\ Cardinality(S) \in Nat
    BY <1>2, FS_CardinalityType
  <1>4. Cardinality(T) # 0
    BY <1>1, <1>2, FS_EmptySet
  <1> QED BY <1>2, <1>3, <1>4

LEMMA RankOrder ==
  ASSUME NEW S \in SUBSET Nat, IsFiniteSet(S), NEW k \in S, NEW m \in S, k < m
  PROVE  Cardinality({j \in S : j <= k}) < Cardinality({j \in S : j <= m})
  <1> DEFINE A == {j \in S : j <= k}
             B == {j \in S : j <= m}
  <1>1. B \in SUBSET S /\ m \in B /\ A \in SUBSET (B \ {m})
    <2>1. S \in SUBSET Nat /\ k \in Nat /\ m \in Nat
      OBVIOUS
    <2>2. m <= m /\ ~(m <= k)
      BY <2>1
    <2>3. \A j \in Nat : j <= k => j <= m
      BY <2>1
    <2> QED BY <2>1, <2>2, <2>3
  <1>2. IsFiniteSet(B)
    BY <1>1, FS_Subset
  <1>3. IsFiniteSet(B \ {m}) /\ Cardinality(B \ {m}) = Cardinality(B) - 1
    BY <1>1, <1>2, FS_RemoveElement
  <1>4. Cardinality(A) <= Cardinality(B \ {m}) /\ IsFiniteSet(A)
    BY <1>1, <1>3, FS_Subset
  <1>5. Cardinality(A) \in Nat /\ Cardinality(B) \in Nat
    BY <1>2, <1>4, FS_CardinalityType
  <1> QED BY <1>3, <1>4, <1>5

LEMMA RankIsKey ==
  ASSUME NEW S \in SUBSET Nat, IsFiniteSet(S), NEW k \in S, NEW m \in S,
         Cardinality({j \in S : j <= k}) = Cardinality({j \in S : j <= m})
  PROVE  k = m
  <1>1. Cardinality({j \in S : j <= k}) \in Nat /\ Cardinality({j \in S : j <= m}) \in Nat
    <2>1. Cardinality(S) \in Nat
      BY FS_CardinalityType
    <2> QED BY <2>1, Rank
  <1>2. ~(k < m) /\ ~(m < k)
    BY <1>1, RankOrder
  <1> QED BY <1>2
--------------------------------------------------------------------------------
(* An upsert writes one package, keeps its rowid if it has one, and leaves *)
(* the installers alone.                                                   *)
LEMMA UpsertEffect ==
  ASSUME NEW db, Good(db), NEW i \in Ids, NEW c \in Contents, NEW d \in Nat, NEW r \in Nat,
         IsNextRowid(db, r), NEW new, new = UpsertPackage(db, i, c, d, r)
  PROVE  /\ Good(new) /\ new.inst = db.inst /\ new.lists = db.lists /\ new.seq = db.seq
         /\ Held(new) = Held(db) \union {i} /\ new.pkgs[i].content = c
         /\ \A j \in Held(db) : new.pkgs[j].rowid = db.pkgs[j].rowid
         /\ \A j \in Ids \ {i} : new.pkgs[j] = db.pkgs[j]
  <1> DEFINE old == db.pkgs[i]
             row == [rowid |-> IF old = None THEN r ELSE old.rowid, content |-> c, stamp |-> d]
             fts == (IF old = None THEN db.fts ELSE db.fts \ Indexed(db, i))
                      \union {<<row.rowid, c>>}
  <1>1. /\ db.pkgs \in [Ids -> PackageRows \union {None}] /\ db.inst \in SUBSET InstallerRows
        /\ db.lists \in SUBSET (Nat \X Contents)
        /\ db.fts \in SUBSET (Nat \X Contents) /\ db.seq \in Nat
        /\ db = [pkgs |-> db.pkgs, inst |-> db.inst, lists |-> db.lists, fts |-> db.fts,
                 seq |-> db.seq]
    BY DbFields DEF Good
  <1>2. row \in PackageRows /\ row # None /\ row.content = c
    <2>1. old = None \/ old.rowid \in Nat
      BY <1>1 DEF PackageRows
    <2> QED BY <2>1, TablesAssumption DEF PackageRows
  <1>3. new = [db EXCEPT !.pkgs[i] = row, !.fts = fts]
    BY DEF UpsertPackage
  <1>4. /\ new.pkgs = [db.pkgs EXCEPT ![i] = row] /\ new.inst = db.inst /\ new.fts = fts
        /\ new.seq = db.seq /\ new.lists = db.lists
        /\ new = [pkgs |-> new.pkgs, inst |-> new.inst, lists |-> new.lists, fts |-> new.fts,
                  seq |-> new.seq]
    BY <1>1, <1>3
  <1>5. /\ new.pkgs[i] = row /\ \A j \in Ids \ {i} : new.pkgs[j] = db.pkgs[j]
        /\ new.pkgs \in [Ids -> PackageRows \union {None}]
    BY <1>1, <1>2, <1>4
  <1>6. Held(new) = Held(db) \union {i}
    BY <1>2, <1>5 DEF Held
  <1>7. \A j \in Held(db) : new.pkgs[j].rowid = db.pkgs[j].rowid
    BY <1>5 DEF Held
  <1>8. \A j \in Held(db) : db.pkgs[j] \in PackageRows /\ db.pkgs[j].rowid \in Nat
    BY <1>1 DEF Held, PackageRows
  <1>9. \A j \in Held(db) \ {i} : db.pkgs[j].rowid # row.rowid
    <2>1. CASE old = None
      BY <1>8, <2>1 DEF IsNextRowid
    <2>2. CASE old # None
      BY <2>2 DEF Good, RowidsAreKeys, Held
    <2> QED BY <2>1, <2>2
  <1>10. RowidsAreKeys(new)
    BY <1>5, <1>6, <1>9 DEF Good, RowidsAreKeys, Held
  <1>11. IndexMatches(new)
    <2>1. db.fts = {<<db.pkgs[j].rowid, db.pkgs[j].content>> : j \in Held(db)}
      BY DEF Good, IndexMatches, Indexed
    <2>2. fts = {<<db.pkgs[j].rowid, db.pkgs[j].content>> : j \in Held(db) \ {i}}
                  \union {<<row.rowid, c>>}
      <3>1. CASE old = None
        <4>1. i \notin Held(db)
          BY <3>1 DEF Held
        <4> QED BY <2>1, <3>1, <4>1
      <3>2. CASE old # None
        <4>1. \A j \in Held(db) \ {i} : <<db.pkgs[j].rowid, db.pkgs[j].content>> \notin Indexed(db, i)
          BY <1>9, <3>2 DEF Indexed
        <4> QED BY <2>1, <3>2, <4>1 DEF Indexed
      <3> QED BY <3>1, <3>2
    <2>3. \A j \in Held(db) \ {i} : new.pkgs[j] = db.pkgs[j]
      BY <1>5 DEF Held
    <2>4. fts = UNION {Indexed(new, j) : j \in Held(new)}
      BY <1>2, <1>5, <1>6, <2>2, <2>3 DEF Indexed
    <2> QED BY <1>4, <2>4 DEF IndexMatches
  <1>12. fts \in SUBSET (Nat \X Contents)
    <2>1. row.rowid \in Nat
      BY <1>2 DEF PackageRows
    <2> QED BY <1>1, <2>1
  <1>13. new \in Databases /\ IdsAreDrawn(new) /\ ListsArePlaced(new) /\ InstallersAreKeys(new)
    BY <1>1, <1>4, <1>5, <1>12
       DEF Good, Databases, IdsAreDrawn, ListsArePlaced, InstallersAreKeys
  <1> QED BY <1>2, <1>4, <1>5, <1>6, <1>7, <1>10, <1>11, <1>13 DEF Good
--------------------------------------------------------------------------------
(* Afterwards a package has exactly the installers it is given; the ones   *)
(* it had keep their ids, and those of other packages are not touched.     *)
LEMMA SyncEffect ==
  ASSUME NEW db, Good(db), NEW i \in Ids, NEW c \in Contents,
         NEW new, new = SyncInstallers(db, i, c)
  PROVE  /\ Good(new) /\ new.pkgs = db.pkgs
         /\ {x.key : x \in {x \in new.inst : x.pkg = i}} = Offers[c]
         /\ \A x \in new.inst : x.pkg = i => ListsOf(new, x) = {c}
         /\ \A x \in new.inst : x.pkg # i => ListsOf(new, x) = ListsOf(db, x)
         /\ {x \in new.inst : x.pkg # i} = {x \in db.inst : x.pkg # i}
         /\ \A x \in db.inst, y \in new.inst : x.pkg = y.pkg /\ x.key = y.key => x = y
  <1> DEFINE keys == Offers[c]
             known == {x \in db.inst : x.pkg = i}
             fresh == keys \ {x.key : x \in known}
             Place(k) == Cardinality({j \in fresh : j <= k})
             Row(k) == [id |-> db.seq + Place(k), pkg |-> i, key |-> k]
             kept == {x \in db.inst : x.pkg = i => x.key \in keys}
             added == {Row(k) : k \in fresh}
             rows == {x \in known : x.key \in keys} \union added
  <1>1. /\ db.pkgs \in [Ids -> PackageRows \union {None}] /\ db.inst \in SUBSET InstallerRows
        /\ db.lists \in SUBSET (Nat \X Contents)
        /\ db.fts \in SUBSET (Nat \X Contents) /\ db.seq \in Nat
        /\ db = [pkgs |-> db.pkgs, inst |-> db.inst, lists |-> db.lists, fts |-> db.fts,
                 seq |-> db.seq]
    BY DbFields DEF Good
  <1>2. fresh \in SUBSET Nat /\ IsFiniteSet(fresh) /\ Cardinality(fresh) \in Nat
    <2>1. fresh \in SUBSET keys /\ keys \in SUBSET Nat /\ IsFiniteSet(keys)
      BY TablesAssumption
    <2> QED BY <2>1, FS_Subset, FS_CardinalityType
  <1>3. \A k \in fresh : Place(k) \in 1..Cardinality(fresh)
    BY <1>2, Rank
  <1>4. \A k, m \in fresh : Place(k) = Place(m) => k = m
    BY <1>2, RankIsKey
  <1>5. new = [db EXCEPT !.inst = (db.inst \ known) \union rows,
                         !.lists = ListsBut(db, known) \union {<<x.id, c>> : x \in rows},
                         !.seq = db.seq + Cardinality(fresh)]
    BY DEF SyncInstallers
  <1> HIDE DEF Place, fresh, keys
  <1>6. /\ new.pkgs = db.pkgs /\ new.inst = kept \union added /\ new.fts = db.fts
        /\ new.lists = ListsBut(db, known) \union {<<x.id, c>> : x \in rows}
        /\ new.seq = db.seq + Cardinality(fresh)
        /\ new = [pkgs |-> new.pkgs, inst |-> new.inst, lists |-> new.lists, fts |-> new.fts,
                  seq |-> new.seq]
    <2>1. (db.inst \ known) \union rows = kept \union added
      OBVIOUS
    <2> HIDE DEF known, rows, kept, added
    <2> QED BY <1>1, <1>5, <2>1
  <1>7. \A x \in added : /\ x \in InstallerRows /\ x.pkg = i /\ x.key \in fresh
                         /\ x.id = db.seq + Place(x.key)
                         /\ x.id > db.seq /\ x.id <= db.seq + Cardinality(fresh)
    BY <1>1, <1>2, <1>3 DEF InstallerRows
  <1>8. \A x, y \in added : x.id = y.id \/ x.key = y.key => x = y
    <2> SUFFICES ASSUME NEW k \in fresh, NEW m \in fresh,
                        Row(k).id = Row(m).id \/ Row(k).key = Row(m).key
                 PROVE  Row(k) = Row(m)
      OBVIOUS
    <2>1. Place(k) \in Nat /\ Place(m) \in Nat
      BY <1>3
    <2>2. k = m
      BY <1>1, <1>4, <2>1
    <2> QED BY <2>2
  <1>9. \A x \in db.inst : x.id <= db.seq /\ x \in InstallerRows /\ x.id \in Nat
    BY <1>1 DEF Good, IdsAreDrawn, InstallerRows
  <1>10. \A x \in db.inst, y \in added : x.id # y.id /\ ~(x.pkg = y.pkg /\ x.key = y.key)
    <2> SUFFICES ASSUME NEW x \in db.inst, NEW y \in added
                 PROVE  x.id # y.id /\ ~(x.pkg = y.pkg /\ x.key = y.key)
      OBVIOUS
    <2>1. x.id # y.id
      BY <1>1, <1>7, <1>9
    <2>2. ~(x.pkg = y.pkg /\ x.key = y.key)
      BY <1>7 DEF fresh
    <2> QED BY <2>1, <2>2
  <1>11. InstallersAreKeys(new)
    BY <1>6, <1>8, <1>10 DEF InstallersAreKeys, Good
  <1>12. IdsAreDrawn(new)
    BY <1>1, <1>2, <1>6, <1>7, <1>9 DEF IdsAreDrawn
  <1>13. new \in Databases
    <2>1. new.inst \in SUBSET InstallerRows
      BY <1>1, <1>6, <1>7
    <2>2. \A x \in rows : x.id \in Nat
      BY <1>7, <1>9 DEF InstallerRows
    <2>3. new.lists \in SUBSET (Nat \X Contents)
      BY <1>1, <1>6, <2>2 DEF ListsBut
    <2>4. new.seq \in Nat
      BY <1>1, <1>2, <1>6
    <2> HIDE DEF rows, kept, added, known
    <2> QED BY <1>1, <1>6, <2>1, <2>3, <2>4 DEF Databases
  <1>18. rows = {x \in new.inst : x.pkg = i}
    BY <1>6, <1>7
  <1>19. \A l \in ListsBut(db, known) : \E x \in kept : x.id = l[1] /\ x.pkg # i
    BY DEF ListsBut, Good, ListsArePlaced
  <1>20. ListsArePlaced(new)
    <2> SUFFICES ASSUME NEW l \in new.lists PROVE \E x \in new.inst : x.id = l[1]
      BY DEF ListsArePlaced
    <2>1. CASE l \in ListsBut(db, known)
      BY <1>6, <1>19, <2>1
    <2>2. CASE l \notin ListsBut(db, known)
      <3>1. PICK x \in rows : l = <<x.id, c>>
        BY <1>6, <2>2
      <3> QED BY <1>18, <3>1
    <2> QED BY <2>1, <2>2
  <1>21. ASSUME NEW x \in new.inst, x.pkg = i PROVE ListsOf(new, x) = {c}
    <2>1. x \in rows /\ <<x.id, c>> \in new.lists
      BY <1>6, <1>18, <1>21
    <2>2. ASSUME NEW d \in Contents, <<x.id, d>> \in new.lists PROVE d = c
      <3>1. CASE <<x.id, d>> \in ListsBut(db, known)
        <4>1. PICK y \in kept : y.id = x.id /\ y.pkg # i
          BY <1>19, <3>1
        <4> QED BY <1>6, <1>11, <1>21, <4>1 DEF InstallersAreKeys
      <3>2. CASE <<x.id, d>> \notin ListsBut(db, known)
        <4>1. PICK y \in rows : <<x.id, d>> = <<y.id, c>>
          BY <1>6, <2>2, <3>2
        <4> QED BY <4>1
      <3> QED BY <3>1, <3>2
    <2> QED BY <2>1, <2>2 DEF ListsOf
  <1>22. ASSUME NEW x \in new.inst, x.pkg # i PROVE ListsOf(new, x) = ListsOf(db, x)
    <2>1. x \in db.inst /\ x \notin rows
      BY <1>6, <1>7, <1>18, <1>22
    <2>2. \A y \in rows : y.id # x.id
      BY <1>11, <1>18, <2>1 DEF InstallersAreKeys
    <2>3. \A y \in known : y.id # x.id
      BY <1>22, <2>1 DEF Good, InstallersAreKeys
    <2>4. \A d \in Contents : <<x.id, d>> \in new.lists <=> <<x.id, d>> \in db.lists
      <3> HIDE DEF rows, known
      <3>1. \A d \in Contents : <<x.id, d>> \notin {<<y.id, c>> : y \in rows}
        BY <2>2
      <3>2. \A d \in Contents : <<x.id, d>> \in ListsBut(db, known) <=> <<x.id, d>> \in db.lists
        BY <2>3 DEF ListsBut
      <3> QED BY <1>6, <3>1, <3>2
    <2> QED BY <2>4 DEF ListsOf
  <1>14. IndexMatches(new) /\ RowidsAreKeys(new)
    BY <1>6 DEF Good, IndexMatches, RowidsAreKeys, Held, Indexed
  <1>15. {x.key : x \in {x \in new.inst : x.pkg = i}} = keys
    <2>1. ASSUME NEW k \in keys PROVE \E x \in new.inst : x.pkg = i /\ x.key = k
      <3>1. CASE k \in fresh
        <4>1. Row(k) \in new.inst /\ Row(k).pkg = i /\ Row(k).key = k
          BY <1>6, <3>1
        <4> QED BY <4>1
      <3>2. CASE k \notin fresh
        <4>1. PICK x \in db.inst : x.pkg = i /\ x.key = k
          BY <3>2 DEF fresh
        <4> QED BY <1>6, <4>1
      <3> QED BY <3>1, <3>2
    <2>2. \A x \in new.inst : x.pkg = i => x.key \in keys
      BY <1>6, <1>7 DEF fresh
    <2> QED BY <2>1, <2>2
  <1>16. {x \in new.inst : x.pkg # i} = {x \in db.inst : x.pkg # i}
    BY <1>6, <1>7
  <1>17. \A x \in db.inst, y \in new.inst : x.pkg = y.pkg /\ x.key = y.key => x = y
    BY <1>6, <1>10 DEF Good, InstallersAreKeys
  <1> QED BY <1>6, <1>11, <1>12, <1>13, <1>14, <1>15, <1>16, <1>17, <1>20, <1>21, <1>22
         DEF Good, keys
--------------------------------------------------------------------------------
(* Both together, for a package whose line the parser has taken.           *)
LEMMA WriteEffect ==
  ASSUME NEW db, Good(db), NEW i \in Ids, NEW c \in Contents, NEW d \in Nat, NEW r \in Nat,
         IsNextRowid(db, r), NEW new, new = WritePackage(db, i, c, d, r)
  PROVE  /\ Good(new) /\ Held(new) = Held(db) \union {i} /\ new.pkgs[i].content = c
         /\ \A j \in Held(db) : new.pkgs[j].rowid = db.pkgs[j].rowid
         /\ \A j \in Ids \ {i} : new.pkgs[j] = db.pkgs[j]
         /\ {x.key : x \in {x \in new.inst : x.pkg = i}} = Offers[c]
         /\ \A x \in new.inst : x.pkg = i => ListsOf(new, x) = {c}
         /\ \A x \in new.inst : x.pkg # i => ListsOf(new, x) = ListsOf(db, x)
         /\ {x \in new.inst : x.pkg # i} = {x \in db.inst : x.pkg # i}
         /\ \A x \in db.inst, y \in new.inst : x.pkg = y.pkg /\ x.key = y.key => x = y
  <1> DEFINE mid == UpsertPackage(db, i, c, d, r)
  <1>1. /\ Good(mid) /\ mid.inst = db.inst /\ mid.lists = db.lists
        /\ Held(mid) = Held(db) \union {i} /\ mid.pkgs[i].content = c
        /\ \A j \in Held(db) : mid.pkgs[j].rowid = db.pkgs[j].rowid
        /\ \A j \in Ids \ {i} : mid.pkgs[j] = db.pkgs[j]
    BY UpsertEffect
  <1>2. new = SyncInstallers(mid, i, c)
    BY DEF WritePackage
  <1> HIDE DEF mid
  <1>3. /\ Good(new) /\ new.pkgs = mid.pkgs
        /\ {x.key : x \in {x \in new.inst : x.pkg = i}} = Offers[c]
        /\ \A x \in new.inst : x.pkg = i => ListsOf(new, x) = {c}
        /\ \A x \in new.inst : x.pkg # i => ListsOf(new, x) = ListsOf(mid, x)
        /\ {x \in new.inst : x.pkg # i} = {x \in mid.inst : x.pkg # i}
        /\ \A x \in mid.inst, y \in new.inst : x.pkg = y.pkg /\ x.key = y.key => x = y
    BY <1>1, <1>2, SyncEffect
  <1>4. Held(new) = Held(mid) /\ \A x \in new.inst : ListsOf(mid, x) = ListsOf(db, x)
    BY <1>1, <1>3 DEF Held, ListsOf
  <1> QED BY <1>1, <1>3, <1>4

(* What has not been seen goes, from all three tables.                     *)
LEMMA PruneEffect ==
  ASSUME NEW db, Good(db), NEW seen \in SUBSET Ids, NEW new, new = Prune(db, seen)
  PROVE  /\ Good(new) /\ Held(new) = Held(db) \intersect seen
         /\ \A j \in seen : new.pkgs[j] = db.pkgs[j]
         /\ new.inst = {x \in db.inst : x.pkg \in seen}
         /\ \A x \in new.inst : ListsOf(new, x) = ListsOf(db, x)
  <1> DEFINE stale == {x \in db.inst : x.pkg \notin seen}
  <1>1. /\ db.pkgs \in [Ids -> PackageRows \union {None}] /\ db.inst \in SUBSET InstallerRows
        /\ db.lists \in SUBSET (Nat \X Contents)
        /\ db.fts \in SUBSET (Nat \X Contents) /\ db.seq \in Nat
        /\ db = [pkgs |-> db.pkgs, inst |-> db.inst, lists |-> db.lists, fts |-> db.fts,
                 seq |-> db.seq]
    BY DbFields DEF Good
  <1>2. /\ new.pkgs = [j \in Ids |-> IF j \in seen THEN db.pkgs[j] ELSE None]
        /\ new.inst = {x \in db.inst : x.pkg \in seen}
        /\ new.lists = ListsBut(db, stale)
        /\ new.fts = db.fts \ UNION {Indexed(db, j) : j \in Held(db) \ seen}
        /\ new.seq = db.seq
        /\ new = [pkgs |-> new.pkgs, inst |-> new.inst, lists |-> new.lists, fts |-> new.fts,
                  seq |-> new.seq]
    BY <1>1 DEF Prune
  <1>3. Held(new) = Held(db) \intersect seen /\ \A j \in seen : new.pkgs[j] = db.pkgs[j]
    BY <1>2 DEF Held
  <1>4. new.pkgs \in [Ids -> PackageRows \union {None}]
    BY <1>1, <1>2
  <1>5. new \in Databases
    <2>1. new.lists \in SUBSET (Nat \X Contents) /\ new.inst \in SUBSET InstallerRows
      BY <1>1, <1>2 DEF ListsBut
    <2>2. new.fts \in SUBSET (Nat \X Contents) /\ new.seq \in Nat
      BY <1>1, <1>2
    <2> QED BY <1>2, <1>4, <2>1, <2>2 DEF Databases
  <1>6. IndexMatches(new)
    <2>1. db.fts = {<<db.pkgs[j].rowid, db.pkgs[j].content>> : j \in Held(db)}
      BY DEF Good, IndexMatches, Indexed
    <2>2. \A j, k \in Held(db) : db.pkgs[j].rowid = db.pkgs[k].rowid => j = k
      BY DEF Good, RowidsAreKeys
    <2>3. UNION {Indexed(db, j) : j \in Held(db) \ seen} =
            {<<db.pkgs[j].rowid, db.pkgs[j].content>> : j \in Held(db) \ seen}
      BY DEF Indexed
    <2>4. new.fts = {<<db.pkgs[j].rowid, db.pkgs[j].content>> : j \in Held(new)}
      <3>1. \A j \in Held(new) : \A k \in Held(db) \ seen :
               <<db.pkgs[j].rowid, db.pkgs[j].content>> # <<db.pkgs[k].rowid, db.pkgs[k].content>>
        BY <1>3, <2>2
      <3> QED BY <1>2, <1>3, <2>1, <2>3, <3>1
    <2>5. \A j \in Held(new) : new.pkgs[j] = db.pkgs[j]
      BY <1>3
    <2> QED BY <2>4, <2>5 DEF IndexMatches, Indexed
  <1>7. RowidsAreKeys(new) /\ InstallersAreKeys(new) /\ IdsAreDrawn(new)
    BY <1>2, <1>3 DEF Good, RowidsAreKeys, InstallersAreKeys, IdsAreDrawn
  <1>8. ListsArePlaced(new)
    BY <1>2 DEF Good, ListsArePlaced, ListsBut
  <1>9. ASSUME NEW x \in new.inst PROVE ListsOf(new, x) = ListsOf(db, x)
    <2>1. \A y \in stale : y.id # x.id
      BY <1>2 DEF Good, InstallersAreKeys
    <2>2. \A d \in Contents : <<x.id, d>> \in ListsBut(db, stale) <=> <<x.id, d>> \in db.lists
      BY <2>1 DEF ListsBut
    <2> QED BY <1>2, <2>2 DEF ListsOf
  <1> QED BY <1>2, <1>3, <1>5, <1>6, <1>7, <1>8, <1>9 DEF Good
--------------------------------------------------------------------------------
(* The patch between two catalogs.                                         *)

(* What is known of two catalogs one of which patches the other.           *)
Patchable(prev, cur) ==
    /\ Good(prev) /\ InstallersMatch(prev)
    /\ Good(cur) /\ InstallersMatch(cur)
    /\ ~Drifted(prev, cur)

Changed(prev, cur) == {i \in Held(cur) : Published(cur.pkgs[i]) # Published(prev.pkgs[i])}

(* The packages whose rows go when a row is written for one of them.       *)
Evicted(db, i, row) == {j \in Held(db) : j = i \/ db.pkgs[j].rowid = row.rowid}

(* An installer's package is there and offers it, and every offer is met.  *)
LEMMA OffersAreMet ==
  ASSUME NEW db \in Databases, InstallersMatch(db)
  PROVE  /\ \A x \in db.inst : x.pkg \in Held(db) /\ x.key \in Offers[db.pkgs[x.pkg].content]
         /\ \A i \in Held(db) : \A k \in Offers[db.pkgs[i].content] :
               \E x \in db.inst : x.pkg = i /\ x.key = k
  <1>1. ASSUME NEW x \in db.inst
        PROVE  x.pkg \in Held(db) /\ x.key \in Offers[db.pkgs[x.pkg].content]
    <2>1. <<x.pkg, x.key>> \in UNION {{i} \X Offers[db.pkgs[i].content] : i \in Held(db)}
      BY DEF InstallersMatch
    <2> QED BY <2>1
  <1>2. ASSUME NEW i \in Held(db), NEW k \in Offers[db.pkgs[i].content]
        PROVE  \E x \in db.inst : x.pkg = i /\ x.key = k
    <2>1. <<i, k>> \in {i} \X Offers[db.pkgs[i].content]
      OBVIOUS
    <2>2. <<i, k>> \in {<<x.pkg, x.key>> : x \in db.inst}
      BY <2>1 DEF InstallersMatch
    <2> QED BY <2>2
  <1> QED BY <1>1, <1>2

(* What is published of a row is a row, with the same rowid and installers. *)
LEMMA PublishedRow ==
  ASSUME NEW db \in Databases, NEW i \in Ids
  PROVE  /\ (Published(db.pkgs[i]) = None) <=> (i \notin Held(db))
         /\ i \in Held(db) =>
              /\ Published(db.pkgs[i]) \in PackageRows
              /\ Published(db.pkgs[i]).rowid = db.pkgs[i].rowid
              /\ Published(db.pkgs[i]).rowid \in Nat
              /\ Published(db.pkgs[i]).content \in Contents
              /\ Offers[Published(db.pkgs[i]).content] = Offers[db.pkgs[i].content]
              /\ Published(Published(db.pkgs[i])) = Published(db.pkgs[i])
  <1>1. CASE i \notin Held(db)
    BY <1>1 DEF Held, Published
  <1>2. CASE i \in Held(db)
    <2> DEFINE row == db.pkgs[i]
               c == Trimmed[row.content]
    <2>1. row \in PackageRows /\ row # None
      BY <1>2, DbFields DEF Held
    <2>2. c \in Contents /\ Offers[c] = Offers[row.content] /\ Trimmed[c] = c
      BY <2>1, TablesAssumption DEF PackageRows
    <2>3. /\ Published(row) = [rowid |-> row.rowid, content |-> c, stamp |-> row.stamp]
          /\ row.rowid \in Nat /\ row.stamp \in Nat
      BY <2>1 DEF Published, PackageRows
    <2>4. Published(row) \in PackageRows
      BY <2>2, <2>3 DEF PackageRows
    <2>5. Published(row) # None
      BY <2>4, TablesAssumption DEF PackageRows
    <2>6. Published(Published(row)) = Published(row)
      BY <2>2, <2>3, <2>5 DEF Published
    <2> QED BY <1>2, <2>2, <2>3, <2>4, <2>5, <2>6
  <1> QED BY <1>1, <1>2

(* A package that is kept as it is keeps its installers as they are, so    *)
(* that the patch has nothing for it.                                      *)
LEMMA KeptInstallers ==
  ASSUME NEW prev, NEW cur, Patchable(prev, cur),
         NEW i \in Held(cur) \ Changed(prev, cur)
  PROVE  {x \in prev.inst : x.pkg = i} = {x \in cur.inst : x.pkg = i}
  <1>1. /\ prev \in Databases /\ InstallersMatch(prev) /\ cur \in Databases
        /\ InstallersMatch(cur) /\ DriftedInstallers(prev, cur) = {}
    BY DEF Patchable, Good, Drifted
  <1>2. /\ i \in Ids /\ i \in Held(prev) /\ i \in Held(cur)
        /\ Offers[cur.pkgs[i].content] = Offers[prev.pkgs[i].content]
    <2>1. i \in Ids /\ i \in Held(cur) /\ Published(cur.pkgs[i]) = Published(prev.pkgs[i])
      BY DEF Held, Changed
    <2> QED BY <1>1, <2>1, PublishedRow
  <1>3. \A x \in prev.inst, y \in cur.inst : x.pkg = y.pkg /\ x.key = y.key => x = y
    <2> SUFFICES ASSUME NEW x \in prev.inst, NEW y \in cur.inst, x.pkg = y.pkg, x.key = y.key
                 PROVE  x = y
      OBVIOUS
    <2>1. x.id = y.id
      BY <1>1 DEF DriftedInstallers
    <2>2. x \in InstallerRows /\ y \in InstallerRows
      BY <1>1, DbFields
    <2> QED BY <2>1, <2>2 DEF InstallerRows
  <1>4. ASSUME NEW x \in prev.inst, x.pkg = i PROVE x \in cur.inst
    <2>1. x.key \in Offers[cur.pkgs[i].content]
      BY <1>1, <1>2, <1>4, OffersAreMet
    <2>2. \A j \in Held(cur) : \A k \in Offers[cur.pkgs[j].content] :
             \E y \in cur.inst : y.pkg = j /\ y.key = k
      BY <1>1, OffersAreMet
    <2>3. PICK y \in cur.inst : y.pkg = i /\ y.key = x.key
      BY <1>2, <2>1, <2>2
    <2> QED BY <1>3, <1>4, <2>3
  <1>5. ASSUME NEW y \in cur.inst, y.pkg = i PROVE y \in prev.inst
    <2>1. y.key \in Offers[prev.pkgs[i].content]
      BY <1>1, <1>2, <1>5, OffersAreMet
    <2>2. PICK x \in prev.inst : x.pkg = i /\ x.key = y.key
      BY <1>1, <1>2, <2>1, OffersAreMet
    <2> QED BY <1>3, <1>5, <2>2
  <1> QED BY <1>4, <1>5

(* So the patch is the changed packages, each with all its installers.     *)
LEMMA PatchIsChanges ==
  ASSUME NEW prev, NEW cur, Patchable(prev, cur), NEW patch, patch = PatchBetween(prev, cur)
  PROVE  /\ patch.rows = {<<i, Published(cur.pkgs[i])>> : i \in Changed(prev, cur)}
         /\ patch.inst = {x \in cur.inst : x.pkg \in Changed(prev, cur)}
         /\ patch.updated = {} /\ patch.dropped = {}
         /\ patch.removed = Held(prev) \ Held(cur)
  <1> DEFINE changed == Changed(prev, cur)
             kept == Held(cur) \ changed
  <1>1. /\ patch.rows = {<<i, Published(cur.pkgs[i])>> : i \in changed}
        /\ patch.inst = {x \in cur.inst : x.pkg \in changed \/ ~Known(x, prev)}
        /\ patch.updated = {x \in cur.inst : x.pkg \in kept /\ Known(x, prev) /\ x \notin prev.inst}
        /\ patch.dropped = {x \in prev.inst : x.pkg \in kept /\ ~Known(x, cur)}
        /\ patch.removed = Held(prev) \ Held(cur)
    BY DEF PatchBetween, Changed
  <1>2. \A x \in cur.inst : x.pkg \in Held(cur)
    BY OffersAreMet DEF Patchable, Good
  <1>3. \A i \in kept : {x \in prev.inst : x.pkg = i} = {x \in cur.inst : x.pkg = i}
    BY KeptInstallers
  <1> HIDE DEF changed
  <1>4. \A x \in cur.inst : x.pkg \notin changed => x \in prev.inst
    BY <1>2, <1>3
  <1>5. \A x \in prev.inst : x.pkg \in kept => x \in cur.inst
    BY <1>3
  <1>6. /\ \A x \in cur.inst : x.pkg \notin changed => Known(x, prev) /\ x \in prev.inst
        /\ \A x \in prev.inst : x.pkg \in kept => Known(x, cur)
    BY <1>4, <1>5 DEF Known
  <1> QED BY <1>1, <1>6 DEF changed

(* The statements of one package: nothing if it has not changed; otherwise *)
(* its row goes in and every row it conflicts with goes.                   *)
LEMMA ApplyEffect ==
  ASSUME NEW prev, NEW cur, Patchable(prev, cur), NEW patch, patch = PatchBetween(prev, cur),
         NEW db \in Databases, NEW i \in Ids, NEW new, new = ApplyTo(db, patch, i)
  PROVE  /\ new \in Databases
         /\ i \notin Changed(prev, cur) => new = db
         /\ i \in Changed(prev, cur) =>
              LET gone == Evicted(db, i, Published(cur.pkgs[i]))
                  own == {y \in cur.inst : y.pkg = i}
              IN /\ new.pkgs[i] = Published(cur.pkgs[i])
                 /\ \A j \in Ids \ {i} :
                       new.pkgs[j] = IF j \in gone THEN None ELSE db.pkgs[j]
                 /\ new.inst = {x \in db.inst :
                                  /\ x.pkg \notin gone
                                  /\ \A y \in own : /\ x.id # y.id
                                                    /\ x.pkg # y.pkg \/ x.key # y.key}
                                 \union own
  <1> DEFINE written == {p \in patch.rows : p[1] = i}
             own == {y \in cur.inst : y.pkg = i}
             row == Published(cur.pkgs[i])
             gone == Evicted(db, i, row)
  <1>1. /\ patch.rows = {<<j, Published(cur.pkgs[j])>> : j \in Changed(prev, cur)}
        /\ patch.inst = {x \in cur.inst : x.pkg \in Changed(prev, cur)}
        /\ patch.updated = {} /\ patch.dropped = {}
    BY PatchIsChanges
  <1>2. /\ db.pkgs \in [Ids -> PackageRows \union {None}] /\ db.inst \in SUBSET InstallerRows
        /\ db.lists \in SUBSET (Nat \X Contents)
        /\ db.fts \in SUBSET (Nat \X Contents) /\ db.seq \in Nat
        /\ db = [pkgs |-> db.pkgs, inst |-> db.inst, lists |-> db.lists, fts |-> db.fts,
                 seq |-> db.seq]
    BY DbFields
  <1>3. {x \in patch.dropped : x.pkg = i} = {} /\ {x \in patch.updated : x.pkg = i} = {}
    BY <1>1
  <1>6. \A d \in Databases : DropInstallers(UpdateInstallers(d, {}), {}) = d
    <2> SUFFICES ASSUME NEW d \in Databases
                 PROVE  DropInstallers(UpdateInstallers(d, {}), {}) = d
      OBVIOUS
    <2>1. UpdateInstallers(d, {}) = d
      BY DbFields DEF UpdateInstallers
    <2>2. DropInstallers(d, {}) = d
      BY DbFields DEF DropInstallers, ListsBut
    <2> QED BY <2>1, <2>2
  <1>4. CASE i \notin Changed(prev, cur)
    <2>1. written = {} /\ {x \in patch.inst : x.pkg = i} = {}
      BY <1>1, <1>4
    <2>2. new = DropInstallers(UpdateInstallers(ReplaceInstallers(db, {}), {}), {})
      BY <1>3, <2>1 DEF ApplyTo
    <2>3. ReplaceInstallers(db, {}) = db
      BY <1>2 DEF ReplaceInstallers, ListsBut
    <2>4. new = db
      BY <1>6, <2>2, <2>3
    <2> QED BY <1>4, <2>4
  <1>5. CASE i \in Changed(prev, cur)
    <2>1. written = {<<i, row>>} /\ {x \in patch.inst : x.pkg = i} = own
      BY <1>1, <1>5
    <2> HIDE DEF written
    <2>2. (CHOOSE p \in written : TRUE)[2] = row /\ written # {}
      <3>1. written # {} /\ \A p \in written : p[2] = row
        BY <2>1
      <3> QED BY <3>1
    <2>3. new = DropInstallers(
                  UpdateInstallers(ReplaceInstallers(ReplacePackage(db, i, row), own), {}), {})
      BY <1>3, <2>1, <2>2 DEF ApplyTo, written
    <2>4. /\ row \in PackageRows /\ own \in SUBSET InstallerRows
          /\ row.rowid \in Nat /\ row.content \in Contents
      <3>1. cur \in Databases /\ i \in Held(cur)
        BY <1>5 DEF Patchable, Good, Changed
      <3> QED BY <3>1, DbFields, PublishedRow
    <2> HIDE DEF own, row, gone
    <2>5. PICK mid : mid = ReplacePackage(db, i, row)
      OBVIOUS
    <2>6. /\ mid.pkgs = [j \in Ids |-> IF j = i THEN row ELSE IF j \in gone THEN None ELSE db.pkgs[j]]
          /\ mid.inst = {x \in db.inst : x.pkg \notin gone}
          /\ mid.lists = ListsBut(db, {x \in db.inst : x.pkg \in gone})
          /\ mid.fts = db.fts \union {<<row.rowid, row.content>>} /\ mid.seq = db.seq
          /\ mid = [pkgs |-> mid.pkgs, inst |-> mid.inst, lists |-> mid.lists, fts |-> mid.fts,
                    seq |-> mid.seq]
      BY <1>2, <2>5 DEF ReplacePackage, Evicted, gone
    <2>7. PICK last : last = ReplaceInstallers(mid, own)
      OBVIOUS
    <2> DEFINE old == {x \in mid.inst : \E y \in own : x.id = y.id \/ (x.pkg = y.pkg /\ x.key = y.key)}
    <2>13. last = [mid EXCEPT !.inst = (mid.inst \ old) \union own, !.lists = ListsBut(mid, old)]
      BY <2>7 DEF ReplaceInstallers
    <2>14. mid.inst \ old = {x \in mid.inst :
                                \A y \in own : x.id # y.id /\ (x.pkg # y.pkg \/ x.key # y.key)}
      OBVIOUS
    <2> HIDE DEF old
    <2>8. /\ last.pkgs = mid.pkgs /\ last.fts = mid.fts /\ last.seq = mid.seq
          /\ last.inst = (mid.inst \ old) \union own
          /\ last.lists = ListsBut(mid, old)
          /\ last = [pkgs |-> last.pkgs, inst |-> last.inst, lists |-> last.lists,
                     fts |-> last.fts, seq |-> last.seq]
      BY <2>6, <2>13
    <2>15. last \in Databases
      <3>1. mid.pkgs \in [Ids -> PackageRows \union {None}]
        BY <1>2, <2>4, <2>6
      <3>2. last.inst \in SUBSET InstallerRows
        BY <1>2, <2>4, <2>6, <2>8
      <3>3. mid.fts \in SUBSET (Nat \X Contents)
        BY <1>2, <2>4, <2>6
      <3>4. last.lists \in SUBSET (Nat \X Contents)
        BY <1>2, <2>6, <2>8 DEF ListsBut
      <3> QED BY <1>2, <2>6, <2>8, <3>1, <3>2, <3>3, <3>4 DEF Databases
    <2>9. new = last
      BY <1>6, <2>3, <2>5, <2>7, <2>15
    <2>10. new \in Databases
      BY <2>9, <2>15
    <2>11. /\ new.pkgs[i] = row
           /\ \A j \in Ids \ {i} : new.pkgs[j] = IF j \in gone THEN None ELSE db.pkgs[j]
      BY <2>6, <2>8, <2>9
    <2>12. new.inst = {x \in db.inst :
                         /\ x.pkg \notin gone
                         /\ \A y \in own : x.id # y.id /\ (x.pkg # y.pkg \/ x.key # y.key)}
                        \union own
      BY <2>6, <2>8, <2>9, <2>14
    <2> QED BY <1>5, <2>10, <2>11, <2>12 DEF own, row, gone
  <1> QED BY <1>4, <1>5

(* The fold is well defined: after each package the tables are those its   *)
(* statements make of the tables before.                                   *)
LEMMA AppliedSteps ==
  ASSUME NEW prev, NEW cur, Patchable(prev, cur), NEW patch, patch = PatchBetween(prev, cur)
  PROVE  /\ Applied(prev, patch) \in [Nat -> Databases]
         /\ Applied(prev, patch)[0] = prev
         /\ \A n \in Nat : Applied(prev, patch)[n + 1] =
               IF n \in Ids THEN ApplyTo(Applied(prev, patch)[n], patch, n)
               ELSE Applied(prev, patch)[n]
  <1> DEFINE Step(d, n) == IF n \in Ids THEN ApplyTo(d, patch, n) ELSE d
             step == [n \in Nat |-> [d \in Databases |-> Step(d, n)]]
             Body(f) == [n \in Nat |-> IF n = 0 THEN prev
                                       ELSE IF n - 1 \in Ids THEN ApplyTo(f[n - 1], patch, n - 1)
                                       ELSE f[n - 1]]
  <1>1. prev \in Databases
    BY DEF Patchable, Good
  <1>2. \A d \in Databases, n \in Nat : Step(d, n) \in Databases
    BY ApplyEffect
  <1>3. step \in [Nat -> [Databases -> Databases]]
    BY <1>2
  <1>4. \A n \in Nat, d \in Databases : step[n][d] = Step(d, n)
    OBVIOUS
  <1> HIDE DEF step, Step
  <1>5. PICK f \in [Nat -> Databases] : f[0] = prev /\ \A n \in Nat : f[n + 1] = step[n][f[n]]
    <2>1. Chains(Databases, prev, step)
      BY <1>1, <1>3, StepsCompose
    <2> QED BY <2>1 DEF Chains
  <1>6. \A n \in Nat : f[n + 1] = Step(f[n], n)
    BY <1>4, <1>5
  <1> USE DEF Step
  <1>7. f = Body(f)
    <2>1. ASSUME NEW n \in Nat PROVE f[n] = Body(f)[n]
      <3>1. CASE n = 0
        BY <1>5, <3>1
      <3>2. CASE n # 0
        <4>1. n - 1 \in Nat /\ (n - 1) + 1 = n
          BY <3>2
        <4>2. f[n] = Step(f[n - 1], n - 1)
          BY <1>6, <4>1
        <4> QED BY <3>2, <4>2
      <3> QED BY <3>1, <3>2
    <2> QED BY <1>5, <2>1
  <1>8. Applied(prev, patch) = Body(Applied(prev, patch))
    BY <1>7, Zenon DEF Applied
  <1> DEFINE g == Applied(prev, patch)
  <1> HIDE DEF g
  <1>9. g = Body(g)
    BY <1>8 DEF g
  <1>10. g[0] = prev /\ \A n \in Nat : g[n + 1] = Step(g[n], n)
    <2>1. g[0] = prev
      BY <1>9
    <2>2. ASSUME NEW n \in Nat PROVE g[n + 1] = Step(g[n], n)
      <3>1. n + 1 \in Nat /\ n + 1 # 0 /\ (n + 1) - 1 = n
        OBVIOUS
      <3>2. Body(g)[n + 1] = Step(g[(n + 1) - 1], (n + 1) - 1)
        BY <3>1
      <3> QED BY <1>9, <3>1, <3>2
    <2> QED BY <2>1, <2>2
  <1>11. \A n \in Nat : g[n] \in Databases
    <2> DEFINE S == {n \in Nat : g[n] \in Databases}
    <2>1. 0 \in S
      BY <1>1, <1>10
    <2>2. \A n \in Nat : n \in S => n + 1 \in S
      BY <1>2, <1>10
    <2> HIDE DEF S
    <2>3. Nat \subseteq S
      BY <2>1, <2>2, AllNumbers
    <2> QED BY <2>3 DEF S
  <1>12. g \in [Nat -> Databases]
    BY <1>9, <1>11
  <1> QED BY <1>10, <1>12 DEF g

(* Where the fold is before package n: what it has gone past, or what has  *)
(* not changed, is as in the new catalog; the rest is as it was, or gone.  *)
Past(prev, cur, n) == {i \in Held(cur) : i \notin Changed(prev, cur) \/ i < n}

Halfway(prev, cur, n, db) ==
    /\ db \in Databases
    /\ \A i \in Past(prev, cur, n) : Published(db.pkgs[i]) = Published(cur.pkgs[i])
    /\ \A i \in Ids \ Past(prev, cur, n) : db.pkgs[i] = prev.pkgs[i] \/ db.pkgs[i] = None
    /\ \A x \in db.inst : /\ x.pkg \in Held(db)
                          /\ x.pkg \in Past(prev, cur, n) => x \in cur.inst
                          /\ x.pkg \notin Past(prev, cur, n) => x \in prev.inst
    /\ \A x \in cur.inst : x.pkg \in Past(prev, cur, n) => x \in db.inst

LEMMA HalfwayBegins ==
  ASSUME NEW prev, NEW cur, Patchable(prev, cur)
  PROVE  Halfway(prev, cur, 0, prev)
  <1>1. prev \in Databases /\ InstallersMatch(prev) /\ cur \in Databases
    BY DEF Patchable, Good
  <1>2. Past(prev, cur, 0) = Held(cur) \ Changed(prev, cur)
    <2>1. \A i \in Held(cur) : i \in Nat
      BY TablesAssumption DEF Held
    <2> QED BY <2>1 DEF Past
  <1>3. \A i \in Held(cur) \ Changed(prev, cur) : Published(prev.pkgs[i]) = Published(cur.pkgs[i])
    BY DEF Changed
  <1>4. \A x \in prev.inst : x.pkg \in Held(prev)
    BY <1>1, OffersAreMet
  <1>5. \A i \in Held(cur) \ Changed(prev, cur) :
           {x \in prev.inst : x.pkg = i} = {x \in cur.inst : x.pkg = i}
    BY KeptInstallers
  <1>6. \A x \in prev.inst : x.pkg \in Held(cur) \ Changed(prev, cur) => x \in cur.inst
    BY <1>5
  <1>7. \A x \in cur.inst : x.pkg \in Held(cur) \ Changed(prev, cur) => x \in prev.inst
    BY <1>5
  <1> QED BY <1>1, <1>2, <1>3, <1>4, <1>6, <1>7 DEF Halfway

(* No row that a package in the past keeps is in the way of another's.     *)
LEMMA HalfwayGoesOn ==
  ASSUME NEW prev, NEW cur, Patchable(prev, cur), NEW patch, patch = PatchBetween(prev, cur),
         NEW n \in Nat, NEW db, Halfway(prev, cur, n, db),
         NEW new, new = IF n \in Ids THEN ApplyTo(db, patch, n) ELSE db
  PROVE  Halfway(prev, cur, n + 1, new)
  <1>1. \A i \in Held(cur) : i \in Nat /\ i \in Ids
    BY TablesAssumption DEF Held
  <1>2. CASE n \notin Changed(prev, cur)
    <2>1. new = db
      BY <1>2, ApplyEffect DEF Halfway
    <2>2. Past(prev, cur, n + 1) = Past(prev, cur, n)
      BY <1>1, <1>2 DEF Past
    <2> QED BY <2>1, <2>2 DEF Halfway
  <1>3. CASE n \in Changed(prev, cur)
    <2> DEFINE past == Past(prev, cur, n)
               gone == Evicted(db, n, Published(cur.pkgs[n]))
               own == {y \in cur.inst : y.pkg = n}
    <2>1. n \in Ids /\ n \in Held(cur) /\ n \notin past
      BY <1>1, <1>3 DEF Past, Changed
    <2>2. new = ApplyTo(db, patch, n) /\ db \in Databases
      BY <2>1 DEF Halfway
    <2> HIDE DEF gone, own
    <2>3. /\ new \in Databases
          /\ new.pkgs[n] = Published(cur.pkgs[n])
          /\ \A j \in Ids \ {n} : new.pkgs[j] = IF j \in gone THEN None ELSE db.pkgs[j]
          /\ new.inst = {x \in db.inst :
                           /\ x.pkg \notin gone
                           /\ \A y \in own : x.id # y.id /\ (x.pkg # y.pkg \/ x.key # y.key)}
                          \union own
      BY <1>3, <2>1, <2>2, ApplyEffect DEF gone, own
    <2> USE DEF gone, own
    <2>4. Past(prev, cur, n + 1) = past \union {n}
      <3>1. \A i \in Held(cur) : i < n + 1 <=> i < n \/ i = n
        BY <1>1
      <3> QED BY <2>1, <3>1 DEF Past
    <2>5. past \intersect gone = {}
      <3> SUFFICES ASSUME NEW j \in past, j \in gone PROVE FALSE
        OBVIOUS
      <3>1. /\ Published(db.pkgs[j]) = Published(cur.pkgs[j])
            /\ j \in Held(cur) /\ j \in Ids /\ j # n
        BY <2>1 DEF Halfway, Past, Held
      <3>3. cur \in Databases
        BY DEF Patchable, Good
      <3>4. j \in Held(db) /\ db.pkgs[j].rowid = cur.pkgs[j].rowid
        BY <2>2, <3>1, <3>3, PublishedRow
      <3>5. Published(cur.pkgs[n]).rowid = cur.pkgs[n].rowid
        BY <2>1, <3>3, PublishedRow
      <3>2. cur.pkgs[j].rowid = cur.pkgs[n].rowid
        BY <3>1, <3>4, <3>5 DEF Evicted
      <3> QED BY <2>1, <3>1, <3>2 DEF Patchable, Good, RowidsAreKeys
    <2>6. \A x \in db.inst : x.pkg = n => x.pkg \in gone
      BY DEF Halfway, Evicted
    <2>7. \A x \in db.inst : x.pkg \in past =>
             \A y \in own : x.id # y.id /\ (x.pkg # y.pkg \/ x.key # y.key)
      <3>1. \A x \in db.inst : x.pkg \in past => x \in cur.inst /\ x.pkg # n
        BY <2>1 DEF Halfway
      <3> QED BY <3>1 DEF Patchable, Good, InstallersAreKeys
    <2>8. \A i \in past : i \in Ids /\ i \notin gone /\ i # n
      BY <1>1, <2>1, <2>5 DEF Past
    <2> HIDE DEF past, gone
    <2>9. \A i \in past \union {n} : Published(new.pkgs[i]) = Published(cur.pkgs[i])
      <3>1. \A i \in past : Published(db.pkgs[i]) = Published(cur.pkgs[i])
        BY DEF Halfway, past
      <3>2. cur \in Databases
        BY DEF Patchable, Good
      <3>3. Published(new.pkgs[n]) = Published(cur.pkgs[n])
        BY <2>1, <2>3, <3>2, PublishedRow
      <3> QED BY <2>3, <2>8, <3>1, <3>3
    <2>10. \A i \in Ids \ (past \union {n}) : new.pkgs[i] = prev.pkgs[i] \/ new.pkgs[i] = None
      <3>1. \A i \in Ids \ past : db.pkgs[i] = prev.pkgs[i] \/ db.pkgs[i] = None
        BY DEF Halfway, past
      <3> QED BY <2>3, <3>1
    <2>11. ASSUME NEW x \in new.inst
           PROVE  /\ x.pkg \in Held(new)
                  /\ x.pkg \in past \union {n} => x \in cur.inst
                  /\ x.pkg \notin past \union {n} => x \in prev.inst
      <3>1. CASE x \in own
        <4>1. x.pkg = n /\ x \in cur.inst
          BY <3>1
        <4>2. cur \in Databases
          BY DEF Patchable, Good
        <4>3. new.pkgs[n] # None
          BY <2>1, <2>3, <4>2, PublishedRow
        <4> QED BY <2>1, <4>1, <4>3 DEF Held
      <3>2. CASE x \notin own
        <4>1. x \in db.inst /\ x.pkg \notin gone /\ x.pkg # n
          BY <2>3, <2>6, <3>2
        <4>2. /\ x.pkg \in Held(db)
              /\ x.pkg \in past => x \in cur.inst
              /\ x.pkg \notin past => x \in prev.inst
          BY <4>1 DEF Halfway, past
        <4>3. x.pkg \in Held(new)
          BY <2>3, <4>1, <4>2 DEF Held
        <4> QED BY <4>1, <4>2, <4>3
      <3> QED BY <3>1, <3>2
    <2>12. ASSUME NEW x \in cur.inst, x.pkg \in past \union {n} PROVE x \in new.inst
      <3>1. CASE x.pkg = n
        BY <2>3, <3>1
      <3>2. CASE x.pkg # n
        <4>1. x.pkg \in past /\ x \in db.inst
          BY <2>12, <3>2 DEF Halfway, past
        <4> QED BY <2>3, <2>7, <2>8, <4>1
      <3> QED BY <3>1, <3>2
    <2> QED BY <2>3, <2>4, <2>9, <2>10, <2>11, <2>12 DEF Halfway
  <1> QED BY <1>2, <1>3

(* After the last package only those that are not in the new catalog are   *)
(* left to remove.                                                         *)
LEMMA HalfwayEnds ==
  ASSUME NEW prev, NEW cur, Patchable(prev, cur), NEW n \in Nat, \A i \in Ids : i < n,
         NEW db, Halfway(prev, cur, n, db)
  PROVE  SameRows(RemovePackages(db, Held(prev) \ Held(cur)), cur)
  <1> DEFINE left == Ids \ (Held(prev) \ Held(cur))
             new == RemovePackages(db, Held(prev) \ Held(cur))
  <1>1. Past(prev, cur, n) = Held(cur)
    BY DEF Past, Held
  <1>2. prev \in Databases /\ cur \in Databases /\ InstallersMatch(cur) /\ db \in Databases
    BY DEF Patchable, Good, Halfway
  <1>3. /\ new.pkgs = [i \in Ids |-> IF i \in left THEN db.pkgs[i] ELSE None]
        /\ new.inst = {x \in db.inst : x.pkg \in left}
    BY <1>2, DbFields DEF RemovePackages, Prune
  <1> HIDE DEF new
  <1>4. \A i \in Ids : Published(new.pkgs[i]) = Published(cur.pkgs[i])
    <2>1. \A i \in Held(cur) : i \in left /\ Published(db.pkgs[i]) = Published(cur.pkgs[i])
      BY <1>1 DEF Halfway, Held
    <2>2. \A i \in left \ Held(cur) : i \in Ids /\ db.pkgs[i] = None
      BY <1>1 DEF Halfway, Held
    <2>3. \A i \in Ids \ Held(cur) : cur.pkgs[i] = None
      BY DEF Held
    <2> QED BY <1>3, <2>1, <2>2, <2>3
  <1>6. \A x \in cur.inst : x.pkg \in Held(cur)
    BY <1>2, OffersAreMet
  <1>7. \A x \in cur.inst : x \in new.inst
    BY <1>1, <1>3, <1>6 DEF Halfway, Held
  <1>8. ASSUME NEW x \in new.inst PROVE x \in cur.inst
    <2>1. x \in db.inst /\ x.pkg \in left /\ x.pkg \in Held(db)
      BY <1>3 DEF Halfway
    <2>2. x.pkg \in Held(cur)
      BY <1>1, <2>1 DEF Halfway, Held
    <2> QED BY <1>1, <2>1, <2>2 DEF Halfway
  <1> QED BY <1>4, <1>7, <1>8 DEF SameRows, new

(* Executed on the tables a patch was made from, its statements give the   *)
(* rows of the tables it was made for.                                     *)
LEMMA PatchReproduces ==
  ASSUME NEW prev, NEW cur, Patchable(prev, cur)
  PROVE  SameRows(ApplyPatch(prev, PatchBetween(prev, cur)), cur)
  <1> DEFINE patch == PatchBetween(prev, cur)
             after == Applied(prev, patch)
             last == Max(Ids \union {0}) + 1
             S == {n \in Nat : Halfway(prev, cur, n, after[n])}
  <1>1. last \in Nat /\ \A i \in Ids : i < last
    <2>1. Ids \union {0} \in SUBSET Nat /\ IsFiniteSet(Ids \union {0}) /\ Ids \union {0} # {}
      BY TablesAssumption, FS_AddElement
    <2>2. Max(Ids \union {0}) \in Nat /\ \A i \in Ids : i \in Nat /\ i <= Max(Ids \union {0})
      BY <2>1, LargestNumber
    <2> QED BY <2>2
  <1>2. patch.removed = Held(prev) \ Held(cur)
    BY PatchIsChanges
  <1>3. /\ after[0] = prev
        /\ \A n \in Nat : after[n + 1] = IF n \in Ids THEN ApplyTo(after[n], patch, n) ELSE after[n]
    BY AppliedSteps
  <1> HIDE DEF after, last
  <1>4. 0 \in S
    BY <1>3, HalfwayBegins
  <1>5. ASSUME NEW n \in Nat, n \in S PROVE n + 1 \in S
    BY <1>3, <1>5, HalfwayGoesOn
  <1> HIDE DEF S
  <1>6. Nat \subseteq S
    BY <1>4, <1>5, AllNumbers
  <1>7. Halfway(prev, cur, last, after[last])
    BY <1>1, <1>6 DEF S
  <1>8. ApplyPatch(prev, patch) = RemovePackages(after[last], Held(prev) \ Held(cur))
    BY <1>2 DEF ApplyPatch, after, last
  <1> QED BY <1>1, <1>7, <1>8, HalfwayEnds
--------------------------------------------------------------------------------

(* The catalogs at rest and the one in the parser's transaction.           *)
TablesGood == Good(parse.db) /\ \A c \in Catalogs : Good(c)

(* What has been written is what is listed, and all of it when a goroutine *)
(* ended well.                                                             *)
CrawlFaithful ==
    /\ crawl.sent \subseteq ScoopListed
    /\ crawl.file # None => crawl.file \subseteq Listed(Winget)
    /\ crawl.winget \in {"write", "done"} => crawl.file # None
    /\ crawl.scoop = "done" => ScoopListed \subseteq crawl.sent
    /\ crawl.winget = "done" => Listed(Winget) \subseteq crawl.file

(* What the transaction holds of the lines that were read.                 *)
Taken ==
    /\ \A i \in parse.read : upstream[i] # Unlisted
    /\ parse.seen = {i \in parse.read : upstream[i] # Refused}
    /\ \A i \in parse.seen :
          /\ i \in Held(parse.db)
          /\ parse.db.pkgs[i].content = upstream[i]
          /\ {x.key : x \in {x \in parse.db.inst : x.pkg = i}} = Offers[upstream[i]]
          /\ \A x \in parse.db.inst : x.pkg = i => ListsOf(parse.db, x) = {upstream[i]}

ParseFaithful ==
    /\ flow.pc # "build" => parse.pc = "off"
    /\ parse.pc = "open" => catalog = flow.base /\ parse.read = {} /\ parse.seen = {}
    /\ parse.pc \in {"scoop", "winget", "done"} => Taken
    /\ parse.pc \in {"winget", "done"} =>
          CrawlEnded /\ crawl.file # None /\ crawl.sent \subseteq parse.read
    /\ parse.pc = "done" =>
          /\ catalog = parse.db
          /\ crawl.file \subseteq parse.read
          /\ Held(parse.db) \subseteq parse.seen
          /\ \A x \in parse.db.inst : x.pkg \in parse.seen

(* How a catalog stands to the one it was built on while lines are taken.  *)
Follows(base, db, read) ==
    /\ Held(base) \subseteq Held(db)
    /\ \A i \in Held(base) : db.pkgs[i].rowid = base.pkgs[i].rowid
    /\ \A x \in base.inst : x.pkg \notin read => x \in db.inst
    /\ \A x \in base.inst, y \in db.inst : x.pkg = y.pkg /\ x.key = y.key => x = y

BuildFollows ==
    parse.pc \in {"scoop", "winget"} /\ flow.base # None =>
        Follows(flow.base, parse.db, parse.read)

Inv == /\ TypeOK /\ TablesGood /\ CrawlFaithful /\ ParseFaithful /\ BuildFollows
       /\ DeltasFollow /\ WholeCatalog

(* The records by their fields, which is how the steps use them.           *)
LEMMA Fields ==
  ASSUME TypeOK
  PROVE  /\ crawl = [scoop |-> crawl.scoop, winget |-> crawl.winget, synced |-> crawl.synced,
                     broken |-> crawl.broken, sent |-> crawl.sent, file |-> crawl.file]
         /\ parse = [pc |-> parse.pc, db |-> parse.db, seen |-> parse.seen, read |-> parse.read]
         /\ flow = [pc |-> flow.pc, base |-> flow.base, cache |-> flow.cache,
                    today |-> flow.today, released |-> flow.released]
  BY DEF TypeOK, Crawls, Parses, Flows
--------------------------------------------------------------------------------
(* The crawler.  A goroutine never takes back a line, and none is written  *)
(* once both have ended.                                                   *)

BreakPipe == crawl.scoop = "write" /\ crawl' = [crawl EXCEPT !.scoop = "failed"]
               /\ UNCHANGED upstream
CrawlMoves == CrawlStep \/ (\E i \in Ids : WriteScoopLine(i)) \/ CrawlFault \/ BreakPipe

CrawlKept ==
    /\ upstream' = upstream /\ crawl' \in Crawls /\ CrawlFaithful'
    /\ CrawlEnded => CrawlEnded' /\ crawl'.sent = crawl.sent /\ crawl'.file = crawl.file

LEMMA CrawlerKeeps ==
  ASSUME TypeOK, CrawlFaithful, CrawlMoves
  PROVE  CrawlKept
  <1> USE DEF CrawlFaithful, CrawlEnded, Listed, ScoopListed, CrawlKept
  <1>1. /\ crawl.scoop \in ScoopLabels /\ crawl.winget \in WingetLabels
        /\ crawl.synced \in SUBSET Buckets /\ crawl.broken \in SUBSET Buckets
        /\ crawl.sent \in SUBSET Ids /\ crawl.file \in {None} \union SUBSET Ids
        /\ crawl = [scoop |-> crawl.scoop, winget |-> crawl.winget, synced |-> crawl.synced,
                    broken |-> crawl.broken, sent |-> crawl.sent, file |-> crawl.file]
    BY DEF TypeOK, Crawls
  <1>2. \A s \in SUBSET Ids : s # None
    BY CrawlerAssumption
  <1>3. ASSUME NEW b \in Buckets, SyncBucket(b) PROVE CrawlKept
    BY <1>1, <1>3 DEF SyncBucket, Crawls, ScoopLabels, WingetLabels
  <1>4. ASSUME NEW i \in Ids, WriteWingetLine(i) PROVE CrawlKept
    BY <1>1, <1>2, <1>4 DEF WriteWingetLine, Crawls, ScoopLabels, WingetLabels
  <1>5. CASE StartWriting
    BY <1>1, <1>5 DEF StartWriting, Crawls, ScoopLabels, WingetLabels
  <1>6. CASE FinishScoop
    <2>1. \A i \in Ids : Home[i] # Winget => Home[i] \in Buckets
      BY CrawlerAssumption
    <2>2. crawl.broken = {} => ScoopListed \subseteq crawl.sent
      BY <1>6, <2>1 DEF FinishScoop
    <2>3. /\ upstream' = upstream /\ crawl.scoop = "write"
          /\ crawl'.scoop \in {"done", "failed"}
          /\ crawl'.scoop = "done" => ScoopListed \subseteq crawl.sent
          /\ crawl' = [crawl EXCEPT !.scoop = crawl'.scoop]
      BY <1>1, <1>6, <2>2 DEF FinishScoop
    <2> QED BY <1>1, <2>3 DEF Crawls, ScoopLabels, WingetLabels
  <1>7. CASE StageWinget
    BY <1>1, <1>2, <1>7 DEF StageWinget, Crawls, ScoopLabels, WingetLabels
  <1>8. CASE FinishWinget
    BY <1>1, <1>8 DEF FinishWinget, Crawls, ScoopLabels, WingetLabels
  <1>9. ASSUME NEW i \in Ids, WriteScoopLine(i) PROVE CrawlKept
    BY <1>1, <1>9 DEF WriteScoopLine, Crawls, ScoopLabels, WingetLabels
  <1>10. ASSUME NEW b \in Buckets, BucketBreaks(b) PROVE CrawlKept
    BY <1>1, <1>10 DEF BucketBreaks, Crawls, ScoopLabels, WingetLabels
  <1>11. CASE SyncFails \/ CancelScoop \/ BreakPipe
    <2>1. /\ upstream' = upstream /\ crawl.scoop \in {"sync", "write"}
          /\ crawl' = [crawl EXCEPT !.scoop = "failed"]
      BY <1>11 DEF SyncFails, CancelScoop, BreakPipe
    <2> QED BY <1>1, <2>1 DEF Crawls, ScoopLabels, WingetLabels
  <1>12. CASE WingetFails
    BY <1>1, <1>12 DEF WingetFails, Crawls, ScoopLabels, WingetLabels
  <1> QED
    BY <1>3, <1>4, <1>5, <1>6, <1>7, <1>8, <1>9, <1>10, <1>11, <1>12
       DEF CrawlMoves, CrawlStep, CrawlFault

(* A step of the crawler leaves the rest of the invariant as it was.       *)
LEMMA CrawlStepKeepsInv ==
  ASSUME Inv, flow.pc = "build", CrawlMoves, UNCHANGED <<parse, catalog, day, flow>>
  PROVE  Inv'
  <1>1. CrawlKept
    BY CrawlerKeeps DEF Inv
  <1>2. /\ upstream' = upstream /\ parse' = parse /\ catalog' = catalog /\ day' = day
        /\ flow' = flow /\ crawl' \in Crawls /\ CrawlFaithful'
    BY <1>1 DEF CrawlKept
  <1>3. TypeOK'
    BY <1>2 DEF Inv, TypeOK
  <1>4. TablesGood' /\ BuildFollows' /\ DeltasFollow' /\ WholeCatalog'
    BY <1>2 DEF Inv, TablesGood, BuildFollows, DeltasFollow, WholeCatalog, Catalogs, Readable
  <1>5. ParseFaithful'
    <2>1. Taken => Taken'
      BY <1>2 DEF Taken
    <2> QED BY <1>1, <1>2, <2>1 DEF Inv, ParseFaithful, CrawlKept
  <1> QED BY <1>2, <1>3, <1>4, <1>5 DEF Inv
--------------------------------------------------------------------------------
(* The parser. *)

(* Every step of the parser leaves the workflow and the crawl alone.       *)
LEMMA CrawlUntouched ==
  ASSUME UNCHANGED <<upstream, crawl>>
  PROVE  /\ CrawlFaithful => CrawlFaithful'
         /\ CrawlEnded => CrawlEnded'
  BY DEF CrawlFaithful, CrawlEnded, Listed, ScoopListed

LEMMA OpenKeepsInv ==
  ASSUME Inv, OpenCatalog, UNCHANGED flow
  PROVE  Inv'
  <1> DEFINE db == IF catalog = None THEN EmptyDb ELSE catalog
  <1>1. /\ parse.pc = "open" /\ upstream' = upstream /\ crawl' = crawl /\ catalog' = catalog
        /\ day' = day /\ flow' = flow /\ parse' = [parse EXCEPT !.pc = "scoop", !.db = db]
    BY DEF OpenCatalog
  <1>2. Good(db) /\ db \in Databases
    BY EmptyGood DEF Inv, TablesGood, Catalogs, Good
  <1> HIDE DEF db
  <1>3. /\ parse'.pc = "scoop" /\ parse'.db = db /\ parse'.read = parse.read
        /\ parse'.seen = parse.seen /\ parse' \in Parses
    BY <1>1, <1>2 DEF Inv, TypeOK, Parses, ParseLabels
  <1>4. TypeOK'
    BY <1>1, <1>3 DEF Inv, TypeOK
  <1>5. TablesGood' /\ CrawlFaithful' /\ DeltasFollow' /\ WholeCatalog'
    BY <1>1, <1>2, <1>3, CrawlUntouched
       DEF Inv, TablesGood, DeltasFollow, WholeCatalog, Catalogs, Readable
  <1>6. ParseFaithful'
    BY <1>1, <1>3 DEF Inv, ParseFaithful, Taken
  <1>7. BuildFollows'
    <2>1. flow.base # None => db = flow.base /\ Good(db)
      BY <1>1, <1>2 DEF Inv, ParseFaithful, db
    <2>2. Good(db) => Follows(db, db, parse.read)
      BY DEF Follows, Good, InstallersAreKeys
    <2> QED BY <1>1, <1>3, <2>1, <2>2 DEF BuildFollows
  <1> QED BY <1>4, <1>5, <1>6, <1>7 DEF Inv

(* A line written keeps what the others left and adds what it says.        *)
LEMMA TakeKeepsInv ==
  ASSUME Inv, NEW i \in Ids, NEW r \in 1..MaxRowid, UNCHANGED flow,
         parse.pc \in {"scoop", "winget"}, i \notin parse.read, upstream[i] # Unlisted,
         TakeLine(i, r)
  PROVE  Inv'
  <1> DEFINE db == parse.db
             new == parse'.db
             c == upstream[i]
  <1>1. /\ upstream' = upstream /\ crawl' = crawl /\ catalog' = catalog /\ day' = day
        /\ flow' = flow
    BY DEF TakeLine
  <1>2. /\ parse = [pc |-> parse.pc, db |-> db, seen |-> parse.seen, read |-> parse.read]
        /\ parse.pc \in ParseLabels /\ db \in Databases /\ Good(db) /\ Taken
        /\ parse.seen \in SUBSET Ids /\ parse.read \in SUBSET Ids
        /\ parse.seen = {j \in parse.read : upstream[j] # Refused}
    BY DEF Inv, TypeOK, Parses, TablesGood, ParseFaithful, Taken
  <1>3. CASE c = Refused
    <2>1. /\ parse'.pc = parse.pc /\ new = db /\ parse'.seen = parse.seen
          /\ parse'.read = parse.read \union {i} /\ parse' \in Parses
      BY <1>2, <1>3 DEF TakeLine, Parses
    <2>2. TypeOK'
      BY <1>1, <2>1 DEF Inv, TypeOK
    <2>3. TablesGood' /\ CrawlFaithful' /\ DeltasFollow' /\ WholeCatalog'
      BY <1>1, <2>1, CrawlUntouched
         DEF Inv, TablesGood, DeltasFollow, WholeCatalog, Catalogs, Readable
    <2>4. Taken'
      BY <1>1, <1>2, <1>3, <2>1 DEF Taken
    <2>5. ParseFaithful'
      BY <1>1, <2>1, <2>4, CrawlUntouched DEF Inv, ParseFaithful
    <2>6. BuildFollows'
      BY <1>1, <2>1 DEF Inv, BuildFollows, Follows
    <2> QED BY <2>2, <2>3, <2>5, <2>6 DEF Inv
  <1>4. CASE c # Refused
    <2>1. c \in Contents /\ day \in Nat /\ r \in Nat /\ IsNextRowid(db, r)
      <3>1. c \in Contents \union {Unlisted, Refused}
        BY DEF Inv, TypeOK, Manifests
      <3>2. day \in Nat /\ r \in Nat
        BY ParserAssumption, TablesAssumption DEF Inv, TypeOK
      <3> QED BY <1>4, <3>1, <3>2 DEF TakeLine
    <2>2. parse' = [parse EXCEPT !.read = @ \union {i}, !.seen = @ \union {i},
                                 !.db = WritePackage(db, i, c, day, r)]
      BY <1>4 DEF TakeLine
    <2>3. /\ new = WritePackage(db, i, c, day, r) /\ parse'.pc = parse.pc
          /\ parse'.seen = parse.seen \union {i} /\ parse'.read = parse.read \union {i}
          /\ parse' = [pc |-> parse'.pc, db |-> new, seen |-> parse'.seen, read |-> parse'.read]
      BY <1>2, <2>2
    <2>4. /\ Good(new) /\ Held(new) = Held(db) \union {i} /\ new.pkgs[i].content = c
          /\ \A j \in Held(db) : new.pkgs[j].rowid = db.pkgs[j].rowid
          /\ \A j \in Ids \ {i} : new.pkgs[j] = db.pkgs[j]
          /\ {x.key : x \in {x \in new.inst : x.pkg = i}} = Offers[c]
          /\ \A x \in new.inst : x.pkg = i => ListsOf(new, x) = {c}
          /\ \A x \in new.inst : x.pkg # i => ListsOf(new, x) = ListsOf(db, x)
          /\ {x \in new.inst : x.pkg # i} = {x \in db.inst : x.pkg # i}
          /\ \A x \in db.inst, y \in new.inst : x.pkg = y.pkg /\ x.key = y.key => x = y
      BY <1>2, <2>1, <2>3, WriteEffect
    <2> HIDE DEF new, db
    <2>5. parse' \in Parses /\ TypeOK'
      <3>1. parse' \in Parses
        BY <1>2, <2>3, <2>4 DEF Parses, Good
      <3> QED BY <1>1, <3>1 DEF Inv, TypeOK
    <2>6. TablesGood' /\ CrawlFaithful' /\ DeltasFollow' /\ WholeCatalog'
      BY <1>1, <2>3, <2>4, CrawlUntouched
         DEF Inv, TablesGood, DeltasFollow, WholeCatalog, Catalogs, Readable, new
    <2>7. Taken'
      <3>1. \A j \in parse'.read : upstream'[j] # Unlisted
        BY <1>1, <1>2, <2>3 DEF Taken
      <3>2. parse'.seen = {j \in parse'.read : upstream'[j] # Refused}
        BY <1>1, <1>2, <1>4, <2>3
      <3>3. ASSUME NEW j \in parse'.seen
            PROVE  /\ j \in Held(new) /\ new.pkgs[j].content = upstream[j]
                   /\ {x.key : x \in {x \in new.inst : x.pkg = j}} = Offers[upstream[j]]
                   /\ \A x \in new.inst : x.pkg = j => ListsOf(new, x) = {upstream[j]}
        <4>1. CASE j = i
          BY <2>4, <4>1
        <4>2. CASE j # i
          <5>1. j \in parse.seen /\ j \in Ids
            BY <1>2, <2>3, <4>2
          <5>2. {x \in new.inst : x.pkg = j} = {x \in db.inst : x.pkg = j}
            BY <2>4, <4>2
          <5>3. /\ j \in Held(db) /\ db.pkgs[j].content = upstream[j]
                /\ {x.key : x \in {x \in db.inst : x.pkg = j}} = Offers[upstream[j]]
                /\ \A x \in db.inst : x.pkg = j => ListsOf(db, x) = {upstream[j]}
            BY <1>2, <5>1 DEF Taken, db
          <5>4. j \in Held(new) /\ new.pkgs[j].content = upstream[j]
            BY <2>4, <4>2, <5>1, <5>3
          <5>5. ASSUME NEW x \in new.inst, x.pkg = j PROVE ListsOf(new, x) = {upstream[j]}
            BY <2>4, <4>2, <5>2, <5>3, <5>5
          <5> QED BY <5>2, <5>3, <5>4, <5>5
        <4> QED BY <4>1, <4>2
      <3> QED BY <1>1, <3>1, <3>2, <3>3 DEF Taken, new
    <2>8. ParseFaithful'
      BY <1>1, <2>3, <2>7, CrawlUntouched DEF Inv, ParseFaithful
    <2>9. BuildFollows'
      <3> SUFFICES ASSUME flow.base # None
                   PROVE  Follows(flow.base, new, parse'.read)
        BY <1>1, <2>3 DEF BuildFollows, new
      <3>1. Follows(flow.base, db, parse.read)
        BY DEF Inv, BuildFollows, db
      <3>2. /\ Held(flow.base) \subseteq Held(new)
            /\ \A j \in Held(flow.base) : new.pkgs[j].rowid = flow.base.pkgs[j].rowid
        BY <2>4, <3>1 DEF Follows
      <3>3. \A x \in flow.base.inst : x.pkg \notin parse'.read => x \in new.inst
        BY <2>3, <2>4, <3>1 DEF Follows
      <3>4. ASSUME NEW x \in flow.base.inst, NEW y \in new.inst, x.pkg = y.pkg, x.key = y.key
            PROVE  x = y
        <4>1. CASE x.pkg = i
          BY <2>4, <3>1, <3>4, <4>1 DEF Follows
        <4>2. CASE x.pkg # i
          BY <2>4, <3>1, <3>4, <4>2 DEF Follows
        <4> QED BY <4>1, <4>2
      <3> QED BY <3>2, <3>3, <3>4 DEF Follows
    <2> QED BY <2>5, <2>6, <2>8, <2>9 DEF Inv
  <1> QED BY <1>3, <1>4

(* The end of the stream, a failure and the lack of a file only move on.   *)
LEMMA ParserMovesOn ==
  ASSUME Inv, UNCHANGED flow, EndOfStream \/ NoWingetFile \/ ParserFails
  PROVE  Inv'
  <1> DEFINE l == parse'.pc
  <1>1. /\ upstream' = upstream /\ crawl' = crawl /\ catalog' = catalog /\ day' = day
        /\ flow' = flow
    BY DEF EndOfStream, NoWingetFile, ParserFails
  <1>2. /\ parse = [pc |-> parse.pc, db |-> parse.db, seen |-> parse.seen, read |-> parse.read]
        /\ parse \in Parses /\ parse.pc \in {"open", "scoop", "winget"}
    BY DEF Inv, TypeOK, Parses, EndOfStream, NoWingetFile, ParserFails, Parsing
  <1>3. /\ \/ l = "failed"
           \/ /\ l = "winget" /\ parse.pc = "scoop" /\ CrawlEnded
              /\ crawl.file # None /\ crawl.sent \subseteq parse.read
        /\ parse' = [parse EXCEPT !.pc = l]
    BY <1>2 DEF EndOfStream, NoWingetFile, ParserFails
  <1> HIDE DEF l
  <1>4. /\ parse'.pc = l /\ parse'.db = parse.db /\ parse'.seen = parse.seen
        /\ parse'.read = parse.read /\ parse' \in Parses
    BY <1>2, <1>3 DEF Parses, ParseLabels
  <1>5. TypeOK'
    BY <1>1, <1>4 DEF Inv, TypeOK
  <1>6. TablesGood' /\ CrawlFaithful' /\ DeltasFollow' /\ WholeCatalog'
    BY <1>1, <1>3, <1>4, CrawlUntouched
       DEF Inv, TablesGood, DeltasFollow, WholeCatalog, Catalogs, Readable
  <1>7. Taken => Taken'
    BY <1>1, <1>4 DEF Taken
  <1>8. ParseFaithful'
    <2>1. flow.pc = "build"
      BY <1>2 DEF Inv, ParseFaithful
    <2> QED BY <1>1, <1>3, <1>4, <1>7, <2>1, CrawlUntouched DEF Inv, ParseFaithful
  <1>9. BuildFollows'
    BY <1>1, <1>3, <1>4 DEF Inv, BuildFollows, Follows
  <1> QED BY <1>5, <1>6, <1>8, <1>9 DEF Inv

(* The commit: what was not seen is gone, and what is left follows.        *)
LEMMA FinishKeepsInv ==
  ASSUME Inv, UNCHANGED flow, Finish
  PROVE  Inv'
  <1> DEFINE db == parse.db
             new == Prune(db, parse.seen)
  <1>1. /\ upstream' = upstream /\ crawl' = crawl /\ catalog' = new /\ day' = day
        /\ flow' = flow /\ parse.pc = "winget" /\ crawl.file \subseteq parse.read
        /\ parse' = [parse EXCEPT !.pc = "done", !.db = new]
    BY DEF Finish
  <1>2. /\ parse = [pc |-> parse.pc, db |-> db, seen |-> parse.seen, read |-> parse.read]
        /\ Good(db) /\ Taken /\ parse.seen \in SUBSET Ids /\ parse.read \in SUBSET Ids
        /\ CrawlEnded /\ crawl.file # None /\ crawl.sent \subseteq parse.read
        /\ flow.pc = "build"
    BY <1>1 DEF Inv, TypeOK, Parses, TablesGood, ParseFaithful
  <1>3. /\ Good(new) /\ Held(new) = Held(db) \intersect parse.seen
        /\ \A j \in parse.seen : new.pkgs[j] = db.pkgs[j]
        /\ new.inst = {x \in db.inst : x.pkg \in parse.seen}
        /\ \A x \in new.inst : ListsOf(new, x) = ListsOf(db, x)
    BY <1>2, PruneEffect
  <1> HIDE DEF new
  <1>4. /\ parse'.pc = "done" /\ parse'.db = new /\ parse'.seen = parse.seen
        /\ parse'.read = parse.read /\ parse' \in Parses
    BY <1>1, <1>2, <1>3 DEF Parses, ParseLabels, Good
  <1>5. TypeOK'
    BY <1>1, <1>3, <1>4 DEF Inv, TypeOK, Kept, Good
  <1>6. TablesGood' /\ CrawlFaithful' /\ BuildFollows' /\ WholeCatalog'
    BY <1>1, <1>2, <1>3, <1>4, CrawlUntouched
       DEF Inv, TablesGood, BuildFollows, WholeCatalog, Catalogs
  <1>7. Taken'
    <2>1. \A j \in parse.seen :
             {x \in new.inst : x.pkg = j} = {x \in db.inst : x.pkg = j}
      BY <1>3
    <2> QED BY <1>1, <1>2, <1>3, <1>4, <2>1 DEF Taken
  <1>8. ParseFaithful'
    BY <1>1, <1>2, <1>3, <1>4, <1>7, CrawlUntouched DEF Inv, ParseFaithful
  <1>9. DeltasFollow'
    <2> SUFFICES ASSUME flow.base # None
                 PROVE  ~Drifted(flow.base, new)
      BY <1>1 DEF DeltasFollow
    <2>1. Follows(flow.base, db, parse.read)
      BY <1>1 DEF Inv, BuildFollows
    <2>2. DriftedPackages(flow.base, new) = {}
      BY <1>3, <2>1 DEF DriftedPackages, Follows
    <2>3. DriftedInstallers(flow.base, new) = {}
      BY <1>3, <2>1 DEF DriftedInstallers, Follows
    <2> QED BY <2>2, <2>3 DEF Drifted
  <1> QED BY <1>5, <1>6, <1>8, <1>9 DEF Inv

LEMMA ParserKeepsInv ==
  ASSUME Inv, UNCHANGED flow, ParseStep \/ ParserFails
  PROVE  Inv'
  <1>1. ASSUME NEW i \in Ids, NEW r \in 1..MaxRowid, TakeScoopLine(i, r) PROVE Inv'
    <2>1. upstream[i] # Unlisted
      BY <1>1 DEF TakeScoopLine, Inv, CrawlFaithful, ScoopListed
    <2> QED BY <1>1, <2>1, TakeKeepsInv DEF TakeScoopLine
  <1>2. ASSUME NEW i \in Ids, NEW r \in 1..MaxRowid, TakeWingetLine(i, r) PROVE Inv'
    <2>1. upstream[i] # Unlisted
      BY <1>2 DEF TakeWingetLine, Inv, CrawlFaithful, ParseFaithful, Listed
    <2> QED BY <1>2, <2>1, TakeKeepsInv DEF TakeWingetLine
  <1> QED BY <1>1, <1>2, OpenKeepsInv, ParserMovesOn, FinishKeepsInv DEF ParseStep
--------------------------------------------------------------------------------
(* The job. *)

(* With the runner gone nothing is left to say but of what is kept.        *)
LEMMA NewRunner ==
  /\ Good(NoParse.db) /\ NoParse \in Parses /\ NoParse.pc = "off"
  /\ NoParse.read = {} /\ NoParse.seen = {}
  /\ NoCrawl \in Crawls /\ NoCrawl.sent = {} /\ NoCrawl.file = None
  /\ NoCrawl.scoop = "off" /\ NoCrawl.winget = "off"
  /\ [i \in Ids |-> Unlisted] \in Manifests
  BY EmptyGood DEF NoParse, Parses, ParseLabels, NoCrawl, Crawls, ScoopLabels, WingetLabels,
                   Manifests, Good

LEMMA StartKeepsInv ==
  ASSUME Inv, NEW sameDate \in BOOLEAN, NEW evicted \in BOOLEAN, StartJob(sameDate, evicted)
  PROVE  Inv'
  <1> DEFINE base == IF evicted THEN None ELSE flow.cache
             t == flow.today /\ sameDate /\ ~evicted
  <1>1. /\ day < MaxRuns /\ day' = day + 1 /\ upstream' \in Feeds /\ crawl' = StartedCrawl
        /\ parse' = [NoParse EXCEPT !.pc = "open"] /\ catalog' = base
        /\ flow' = [flow EXCEPT !.pc = "build", !.base = base, !.cache = base, !.today = t]
    BY DEF StartJob
  <1>2. t \in BOOLEAN
    OBVIOUS
  <1>3. base \in Kept /\ (base # None => Good(base))
    BY DEF Inv, TypeOK, Flows, Kept, TablesGood, Catalogs
  <1> HIDE DEF base, t
  <1>4. /\ flow'.pc = "build" /\ flow'.base = base /\ flow'.cache = base
        /\ flow'.released = flow.released /\ flow' \in Flows
    BY <1>1, <1>2, <1>3 DEF Inv, TypeOK, Flows, FlowLabels
  <1>5. /\ parse'.pc = "open" /\ parse'.db = NoParse.db /\ parse'.read = {} /\ parse'.seen = {}
        /\ parse' \in Parses
    BY <1>1, NewRunner DEF NoParse, Parses, ParseLabels
  <1>6. /\ crawl'.sent = {} /\ crawl'.file = None /\ crawl'.scoop = "sync"
        /\ crawl'.winget = "stage" /\ crawl' \in Crawls
    BY <1>1 DEF StartedCrawl, NoCrawl, Crawls, ScoopLabels, WingetLabels
  <1>7. TypeOK'
    <2>1. upstream' \in Manifests
      BY <1>1, CrawlerAssumption DEF Manifests
    <2>2. day' \in 0..MaxRuns
      BY <1>1, ParserAssumption DEF Inv, TypeOK
    <2> QED BY <1>1, <1>3, <1>4, <1>5, <1>6, <2>1, <2>2 DEF TypeOK
  <1>8. TablesGood'
    <2>1. flow.released # None => Good(flow.released)
      BY DEF Inv, TablesGood, Catalogs
    <2> QED BY <1>1, <1>3, <1>4, <1>5, <2>1, NewRunner DEF TablesGood, Catalogs
  <1>9. CrawlFaithful' /\ ParseFaithful'
    BY <1>1, <1>4, <1>5, <1>6 DEF CrawlFaithful, ParseFaithful
  <1>10. BuildFollows' /\ DeltasFollow' /\ WholeCatalog'
    BY <1>4, <1>5 DEF BuildFollows, DeltasFollow, WholeCatalog
  <1> QED BY <1>7, <1>8, <1>9, <1>10 DEF Inv

(* Whatever ends the job with the runner, and saves a catalog or none.     *)
LEMMA JobEndKeepsInv ==
  ASSUME Inv, RunnerGone,
         NEW cache, cache = flow.cache \/ cache = flow.base,
         NEW t \in BOOLEAN,
         flow' = [flow EXCEPT !.pc = "idle", !.base = None, !.cache = cache, !.today = t]
  PROVE  Inv'
  <1>1. cache \in Kept /\ (cache # None => Good(cache))
    BY DEF Inv, TypeOK, Flows, Kept, TablesGood, Catalogs
  <1>2. /\ flow'.pc = "idle" /\ flow'.base = None /\ flow'.cache = cache
        /\ flow'.released = flow.released /\ flow' \in Flows
    BY <1>1 DEF Inv, TypeOK, Flows, FlowLabels, Kept
  <1>3. /\ upstream' = [i \in Ids |-> Unlisted] /\ crawl' = NoCrawl /\ parse' = NoParse
        /\ catalog' = None /\ day' = day
    BY DEF RunnerGone
  <1>4. TypeOK'
    BY <1>2, <1>3, NewRunner DEF Inv, TypeOK, Kept
  <1>5. TablesGood'
    <2>1. flow.released # None => Good(flow.released)
      BY DEF Inv, TablesGood, Catalogs
    <2> QED BY <1>1, <1>2, <1>3, <2>1, NewRunner DEF TablesGood, Catalogs
  <1>6. CrawlFaithful' /\ ParseFaithful'
    BY <1>2, <1>3, NewRunner DEF CrawlFaithful, ParseFaithful
  <1>7. BuildFollows' /\ DeltasFollow' /\ WholeCatalog'
    BY <1>2, <1>3, NewRunner DEF BuildFollows, DeltasFollow, WholeCatalog
  <1> QED BY <1>4, <1>5, <1>6, <1>7 DEF Inv

(* A build that passes took every line of a crawl that reached its end.    *)
LEMMA PassedBuildIsWhole ==
  ASSUME Inv, BuildPasses
  PROVE  /\ Held(catalog) = {i \in Ids : Readable(i)}
         /\ \A i \in Held(catalog) : catalog.pkgs[i].content = upstream[i]
         /\ InstallersMatch(catalog)
  <1>1. /\ Taken /\ catalog = parse.db /\ crawl.sent \subseteq parse.read
        /\ crawl.file \subseteq parse.read /\ Held(parse.db) \subseteq parse.seen
        /\ \A x \in parse.db.inst : x.pkg \in parse.seen
        /\ ScoopListed \subseteq crawl.sent /\ Listed(Winget) \subseteq crawl.file
        /\ parse.read \in SUBSET Ids
    BY DEF BuildPasses, CrawlSucceeded, Inv, ParseFaithful, CrawlFaithful, TypeOK, Parses
  <1>2. parse.read = {i \in Ids : upstream[i] # Unlisted}
    BY <1>1 DEF Taken, ScoopListed, Listed
  <1>3. parse.seen = {i \in Ids : Readable(i)}
    <2>1. upstream \in Manifests /\ Unlisted \notin Contents /\ Refused \notin Contents
      BY CrawlerAssumption DEF Inv, TypeOK
    <2> QED BY <1>1, <1>2, <2>1 DEF Taken, Manifests, Readable
  <1>4. Held(catalog) = parse.seen
    BY <1>1 DEF Taken
  <1>5. \A i \in parse.seen : catalog.pkgs[i].content = upstream[i]
    BY <1>1 DEF Taken
  <1>6. InstallersMatch(catalog)
    <2>1. \A i \in parse.seen :
             {x.key : x \in {x \in catalog.inst : x.pkg = i}} = Offers[catalog.pkgs[i].content]
      BY <1>1, <1>5 DEF Taken
    <2>2. ASSUME NEW x \in catalog.inst
          PROVE  x.pkg \in Held(catalog) /\ x.key \in Offers[catalog.pkgs[x.pkg].content]
      BY <1>1, <1>4, <2>1
    <2>3. ASSUME NEW i \in Held(catalog), NEW k \in Offers[catalog.pkgs[i].content]
          PROVE  \E x \in catalog.inst : <<x.pkg, x.key>> = <<i, k>>
      <3>1. k \in {x.key : x \in {x \in catalog.inst : x.pkg = i}}
        BY <1>4, <2>1
      <3> QED BY <3>1
    <2>4. Good(catalog) /\ catalog.lists \in SUBSET (Nat \X Contents)
      <3>1. Good(catalog)
        BY <1>1 DEF Inv, TablesGood
      <3>2. catalog \in Databases
        BY <3>1 DEF Good
      <3> QED BY <3>1, <3>2, DbFields
    <2>5. \A x \in catalog.inst : ListsOf(catalog, x) = {catalog.pkgs[x.pkg].content}
      BY <1>1, <1>5 DEF Taken
    <2>6. ASSUME NEW x \in catalog.inst
          PROVE  <<x.id, catalog.pkgs[x.pkg].content>> \in catalog.lists
      BY <2>5 DEF ListsOf
    <2>7. ASSUME NEW l \in catalog.lists
          PROVE  \E x \in catalog.inst : l = <<x.id, catalog.pkgs[x.pkg].content>>
      <3>1. PICK x \in catalog.inst : x.id = l[1]
        BY <2>4 DEF Good, ListsArePlaced
      <3>2. l = <<x.id, l[2]>> /\ l[2] \in Contents
        BY <2>4, <3>1
      <3>3. l[2] \in ListsOf(catalog, x)
        BY <3>2 DEF ListsOf
      <3> QED BY <2>5, <3>2, <3>3
    <2>8. catalog.lists = {<<x.id, catalog.pkgs[x.pkg].content>> : x \in catalog.inst}
      BY <2>6, <2>7
    <2> DEFINE Rows == {<<x.pkg, x.key>> : x \in catalog.inst}
               Own(i) == {i} \X Offers[catalog.pkgs[i].content]
    <2>9. ASSUME NEW r \in Rows
          PROVE  \E i \in Held(catalog) : r \in Own(i)
      <3>1. PICK x \in catalog.inst : r = <<x.pkg, x.key>>
        OBVIOUS
      <3> QED BY <2>2, <3>1
    <2>10. ASSUME NEW i \in Held(catalog), NEW r \in Own(i)
           PROVE  r \in Rows
      <3>1. PICK k \in Offers[catalog.pkgs[i].content] : r = <<i, k>>
        OBVIOUS
      <3>2. PICK x \in catalog.inst : <<x.pkg, x.key>> = <<i, k>>
        BY <2>3
      <3> QED BY <3>1, <3>2
    <2>11. Rows = UNION {Own(i) : i \in Held(catalog)}
      <3> HIDE DEF Rows, Own
      <3> QED BY <2>9, <2>10
    <2> QED BY <2>8, <2>11 DEF InstallersMatch
  <1> QED BY <1>3, <1>4, <1>5, <1>6

LEMMA EndBuildKeepsInv ==
  ASSUME Inv, EndBuild
  PROVE  Inv'
  <1>1. CASE ~BuildPasses
    <2>1. /\ RunnerGone /\ flow.today \in BOOLEAN
          /\ flow' = [flow EXCEPT !.pc = "idle", !.base = None]
      BY <1>1 DEF EndBuild, Inv, TypeOK, Flows
    <2>2. flow' = [flow EXCEPT !.pc = "idle", !.base = None, !.cache = flow.cache,
                               !.today = flow.today]
      BY <2>1 DEF Inv, TypeOK, Flows
    <2> QED BY <2>1, <2>2, JobEndKeepsInv
  <1>2. CASE BuildPasses
    <2>1. /\ upstream' = upstream /\ catalog' = catalog /\ day' = day /\ crawl' = NoCrawl
          /\ parse' = NoParse /\ flow' = [flow EXCEPT !.pc = "publish", !.base = catalog]
      BY <1>2 DEF EndBuild
    <2>2. /\ flow'.pc = "publish" /\ flow'.base = catalog /\ flow'.cache = flow.cache
          /\ flow'.released = flow.released /\ flow' \in Flows
      BY <2>1 DEF Inv, TypeOK, Flows, FlowLabels
    <2>3. TypeOK'
      BY <2>1, <2>2, NewRunner DEF Inv, TypeOK
    <2>4. TablesGood'
      BY <2>1, <2>2, NewRunner DEF Inv, TablesGood, Catalogs
    <2>5. CrawlFaithful' /\ ParseFaithful'
      BY <2>1, <2>2, NewRunner DEF CrawlFaithful, ParseFaithful
    <2>6. BuildFollows' /\ DeltasFollow'
      BY <2>1, <2>2, NewRunner DEF BuildFollows, DeltasFollow
    <2>7. WholeCatalog'
      BY <1>2, <2>1, PassedBuildIsWhole DEF WholeCatalog, Readable
    <2> QED BY <2>3, <2>4, <2>5, <2>6, <2>7 DEF Inv
  <1> QED BY <1>1, <1>2

LEMMA PublishKeepsInv ==
  ASSUME Inv, PublishRelease
  PROVE  Inv'
  <1>1. /\ UNCHANGED <<upstream, crawl, parse, catalog, day>> /\ flow.pc = "publish"
        /\ flow' = [flow EXCEPT !.pc = "materialize", !.released = catalog]
    BY DEF PublishRelease
  <1>2. /\ flow'.pc = "materialize" /\ flow'.base = flow.base /\ flow'.cache = flow.cache
        /\ flow'.released = catalog /\ flow' \in Flows
    BY <1>1 DEF Inv, TypeOK, Flows, FlowLabels
  <1>3. TypeOK'
    BY <1>1, <1>2 DEF Inv, TypeOK
  <1>4. TablesGood'
    BY <1>1, <1>2 DEF Inv, TablesGood, Catalogs
  <1>5. CrawlFaithful'
    BY <1>1, CrawlUntouched DEF Inv
  <1>6. parse'.pc = "off" /\ ParseFaithful'
    BY <1>1, <1>2 DEF Inv, ParseFaithful
  <1>7. BuildFollows' /\ DeltasFollow' /\ WholeCatalog'
    BY <1>1, <1>2, <1>6 DEF Inv, BuildFollows, DeltasFollow, WholeCatalog, Readable
  <1> QED BY <1>3, <1>4, <1>5, <1>6, <1>7 DEF Inv

LEMMA CompleteKeepsInv ==
  ASSUME Inv, CompleteJob
  PROVE  Inv'
  <1>1. flow \in Flows /\ flow.today \in BOOLEAN /\ RunnerGone
    BY DEF Inv, TypeOK, Flows, CompleteJob
  <1>2. CASE flow.today
    <2>1. flow' = [flow EXCEPT !.pc = "idle", !.base = None]
      BY <1>2 DEF CompleteJob
    <2>2. flow' = [flow EXCEPT !.pc = "idle", !.base = None, !.cache = flow.cache,
                               !.today = flow.today]
      BY <1>1, <2>1 DEF Flows
    <2> QED BY <1>1, <2>2, JobEndKeepsInv
  <1>3. CASE ~flow.today
    <2>1. flow' = [flow EXCEPT !.pc = "idle", !.base = None, !.cache = flow.base, !.today = TRUE]
      BY <1>3 DEF CompleteJob
    <2> QED BY <1>1, <2>1, JobEndKeepsInv
  <1> QED BY <1>2, <1>3

LEMMA JobFailsKeepsInv ==
  ASSUME Inv, JobFails
  PROVE  Inv'
  <1>1. /\ flow \in Flows /\ flow.today \in BOOLEAN /\ RunnerGone
        /\ flow' = [flow EXCEPT !.pc = "idle", !.base = None]
    BY DEF Inv, TypeOK, Flows, JobFails
  <1>2. flow' = [flow EXCEPT !.pc = "idle", !.base = None, !.cache = flow.cache,
                             !.today = flow.today]
    BY <1>1 DEF Flows
  <1> QED BY <1>1, <1>2, JobEndKeepsInv
--------------------------------------------------------------------------------
LEMMA InitInv == Init => Inv
  <1> SUFFICES ASSUME Init PROVE Inv
    OBVIOUS
  <1>1. /\ upstream = [i \in Ids |-> Unlisted] /\ crawl = NoCrawl /\ parse = NoParse
        /\ catalog = None /\ day = 0 /\ flow.pc = "idle" /\ flow.base = None
        /\ flow.cache = None /\ flow.released = None /\ flow \in Flows
    BY DEF Init, Flows, FlowLabels, Kept
  <1>2. TypeOK
    BY <1>1, NewRunner, ParserAssumption DEF TypeOK, Kept
  <1>3. TablesGood /\ CrawlFaithful /\ ParseFaithful
    BY <1>1, NewRunner DEF TablesGood, Catalogs, CrawlFaithful, ParseFaithful
  <1>4. BuildFollows /\ DeltasFollow /\ WholeCatalog
    BY <1>1, NewRunner DEF BuildFollows, DeltasFollow, WholeCatalog
  <1> QED BY <1>2, <1>3, <1>4 DEF Inv

LEMMA StutterKeepsInv ==
  ASSUME Inv, UNCHANGED vars
  PROVE  Inv'
  <1>1. UNCHANGED <<upstream, crawl, parse, catalog, day, flow>>
    BY DEF vars
  <1>2. TypeOK' /\ TablesGood' /\ CrawlFaithful' /\ BuildFollows' /\ DeltasFollow'
    BY <1>1, CrawlUntouched
       DEF Inv, TypeOK, TablesGood, Catalogs, BuildFollows, DeltasFollow
  <1>3. WholeCatalog'
    BY <1>1 DEF Inv, WholeCatalog, Readable
  <1>4. ParseFaithful'
    BY <1>1, CrawlUntouched DEF Inv, ParseFaithful, Taken
  <1> QED BY <1>1, <1>2, <1>3, <1>4, CrawlUntouched DEF Inv

LEMMA StepKeepsInv == Inv /\ [Next]_vars => Inv'
  <1> SUFFICES ASSUME Inv, [Next]_vars PROVE Inv'
    OBVIOUS
  <1>1. ASSUME NEW sameDate \in BOOLEAN, NEW evicted \in BOOLEAN, StartJob(sameDate, evicted)
        PROVE  Inv'
    BY <1>1, StartKeepsInv
  <1>2. CASE CrawlerStep
    BY <1>2, CrawlStepKeepsInv
       DEF CrawlerStep, CrawlMoves, PipeLine, PipeBreaks, BreakPipe
  <1>3. CASE ParserStep
    BY <1>3, ParserKeepsInv DEF ParserStep
  <1>4. CASE BuildFault
    BY <1>4, CrawlStepKeepsInv, ParserKeepsInv DEF BuildFault, CrawlMoves
  <1>5. CASE JobStep
    BY <1>5, EndBuildKeepsInv, PublishKeepsInv, CompleteKeepsInv DEF JobStep
  <1>6. CASE JobFails
    BY <1>6, JobFailsKeepsInv
  <1>7. CASE UNCHANGED vars
    BY <1>7, StutterKeepsInv
  <1> QED BY <1>1, <1>2, <1>3, <1>4, <1>5, <1>6, <1>7 DEF Next

(* The strengthened invariant holds in every state.                        *)
THEOREM NightlyInvariant == Spec => []Inv
  BY InitInv, StepKeepsInv, PTL DEF Spec
--------------------------------------------------------------------------------
(* Every variable has its type.                                            *)
THEOREM TypesHold == Spec => []TypeOK
  <1>1. Inv => TypeOK
    BY DEF Inv
  <1> QED BY <1>1, NightlyInvariant, PTL

(* In every catalog kept anywhere the index matches its packages, and      *)
(* rowids and installer ids are keys (CatalogWriter over catalog.sql).     *)
THEOREM CatalogsAgree == Spec => []TablesAgree
  <1>1. Inv => TablesAgree
    BY DEF Inv, TablesGood, TablesAgree, Good
  <1> QED BY <1>1, NightlyInvariant, PTL

(* What a build commits has every package and installer of the catalog it  *)
(* began from under the number it had there (sync_installers).             *)
THEOREM BuildsFollowTheirBase == Spec => []DeltasFollow
  <1>1. Inv => DeltasFollow
    BY DEF Inv
  <1> QED BY <1>1, NightlyInvariant, PTL

(* A catalog gets as far as the publisher only if it holds every readable  *)
(* package of the crawl, as it was, and nothing else (catalog.yml).        *)
THEOREM PublishedCatalogIsWhole == Spec => []WholeCatalog
  <1>1. Inv => WholeCatalog
    BY DEF Inv
  <1> QED BY <1>1, NightlyInvariant, PTL
--------------------------------------------------------------------------------
(* What is released was published whole, and there is a catalog to publish. *)
ReleaseWhole ==
    /\ flow.released # None => InstallersMatch(flow.released)
    /\ flow.pc \in {"publish", "materialize"} => catalog # None

LEMMA ReleaseStaysWhole ==
  ASSUME Inv, ReleaseWhole, [Next]_vars
  PROVE  ReleaseWhole'
  <1>1. flow = [pc |-> flow.pc, base |-> flow.base, cache |-> flow.cache,
                today |-> flow.today, released |-> flow.released]
    BY Fields DEF Inv
  <1>2. CASE flow'.released = flow.released /\ flow'.pc \in {"idle", "build"}
    BY <1>2 DEF ReleaseWhole
  <1>3. CASE flow' = flow /\ (catalog' = catalog \/ flow.pc = "build")
    BY <1>3 DEF ReleaseWhole
  <1>4. ASSUME NEW sameDate \in BOOLEAN, NEW evicted \in BOOLEAN, StartJob(sameDate, evicted)
        PROVE  ReleaseWhole'
    <2>1. PICK base, t : flow' = [flow EXCEPT !.pc = "build", !.base = base, !.cache = base,
                                              !.today = t]
      BY <1>4 DEF StartJob
    <2>2. flow'.released = flow.released /\ flow'.pc = "build"
      BY <1>1, <2>1
    <2> QED BY <1>2, <2>2
  <1>5. CASE CrawlerStep \/ ParserStep \/ BuildFault
    BY <1>3, <1>5 DEF CrawlerStep, ParserStep, BuildFault, PipeLine, PipeBreaks
  <1>6. CASE EndBuild
    <2>1. CASE BuildPasses
      <3>1. catalog = parse.db /\ Good(parse.db)
        BY <2>1 DEF BuildPasses, Inv, ParseFaithful, TablesGood
      <3>2. catalog # None
        BY <3>1, AbsentAssumption DEF Good
      <3>3. flow'.released = flow.released /\ catalog' = catalog
        BY <1>1, <1>6, <2>1 DEF EndBuild
      <3> QED BY <3>2, <3>3 DEF ReleaseWhole
    <2>2. CASE ~BuildPasses
      BY <1>1, <1>2, <1>6, <2>2 DEF EndBuild
    <2> QED BY <2>1, <2>2
  <1>7. CASE PublishRelease
    <2>1. /\ flow'.released = catalog /\ flow'.pc = "materialize" /\ catalog' = catalog
          /\ flow.pc = "publish"
      BY <1>1, <1>7 DEF PublishRelease
    <2> QED BY <2>1 DEF ReleaseWhole, Inv, WholeCatalog
  <1>8. CASE CompleteJob \/ JobFails
    <2>1. flow'.released = flow.released /\ flow'.pc = "idle"
      BY <1>1, <1>8 DEF CompleteJob, JobFails
    <2> QED BY <1>2, <2>1
  <1>9. CASE UNCHANGED vars
    BY <1>3, <1>9 DEF vars
  <1> QED BY <1>4, <1>5, <1>6, <1>7, <1>8, <1>9 DEF Next, JobStep

(* Whatever catalog a release was built on, the patch that is published    *)
(* with it turns the rows of the release before into its own, in every     *)
(* column the publisher knows; or the two have drifted apart and there is  *)
(* none (buildCatalogPatchSQLFromSnapshots).                               *)
THEOREM PatchesReproduceReleases == Spec => []PatchGivesTheRelease
  <1>1. Init => ReleaseWhole
    BY DEF Init, ReleaseWhole
  <1>2. Inv /\ ReleaseWhole /\ [Next]_vars => ReleaseWhole'
    BY ReleaseStaysWhole
  <1>3. Inv /\ ReleaseWhole => PatchGivesTheRelease
    <2> SUFFICES ASSUME Inv, ReleaseWhole, flow.pc = "publish", flow.released # None,
                        ~Drifted(flow.released, catalog)
                 PROVE  SameRows(ApplyPatch(flow.released, PatchBetween(flow.released, catalog)),
                                 catalog)
      BY DEF PatchGivesTheRelease
    <2>1. Good(catalog) /\ Good(flow.released)
      BY DEF Inv, TablesGood, Catalogs, ReleaseWhole
    <2>2. InstallersMatch(catalog) /\ InstallersMatch(flow.released)
      BY DEF Inv, WholeCatalog, ReleaseWhole
    <2>3. Patchable(flow.released, catalog)
      BY <2>1, <2>2 DEF Patchable
    <2> QED BY <2>3, PatchReproduces
  <1> QED BY <1>1, <1>2, <1>3, NightlyInvariant, PTL DEF Spec
================================================================================
