------------------------------- MODULE RulesProofs ------------------------------
(***************************************************************************)
(* Theorems of the rules, for any tables, catalogs, configurations, index  *)
(* rows, plans, registries and changes of the environment between commands.*)
(***************************************************************************)
EXTENDS Rules, NumberTheorems, SequenceTheorems

(* The walk over a Directory table.  What it has resolved is closed under  *)
(* parents, so that no endless row is ever resolved; what it is visiting   *)
(* is a chain of parents, which is endless when it meets itself or a row   *)
(* that is missing.                                                        *)
Walks == [status : {"running", "cycle", "missing", "done"}, visiting : Seq(DOMAIN rows),
          resolved : UNION {[D -> Seq(Directories)] : D \in SUBSET DOMAIN rows}]

TablesTyped == \E D \in SUBSET Directories : rows \in [D -> DirectoryRows]

Chained ==
    \A k \in 1..(Len(scan.visiting) - 1) : rows[scan.visiting[k]].parent = scan.visiting[k + 1]

Parented ==
    \A d \in Resolved :
       /\ rows[d].parent \in Resolved \union {Top}
       /\ scan.resolved[d] = PathFrom(IF rows[d].parent = Top THEN <<>>
                                      ELSE scan.resolved[rows[d].parent], d)

WalkInv ==
    /\ TablesTyped /\ scan \in Walks /\ Chained /\ Parented
    /\ \A S \in SUBSET Resolved : ~Endless(S)
    /\ scan.status = "done" => Resolved = DOMAIN rows
    /\ scan.status \in {"cycle", "missing"} => Endless(ToSet(scan.visiting))

LEMMA WalkImplies == WalkInv => DirectoriesResolve
  <1> SUFFICES ASSUME WalkInv PROVE DirectoriesResolve
    OBVIOUS
  <1>1. scan.status = "done" => DirectoriesResolve
    <2> SUFFICES ASSUME scan.status = "done" PROVE DirectoriesResolve
      OBVIOUS
    <2>1. Resolved = DOMAIN rows
      BY DEF WalkInv
    <2>2. ~\E S \in SUBSET DOMAIN rows : Endless(S)
      BY <2>1 DEF WalkInv
    <2> QED BY <2>1, <2>2 DEF DirectoriesResolve, WalkInv, Parented
  <1>2. scan.status # "done" => DirectoriesResolve
    <2>1. ToSet(scan.visiting) \in SUBSET DOMAIN rows
      BY DEF WalkInv, Walks, ToSet
    <2> QED BY <2>1 DEF WalkInv, DirectoriesResolve
  <1> QED BY <1>1, <1>2

LEMMA WalkBegins == Init => WalkInv
  <1> SUFFICES ASSUME Init PROVE WalkInv
    OBVIOUS
  <1>1. TablesTyped
    <2>1. rows \in Tables \/ rows = <<>>
      BY DEF Init
    <2>2. <<>> \in [{} -> DirectoryRows]
      OBVIOUS
    <2> QED BY <2>1, <2>2, DirectoryAssumption DEF TablesTyped
  <1>2. scan = NoScan
    BY DEF Init
  <1>3. <<>> \in [{} -> Seq(Directories)] /\ {} \in SUBSET DOMAIN rows
    OBVIOUS
  <1>4. scan \in Walks /\ Resolved = {} /\ Len(scan.visiting) = 0
    BY <1>2, <1>3 DEF NoScan, Walks, Resolved
  <1>5. scan.status = "running"
    BY <1>2 DEF NoScan
  <1> QED BY <1>1, <1>4, <1>5 DEF WalkInv, Chained, Parented, Endless

(* A row resolved after its parent makes no endless set of resolved rows.  *)
LEMMA ResolvedEnds ==
  ASSUME WalkInv, NEW d \in DOMAIN rows, rows[d].parent \in Resolved \union {Top},
         NEW S \in SUBSET (Resolved \union {d})
  PROVE  ~Endless(S)
  <1> SUFFICES ASSUME Endless(S) PROVE FALSE
    OBVIOUS
  <1>1. Resolved \subseteq DOMAIN rows
    BY DEF WalkInv, Walks, Resolved
  <1>2. CASE d \in Resolved
    BY <1>2 DEF WalkInv
  <1>3. CASE d \notin Resolved
    <2>1. \A e \in S : rows[e].parent \in S \ {d}
      <3> SUFFICES ASSUME NEW e \in S PROVE rows[e].parent \in S \ {d}
        OBVIOUS
      <3>1. rows[e].parent \in Resolved \union {Top}
        BY DEF WalkInv, Parented
      <3>2. rows[e].parent # Top /\ rows[e].parent \in S \union (Directories \ DOMAIN rows)
        BY DEF Endless
      <3> QED BY <1>1, <1>3, <3>1, <3>2
    <2>2. S \ {d} # {} /\ S \ {d} \in SUBSET Resolved
      BY <2>1 DEF Endless
    <2>3. Endless(S \ {d})
      BY <2>1, <2>2 DEF Endless
    <2> QED BY <2>2, <2>3 DEF WalkInv
  <1> QED BY <1>2, <1>3

LEMMA WalkGoesOn == WalkInv /\ ScanStep => WalkInv'
  <1> SUFFICES ASSUME WalkInv, ScanStep PROVE WalkInv'
    OBVIOUS
  <1>1. rows' = rows /\ TablesTyped' /\ rows \in [DOMAIN rows -> DirectoryRows]
    /\ DOMAIN rows \subseteq Directories /\ Top \notin Directories
    BY DirectoryAssumption DEF ScanStep, WalkInv, TablesTyped
  <1>2. /\ scan = [status |-> scan.status, visiting |-> scan.visiting, resolved |-> scan.resolved]
        /\ scan.visiting \in Seq(DOMAIN rows)
        /\ scan.resolved \in [Resolved -> Seq(Directories)] /\ Resolved \subseteq DOMAIN rows
    BY DEF WalkInv, Walks, Resolved
  <1>3. ASSUME VisitRow PROVE WalkInv'
    <2>1. PICK d \in DOMAIN rows \ Resolved : scan' = [scan EXCEPT !.visiting = <<d>>]
      BY <1>3 DEF VisitRow
    <2>2. scan' = [status |-> scan.status, visiting |-> <<d>>, resolved |-> scan.resolved]
      BY <1>2, <2>1
    <2>3. scan'.status = "running" /\ scan'.visiting = <<d>> /\ scan'.resolved = scan.resolved
      BY <1>3, <2>2 DEF VisitRow, Running
    <2>4. scan' \in Walks' /\ Chained'
      BY <1>1, <1>2, <2>2, <2>3 DEF Walks, Chained, WalkInv
    <2>5. Resolved' = Resolved /\ Parented'
      BY <1>1, <2>3 DEF Resolved, Parented, PathFrom, WalkInv
    <2>6. \A S \in SUBSET Resolved : ~Endless(S)'
      BY <1>1 DEF WalkInv, Endless
    <2> QED BY <1>1, <2>3, <2>4, <2>5, <2>6 DEF WalkInv
  <1>4. ASSUME VisitParent PROVE WalkInv'
    <2> DEFINE v == scan.visiting
               parent == rows[v[Len(v)]].parent
    <2>1. scan.status = "running" /\ v # <<>> /\ Len(v) \in Nat \ {0} /\ v[Len(v)] \in DOMAIN rows
      BY <1>2, <1>4 DEF VisitParent, Running, Visiting
    <2>2. /\ parent # Top /\ parent \notin Resolved
          /\ IF parent \in ToSet(v) THEN ScanFails("cycle")
             ELSE IF parent \notin DOMAIN rows THEN ScanFails("missing")
             ELSE scan' = [scan EXCEPT !.visiting = Append(@, parent)]
      BY <1>4 DEF VisitParent, ParentOf, Last
    <2>3. parent \in Directories
      BY <1>1, <2>1, <2>2 DEF DirectoryRows
    <2>4. \A S \in SUBSET Resolved : ~Endless(S)'
      BY <1>1 DEF WalkInv, Endless
    <2>5. CASE parent \in ToSet(v) \/ parent \notin DOMAIN rows
      <3>1. PICK why \in {"cycle", "missing"} : ScanFails(why)
        BY <2>2, <2>5
      <3>2. scan' = [status |-> why, visiting |-> v, resolved |-> scan.resolved]
        BY <1>2, <3>1 DEF ScanFails
      <3>3. scan'.status = why /\ scan'.visiting = v /\ scan'.resolved = scan.resolved
        BY <3>2
      <3>4. scan' \in Walks' /\ Chained'
        BY <1>1, <1>2, <3>2, <3>3 DEF Walks, Chained, WalkInv
      <3>5. Resolved' = Resolved /\ Parented'
        BY <1>1, <3>3 DEF Resolved, Parented, PathFrom, WalkInv
      <3>6. \A k \in 1..Len(v) : /\ rows[v[k]].parent # Top
                                 /\ rows[v[k]].parent \in ToSet(v) \union (Directories \ DOMAIN rows)
        <4> SUFFICES ASSUME NEW k \in 1..Len(v)
                     PROVE  /\ rows[v[k]].parent # Top
                            /\ rows[v[k]].parent \in ToSet(v) \union (Directories \ DOMAIN rows)
          OBVIOUS
        <4>1. CASE k = Len(v)
          BY <2>2, <2>3, <2>5, <4>1
        <4>2. CASE k # Len(v)
          <5>1. k \in 1..(Len(v) - 1) /\ k + 1 \in 1..Len(v)
            BY <2>1, <4>2
          <5>2. rows[v[k]].parent = v[k + 1]
            BY <5>1 DEF WalkInv, Chained
          <5>3. v[k + 1] \in DOMAIN rows /\ v[k + 1] \in ToSet(v)
            BY <1>2, <5>1 DEF ToSet
          <5> QED BY <1>1, <5>2, <5>3
        <4> QED BY <4>1, <4>2
      <3>7. ToSet(v) = {v[k] : k \in 1..Len(v)} /\ v[Len(v)] \in ToSet(v)
        BY <1>2, <2>1 DEF ToSet
      <3>8. Endless(ToSet(v))
        BY <3>6, <3>7 DEF Endless
      <3>9. Endless(ToSet(scan.visiting))'
        BY <1>1, <3>3, <3>8 DEF Endless, ToSet
      <3> QED BY <1>1, <2>4, <3>1, <3>3, <3>4, <3>5, <3>9 DEF WalkInv
    <2>6. CASE ~(parent \in ToSet(v) \/ parent \notin DOMAIN rows)
      <3>1. scan' = [scan EXCEPT !.visiting = Append(@, parent)]
        BY <2>2, <2>6
      <3>2. scan' = [status |-> "running", visiting |-> Append(v, parent), resolved |-> scan.resolved]
        BY <1>2, <2>1, <3>1
      <3>3. /\ scan'.status = "running" /\ scan'.visiting = Append(v, parent)
            /\ scan'.resolved = scan.resolved
        BY <3>2
      <3>4. Append(v, parent) \in Seq(DOMAIN rows) /\ Len(Append(v, parent)) = Len(v) + 1
        BY <1>2, <2>6
      <3>5. scan' \in Walks'
        BY <1>1, <1>2, <3>2, <3>4 DEF Walks
      <3>6. Chained'
        <4> SUFFICES ASSUME NEW k \in 1..Len(v)
                     PROVE  rows[Append(v, parent)[k]].parent = Append(v, parent)[k + 1]
          BY <1>1, <2>1, <3>3, <3>4 DEF Chained
        <4>1. Append(v, parent)[k] = v[k]
          BY <1>2, <2>6
        <4>2. CASE k = Len(v)
          <5>1. Append(v, parent)[k + 1] = parent
            BY <1>2, <2>6, <4>2
          <5> QED BY <4>1, <4>2, <5>1
        <4>3. CASE k # Len(v)
          <5>1. k \in 1..(Len(v) - 1) /\ k + 1 \in 1..Len(v)
            BY <2>1, <4>3
          <5>2. Append(v, parent)[k + 1] = v[k + 1]
            BY <1>2, <2>6, <5>1
          <5> QED BY <4>1, <5>1, <5>2 DEF WalkInv, Chained
        <4> QED BY <4>2, <4>3
      <3>7. Resolved' = Resolved /\ Parented'
        BY <1>1, <3>3 DEF Resolved, Parented, PathFrom, WalkInv
      <3> QED BY <1>1, <2>4, <3>3, <3>5, <3>6, <3>7 DEF WalkInv
    <2> QED BY <2>5, <2>6
  <1>5. ASSUME Join PROVE WalkInv'
    <2> DEFINE v == scan.visiting
    <2>1. PICK d, base : /\ d = v[Len(v)]
                         /\ base = IF rows[d].parent = Top THEN <<>> ELSE scan.resolved[rows[d].parent]
      OBVIOUS
    <2>2. scan.status = "running" /\ v # <<>> /\ Len(v) \in Nat \ {0} /\ d \in DOMAIN rows
      BY <1>2, <1>5, <2>1 DEF Join, Running, Visiting
    <2>3. /\ rows[d].parent \in Resolved \union {Top}
          /\ scan' = [scan EXCEPT !.visiting = Front(@),
                                  !.resolved = Remembering(@, d, PathFrom(base, d))]
      BY <1>5, <2>1 DEF Join, ParentOf, Last
    <2>4. PICK own : own = PathFrom(base, d)
      OBVIOUS
    <2>5. base \in Seq(Directories) /\ own \in Seq(Directories)
      <3>1. base \in Seq(Directories)
        BY <1>2, <2>1, <2>3
      <3>2. d \in Directories
        BY <1>1, <2>2
      <3> QED BY <2>4, <3>1, <3>2 DEF PathFrom
    <2>6. PICK after : after = [e \in Resolved \union {d} |-> IF e = d THEN own ELSE scan.resolved[e]]
      OBVIOUS
    <2>7. Remembering(scan.resolved, d, PathFrom(base, d)) = after
      BY <2>4, <2>6 DEF Remembering, Resolved
    <2>8. scan' = [status |-> "running", visiting |-> Front(v), resolved |-> after]
      BY <1>2, <2>2, <2>3, <2>7
    <2>9. /\ scan'.status = "running" /\ scan'.visiting = Front(v) /\ scan'.resolved = after
          /\ Resolved' = Resolved \union {d}
      BY <2>6, <2>8 DEF Resolved
    <2>10. /\ Front(v) \in Seq(DOMAIN rows) /\ Len(Front(v)) = Len(v) - 1
           /\ \A k \in 1..(Len(v) - 1) : Front(v)[k] = v[k]
      <3>1. Len(v) - 1 \in Nat /\ Len(v) - 1 <= Len(v)
        BY <2>2
      <3>2. Front(v) = [k \in 1..(Len(v) - 1) |-> v[k]]
        BY <1>2, <2>2, <3>1 DEF Front
      <3>3. \A k \in 1..(Len(v) - 1) : v[k] \in DOMAIN rows
        BY <1>2, <2>2
      <3> QED BY <3>1, <3>2, <3>3
    <2>11. scan' \in Walks'
      <3>1. after \in [Resolved \union {d} -> Seq(Directories)] /\ Resolved \union {d} \subseteq DOMAIN rows
        BY <1>2, <2>2, <2>5, <2>6
      <3> QED BY <1>1, <2>8, <2>10, <3>1 DEF Walks
    <2>12. Chained'
      <3> SUFFICES ASSUME NEW k \in 1..(Len(v) - 2)
                   PROVE  rows[Front(v)[k]].parent = Front(v)[k + 1]
        BY <1>1, <2>2, <2>9, <2>10 DEF Chained
      <3>1. k \in 1..(Len(v) - 1) /\ k + 1 \in 1..(Len(v) - 1)
        BY <2>2
      <3> QED BY <2>10, <3>1 DEF WalkInv, Chained
    <2>13. own = PathFrom(IF rows[d].parent = Top THEN <<>> ELSE after[rows[d].parent], d)
      <3>1. CASE rows[d].parent = d
        <4>1. d \in Resolved /\ rows[d].parent # Top
          BY <1>1, <2>2, <2>3, <3>1
        <4>2. scan.resolved[d] = PathFrom(scan.resolved[d], d)
          BY <3>1, <4>1 DEF WalkInv, Parented
        <4> QED BY <2>1, <2>4, <2>6, <3>1, <4>1, <4>2
      <3>2. CASE rows[d].parent # d
        BY <2>1, <2>3, <2>4, <2>6, <3>2
      <3> QED BY <3>1, <3>2
    <2>14. \A e \in Resolved : after[e] = scan.resolved[e]
      <3>1. d \in Resolved => own = scan.resolved[d]
        BY <2>1, <2>4 DEF WalkInv, Parented
      <3> QED BY <2>6, <3>1
    <2>15. \A e \in Resolved \union {d} :
              /\ rows[e].parent \in Resolved \union {d, Top}
              /\ after[e] = PathFrom(IF rows[e].parent = Top THEN <<>> ELSE after[rows[e].parent], e)
      <3> SUFFICES ASSUME NEW e \in Resolved
                   PROVE  /\ rows[e].parent \in Resolved \union {d, Top}
                          /\ after[e] = PathFrom(IF rows[e].parent = Top THEN <<>>
                                                 ELSE after[rows[e].parent], e)
        BY <2>3, <2>6, <2>13
      <3>1. /\ rows[e].parent \in Resolved \union {Top}
            /\ scan.resolved[e] = PathFrom(IF rows[e].parent = Top THEN <<>>
                                           ELSE scan.resolved[rows[e].parent], e)
        BY DEF WalkInv, Parented
      <3> QED BY <2>14, <3>1
    <2>16. Parented'
      BY <1>1, <2>9, <2>15 DEF Parented, PathFrom
    <2>17. \A S \in SUBSET (Resolved \union {d}) : ~Endless(S)'
      <3>1. \A S \in SUBSET (Resolved \union {d}) : ~Endless(S)
        BY <2>2, <2>3, ResolvedEnds
      <3> QED BY <1>1, <3>1 DEF Endless
    <2> QED BY <1>1, <2>9, <2>11, <2>12, <2>16, <2>17 DEF WalkInv
  <1>6. ASSUME ScanEnds PROVE WalkInv'
    <2>1. /\ scan.status = "running" /\ DOMAIN rows \subseteq Resolved
          /\ scan' = [scan EXCEPT !.status = "done"]
      BY <1>6 DEF ScanEnds, Running
    <2>2. scan' = [status |-> "done", visiting |-> scan.visiting, resolved |-> scan.resolved]
      BY <1>2, <2>1
    <2>3. /\ scan'.status = "done" /\ scan'.visiting = scan.visiting /\ scan'.resolved = scan.resolved
      BY <2>2
    <2>4. scan' \in Walks' /\ Chained'
      BY <1>1, <1>2, <2>2, <2>3 DEF Walks, Chained, WalkInv
    <2>5. Resolved' = Resolved /\ Parented'
      BY <1>1, <2>3 DEF Resolved, Parented, PathFrom, WalkInv
    <2>6. \A S \in SUBSET Resolved : ~Endless(S)'
      BY <1>1 DEF WalkInv, Endless
    <2> QED BY <1>1, <1>2, <2>1, <2>3, <2>4, <2>5, <2>6 DEF WalkInv
  <1> QED BY <1>3, <1>4, <1>5, <1>6 DEF ScanStep

LEMMA WalkStays == WalkInv /\ [Next]_vars => WalkInv'
  <1> SUFFICES ASSUME WalkInv, [Next]_vars PROVE WalkInv'
    OBVIOUS
  <1>1. CASE Scan
    BY <1>1, WalkGoesOn DEF Scan
  <1>2. CASE UNCHANGED <<rows, scan>>
    <2>1. TablesTyped' /\ (scan \in Walks)' /\ Chained'
      BY <1>2 DEF WalkInv, TablesTyped, Walks, Chained
    <2>2. Parented' /\ Resolved' = Resolved
      BY <1>2 DEF WalkInv, Parented, Resolved, PathFrom
    <2>3. \A S : Endless(S)' <=> Endless(S)
      BY <1>2 DEF Endless
    <2>4. (scan.status \in {"cycle", "missing"} => Endless(ToSet(scan.visiting)))'
      BY <1>2, <2>3 DEF WalkInv, ToSet
    <2> QED BY <1>2, <2>1, <2>2, <2>3, <2>4 DEF WalkInv
  <1> QED BY <1>1, <1>2 DEF Next, vars, Try, Use, AnswerInstaller, AnswerCommands, AnswerVersion,
                            AnswerManifest, AnswerSetting, AnswerUninstaller, PremisesStep, RetryStep

(* A walk over any Directory table, in any order of its rows, ends well    *)
(* exactly when every row leads to a root, and each row's path is then its *)
(* parent's with its own name; a cycle or a missing row gives no paths.    *)
THEOREM EveryTableResolves == Spec => []DirectoriesResolve
  <1>1. Spec => []WalkInv
    <2>1. WalkInv /\ [Next]_vars => WalkInv'
      BY WalkStays
    <2> QED BY <2>1, WalkBegins, PTL DEF Spec
  <1> QED BY <1>1, WalkImplies, PTL
--------------------------------------------------------------------------------
(* The premises.  A registered font is the one its value is named for, so  *)
(* that a file never goes without every value that names it.               *)
FontsMatch(fonts) ==
    /\ fonts = [files |-> fonts.files, values |-> fonts.values]
    /\ fonts.values = [n \in DOMAIN fonts.values |-> fonts.values[n]]
    /\ \A n \in DOMAIN fonts.values :
          fonts.values[n] \in fonts.files /\ n = FontRegistryValueName(fonts.values[n])

InstalledAt(pkg, dir) == \E r \in index : r.status = "ok" /\ r.pkg = pkg /\ r.dir = dir

JournalsOwned == \A j \in disk.journals : PkgdbOfDir(j.dir) = j.pkgdb => InstalledAt(j.pkg, j.dir)
ShimsOwned == \A s \in disk.shims : ShimsOfDir(s.dir) = s.shims => InstalledAt(s.pkg, s.dir)

DiskTyped == disk = [dirs |-> disk.dirs, journals |-> disk.journals, shims |-> disk.shims]
WindowsTyped == windows = [fonts |-> windows.fonts, registered |-> windows.registered]

PremisesInv ==
    offered # {} =>
      DiskTyped /\ WindowsTyped /\ JournalsOwned /\ ShimsOwned /\ FontsMatch(windows.fonts)

LEMMA PremisesImply == PremisesInv => NothingIsLeftBehind
  BY DEF PremisesInv, NothingIsLeftBehind, JournalsOwned, ShimsOwned, FontsMatch, InstalledAt

LEMMA PremisesBegin == Init => PremisesInv
  <1> SUFFICES ASSUME Init, offered # {} PROVE PremisesInv
    BY DEF PremisesInv
  <1>1. PremisesInit
    BY DEF Init, NoPremises
  <1>2. DiskTyped /\ WindowsTyped /\ JournalsOwned /\ ShimsOwned
    BY <1>1 DEF PremisesInit, DiskTyped, WindowsTyped, JournalsOwned, ShimsOwned
  <1>3. FontsMatch(windows.fonts)
    <2>1. windows.fonts = [files |-> {}, values |-> <<>>]
      BY <1>1 DEF PremisesInit
    <2>2. DOMAIN <<>> = {} /\ <<>> = [n \in {} |-> <<>>[n]]
      OBVIOUS
    <2> QED BY <2>1, <2>2 DEF FontsMatch
  <1> QED BY <1>2, <1>3 DEF PremisesInv

LEMMA FontRemoved ==
  ASSUME NEW fonts, NEW file, FontsMatch(fonts)
  PROVE  FontsMatch(RemoveUserFont(fonts, file))
  <1>1. PICK name : name = FontRegistryValueName(file)
    OBVIOUS
  <1>2. PICK left : left = [n \in DOMAIN fonts.values \ {name} |-> fonts.values[n]]
    OBVIOUS
  <1>3. RemoveUserFont(fonts, file) = [files |-> fonts.files \ {file}, values |-> left]
    BY <1>1, <1>2 DEF RemoveUserFont, Without, Restrict
  <1>4. \A n \in DOMAIN left : /\ n \in DOMAIN fonts.values /\ n # name
                               /\ left[n] = fonts.values[n]
    BY <1>2
  <1>5. \A n \in DOMAIN left : left[n] \in fonts.files \ {file} /\ n = FontRegistryValueName(left[n])
    BY <1>1, <1>4 DEF FontsMatch
  <1>6. left = [n \in DOMAIN left |-> left[n]]
    BY <1>2
  <1> QED BY <1>3, <1>5, <1>6 DEF FontsMatch

LEMMA FontInstalled ==
  ASSUME NEW fonts, NEW file, NEW loads, FontsMatch(fonts)
  PROVE  FontsMatch(InstallUserFont(fonts, file, loads))
  <1>1. PICK name : name = FontRegistryValueName(file)
    OBVIOUS
  <1>2. PICK all : all = [n \in DOMAIN fonts.values \union {name} |->
                            IF n = name THEN file ELSE fonts.values[n]]
    OBVIOUS
  <1>3. \/ InstallUserFont(fonts, file, loads) = fonts
        \/ InstallUserFont(fonts, file, loads) = RemoveUserFont(fonts, file)
        \/ InstallUserFont(fonts, file, loads) = [files |-> fonts.files \union {file}, values |-> all]
    BY <1>1, <1>2 DEF InstallUserFont, WithValue
  <1>4. \A n \in DOMAIN all : all[n] \in fonts.files \union {file} /\ n = FontRegistryValueName(all[n])
    BY <1>1, <1>2 DEF FontsMatch
  <1>5. all = [n \in DOMAIN all |-> all[n]]
    BY <1>2
  <1>6. FontsMatch([files |-> fonts.files \union {file}, values |-> all])
    BY <1>4, <1>5 DEF FontsMatch
  <1> QED BY <1>3, <1>6, FontRemoved

(* What Windows has after an engine is what it had, but for the fonts of   *)
(* the package and what is registered.                                     *)
FontsAfter(machine) == /\ machine = [fonts |-> machine.fonts, registered |-> machine.registered]
                       /\ FontsMatch(machine.fonts)

LEMMA EngineKeepsFonts ==
  ASSUME FontsAfter(windows), NEW p, NEW dir, NEW outcome \in EngineInstall(p, dir)
  PROVE  FontsAfter(outcome.windows)
  <1>1. ASSUME NEW fonts, FontsMatch(fonts) PROVE FontsAfter([windows EXCEPT !.fonts = fonts])
    <2>1. [windows EXCEPT !.fonts = fonts] = [fonts |-> fonts, registered |-> windows.registered]
      BY DEF FontsAfter
    <2> QED BY <1>1, <2>1 DEF FontsAfter
  <1>2. ASSUME NEW registered PROVE FontsAfter([windows EXCEPT !.registered = registered])
    <2>1. [windows EXCEPT !.registered = registered]
             = [fonts |-> windows.fonts, registered |-> registered]
      BY DEF FontsAfter
    <2> QED BY <2>1 DEF FontsAfter
  <1>3. ASSUME NEW machine, FontsAfter(machine)
        PROVE  /\ FontsAfter(Failure(machine).windows)
               /\ \A d, made, full : FontsAfter(Receipt(d, made, machine, full).windows)
    BY <1>3 DEF Failure, Receipt
  <1>4. CASE outcome = Failure(windows)
    BY <1>3, <1>4
  <1>5. CASE outcome # Failure(windows)
    <2>1. CASE p.kind = "msi"
      <3>1. PICK location \in Locations :
               outcome = LET d == ResolveInstallDir(Registry(p, location), p.name, dir)
                         IN Receipt(d, {dir, d}, windows, {})
        BY <1>5, <2>1 DEF EngineInstall
      <3> QED BY <1>3, <3>1
    <2>2. CASE p.kind = "msix"
      <3>1. PICK done, machine :
               /\ machine = [windows EXCEPT !.registered = done.registered]
               /\ \/ outcome = Failure(machine)
                  \/ outcome = Receipt(dir, {dir}, machine, done.full)
        BY <1>5, <2>2 DEF EngineInstall
      <3>2. FontsAfter(machine)
        BY <1>2, <3>1
      <3> QED BY <1>3, <3>1, <3>2
    <2>3. CASE p.kind = "font"
      <3>1. PICK loads \in BOOLEAN : \E machine :
               /\ machine = [windows EXCEPT !.fonts = InstallUserFont(@, p.file, loads)]
               /\ \/ outcome = Failure(machine)
                  \/ outcome = Receipt(InstalledPath(p.file), {}, machine, {})
        BY <1>5, <2>3 DEF EngineInstall
      <3>2. PICK machine :
               /\ machine = [windows EXCEPT !.fonts = InstallUserFont(@, p.file, loads)]
               /\ \/ outcome = Failure(machine)
                  \/ outcome = Receipt(InstalledPath(p.file), {}, machine, {})
        BY <3>1
      <3>3. FontsAfter(machine)
        BY <1>1, <3>2, FontInstalled DEF FontsAfter
      <3> QED BY <1>3, <3>2, <3>3
    <2>4. CASE p.kind \notin {"msi", "msix", "font"}
      <3>1. outcome = Receipt(dir, {dir}, windows, {})
        BY <1>5, <2>4 DEF EngineInstall
      <3> QED BY <1>3, <3>1
    <2> QED BY <2>1, <2>2, <2>3, <2>4
  <1> QED BY <1>4, <1>5

LEMMA PremisesGoOn == PremisesInv /\ PremisesStep => PremisesInv'
  <1> SUFFICES ASSUME PremisesInv, PremisesStep, offered' # {} PROVE PremisesInv'
    BY DEF PremisesInv
  <1>1. /\ offered' = offered /\ DiskTyped /\ WindowsTyped /\ JournalsOwned /\ ShimsOwned
        /\ FontsMatch(windows.fonts) /\ FontsAfter(windows)
    <2>1. offered' = offered
      BY DEF PremisesStep, ChangeEnvironment, ConfigSet, InstallPackage, RemovePackage,
             ReplayJournals, CleanOrphans
    <2> QED BY <2>1 DEF PremisesInv, FontsAfter, WindowsTyped
  <1>2. ASSUME UNCHANGED <<index, disk, windows>> PROVE PremisesInv'
    BY <1>1, <1>2 DEF PremisesInv, DiskTyped, WindowsTyped, JournalsOwned, ShimsOwned, InstalledAt
  <1>3. ASSUME InstallPackage PROVE PremisesInv'
    <2>1. PICK p \in offered :
             /\ \A r \in RowsOf(p) : r.status = "failed"
             /\ LET dir       == PackageInstallDir(Paths, p.name)
                    others    == index \ RowsOf(p)
                    cleared   == {d \in disk.dirs : ~IsUnder(d, dir)}
                    committed == \E j \in disk.journals : j.pkgdb = Paths.pkgdb /\ j.pkg = p
                IN \E outcome \in EngineInstall(p, dir) :
                     /\ windows' = outcome.windows
                     /\ IF ~outcome.ok \/ committed
                        THEN /\ index' = others \union {Row(p, dir, "failed", {})}
                             /\ disk' = [disk EXCEPT !.dirs = cleared \union
                                           (IF outcome.ok THEN outcome.made ELSE {})]
                        ELSE /\ index' = others \union {Row(p, outcome.dir, "ok", outcome.full)}
                             /\ disk' = [dirs |-> cleared \union outcome.made,
                                         journals |-> disk.journals \union
                                           {[pkgdb |-> Paths.pkgdb, pkg |-> p,
                                             dir |-> outcome.dir, full |-> outcome.full]},
                                         shims |-> Published(disk.shims,
                                                     ShimOf(Paths.shims, p, outcome.dir))]
      BY <1>3 DEF InstallPackage
    <2>2. PICK dir : dir = PackageInstallDir(Paths, p.name)
      OBVIOUS
    <2>3. PICK outcome \in EngineInstall(p, dir) :
             /\ windows' = outcome.windows
             /\ \/ /\ index' = (index \ RowsOf(p)) \union {Row(p, dir, "failed", {})}
                   /\ \E dirs : disk' = [disk EXCEPT !.dirs = dirs]
                \/ /\ index' = (index \ RowsOf(p)) \union {Row(p, outcome.dir, "ok", outcome.full)}
                   /\ \E dirs : disk' = [dirs |-> dirs,
                               journals |-> disk.journals \union
                                 {[pkgdb |-> Paths.pkgdb, pkg |-> p,
                                   dir |-> outcome.dir, full |-> outcome.full]},
                               shims |-> Published(disk.shims,
                                           ShimOf(Paths.shims, p, outcome.dir))]
      BY <2>1, <2>2, Zenon
    <2>4. WindowsTyped' /\ FontsMatch(windows.fonts)'
      BY <1>1, <2>3, EngineKeepsFonts DEF FontsAfter, WindowsTyped
    <2>5. \A pkg, d : InstalledAt(pkg, d) => InstalledAt(pkg, d)'
      <3>1. \A r \in index : r.status = "ok" => r \in index'
        BY <2>1, <2>3
      <3> QED BY <3>1 DEF InstalledAt
    <2>6. CASE \E dirs : disk' = [disk EXCEPT !.dirs = dirs]
      <3>1. DiskTyped' /\ disk'.journals = disk.journals /\ disk'.shims = disk.shims
        BY <1>1, <2>6 DEF DiskTyped
      <3>2. JournalsOwned' /\ ShimsOwned'
        BY <1>1, <2>5, <3>1 DEF JournalsOwned, ShimsOwned
      <3> QED BY <2>4, <3>1, <3>2 DEF PremisesInv
    <2>7. CASE ~\E dirs : disk' = [disk EXCEPT !.dirs = dirs]
      <3>1. PICK dirs, j, shims :
               /\ index' = (index \ RowsOf(p)) \union {Row(p, outcome.dir, "ok", outcome.full)}
               /\ j = [pkgdb |-> Paths.pkgdb, pkg |-> p, dir |-> outcome.dir, full |-> outcome.full]
               /\ shims = Published(disk.shims, ShimOf(Paths.shims, p, outcome.dir))
               /\ disk' = [dirs |-> dirs, journals |-> disk.journals \union {j}, shims |-> shims]
        BY <2>3, <2>7, Zenon
      <3>2. InstalledAt(p, outcome.dir)'
        <4>1. Row(p, outcome.dir, "ok", outcome.full) \in index'
          BY <3>1
        <4> QED BY <4>1 DEF InstalledAt, Row
      <3>3. /\ DiskTyped' /\ disk'.journals = disk.journals \union {j} /\ disk'.shims = shims
            /\ j.pkg = p /\ j.dir = outcome.dir
        BY <3>1 DEF DiskTyped
      <3>4. \A s \in shims : s \in disk.shims \/ (s.pkg = p /\ s.dir = outcome.dir)
        BY <3>1 DEF Published, ShimOf
      <3>5. JournalsOwned'
        BY <1>1, <2>5, <3>2, <3>3 DEF JournalsOwned
      <3>6. ShimsOwned'
        BY <1>1, <2>5, <3>2, <3>3, <3>4 DEF ShimsOwned
      <3> QED BY <2>4, <3>3, <3>5, <3>6 DEF PremisesInv
    <2> QED BY <2>6, <2>7
  <1>4. ASSUME RemovePackage PROVE PremisesInv'
    <2>1. PICK r \in RowsHere :
             /\ index' = index \ {r}
             /\ windows' = EngineRemove(r)
             /\ disk' = [dirs |-> {d \in disk.dirs : ~IsUnder(d, r.dir)},
                         journals |-> {j \in disk.journals :
                           <<j.pkgdb, j.pkg>> # <<PkgdbAt(In(RootOf(r.dir), "data")), r.pkg>>},
                         shims |-> IF r.status # "ok" THEN disk.shims
                                   ELSE {s \in disk.shims :
                                           <<s.shims, s.pkg>> # <<ShimsAt(RootOf(r.dir)), r.pkg>>}]
      BY <1>4 DEF RemovePackage
    <2>2. WindowsTyped' /\ FontsMatch(windows.fonts)'
      <3>1. \/ windows' = windows
            \/ \E registered : windows' = [windows EXCEPT !.registered = registered]
            \/ windows' = [windows EXCEPT !.fonts = RemoveUserFont(@, r.pkg.file)]
        BY <2>1 DEF EngineRemove
      <3>2. CASE windows' = windows
        BY <1>1, <3>2 DEF WindowsTyped
      <3>3. CASE \E registered : windows' = [windows EXCEPT !.registered = registered]
        BY <1>1, <3>3 DEF WindowsTyped
      <3>4. CASE windows' = [windows EXCEPT !.fonts = RemoveUserFont(@, r.pkg.file)]
        <4>1. windows' = [fonts |-> RemoveUserFont(windows.fonts, r.pkg.file),
                          registered |-> windows.registered]
          BY <1>1, <3>4 DEF WindowsTyped
        <4>2. FontsMatch(RemoveUserFont(windows.fonts, r.pkg.file))
          BY <1>1, FontRemoved
        <4> QED BY <4>1, <4>2 DEF WindowsTyped
      <3> QED BY <3>1, <3>2, <3>3, <3>4
    <2>3. \A pkg, d : InstalledAt(pkg, d) =>
             InstalledAt(pkg, d)' \/ (r.status = "ok" /\ pkg = r.pkg /\ d = r.dir)
      BY <2>1 DEF InstalledAt
    <2>4. /\ DiskTyped' /\ \A j \in disk'.journals : j \in disk.journals /\
                 <<j.pkgdb, j.pkg>> # <<PkgdbOfDir(r.dir), r.pkg>>
      BY <2>1 DEF DiskTyped, PkgdbOfDir, RootOf
    <2>5. \A s \in disk'.shims : /\ s \in disk.shims
                                 /\ r.status = "ok" => <<s.shims, s.pkg>> # <<ShimsOfDir(r.dir), r.pkg>>
      BY <2>1 DEF ShimsOfDir, RootOf
    <2>6. JournalsOwned'
      BY <1>1, <2>3, <2>4 DEF JournalsOwned
    <2>7. ShimsOwned'
      BY <1>1, <2>3, <2>5 DEF ShimsOwned
    <2> QED BY <2>2, <2>4, <2>6, <2>7 DEF PremisesInv
  <1>5. ASSUME ReplayJournals PROVE PremisesInv'
    <2>1. PICK orphans, new :
             /\ orphans = OrphanJournals
             /\ new = UNION {ShimOf(ShimsAt(RootOf(j.dir)), j.pkg, j.dir) : j \in orphans}
             /\ index' = {r \in index : \A j \in orphans : r \notin RowsOf(j.pkg)}
                           \union {Row(j.pkg, j.dir, "ok", j.full) : j \in orphans}
             /\ disk' = [disk EXCEPT !.shims = Published(@, new)]
             /\ windows' = windows
      BY <1>5, Zenon DEF ReplayJournals
    <2>2. \A pkg, d : InstalledAt(pkg, d) => InstalledAt(pkg, d)'
      <3>1. \A r \in index : r.status = "ok" => r \in index'
        <4> SUFFICES ASSUME NEW r \in index, r.status = "ok" PROVE r \in index'
          OBVIOUS
        <4>1. \A j \in orphans : r \notin RowsOf(j.pkg)
          BY <2>1 DEF OrphanJournals, RowsOf, Installed
        <4> QED BY <2>1, <4>1
      <3> QED BY <3>1 DEF InstalledAt
    <2>3. \A j \in orphans : InstalledAt(j.pkg, j.dir)'
      <3> SUFFICES ASSUME NEW j \in orphans PROVE InstalledAt(j.pkg, j.dir)'
        OBVIOUS
      <3>1. Row(j.pkg, j.dir, "ok", j.full) \in index'
        BY <2>1
      <3> QED BY <3>1 DEF InstalledAt, Row
    <2>4. /\ DiskTyped' /\ disk'.journals = disk.journals /\ disk'.shims = Published(disk.shims, new)
      BY <1>1, <2>1 DEF DiskTyped
    <2>5. \A s \in disk'.shims : s \in disk.shims \/ InstalledAt(s.pkg, s.dir)'
      <3> SUFFICES ASSUME NEW s \in disk'.shims, s \notin disk.shims PROVE InstalledAt(s.pkg, s.dir)'
        OBVIOUS
      <3>1. s \in new
        BY <2>4 DEF Published
      <3>2. PICK j \in orphans : s \in ShimOf(ShimsAt(RootOf(j.dir)), j.pkg, j.dir)
        BY <2>1, <3>1
      <3>3. s.pkg = j.pkg /\ s.dir = j.dir
        BY <3>2 DEF ShimOf
      <3> QED BY <2>3, <3>3
    <2>6. JournalsOwned' /\ ShimsOwned'
      BY <1>1, <2>2, <2>4, <2>5 DEF JournalsOwned, ShimsOwned
    <2> QED BY <1>1, <2>1, <2>4, <2>6 DEF PremisesInv, WindowsTyped
  <1>6. ASSUME CleanOrphans PROVE PremisesInv'
    <2>1. /\ index' = index /\ windows' = windows /\ DiskTyped'
          /\ disk'.journals = disk.journals /\ disk'.shims = disk.shims
      BY <1>1, <1>6 DEF CleanOrphans, DiskTyped
    <2> QED BY <1>1, <2>1 DEF PremisesInv, WindowsTyped, JournalsOwned, ShimsOwned, InstalledAt
  <1> QED BY <1>2, <1>3, <1>4, <1>5, <1>6 DEF PremisesStep, ChangeEnvironment, ConfigSet

LEMMA PremisesStay == PremisesInv /\ [Next]_vars => PremisesInv'
  <1> SUFFICES ASSUME PremisesInv, [Next]_vars PROVE PremisesInv'
    OBVIOUS
  <1>1. CASE Use
    BY <1>1, PremisesGoOn DEF Use
  <1>2. CASE UNCHANGED premises
    <2>1. UNCHANGED <<offered, index, disk, windows>>
      BY <1>2 DEF premises
    <2> QED BY <2>1 DEF PremisesInv, DiskTyped, WindowsTyped, JournalsOwned, ShimsOwned, InstalledAt
  <1> QED BY <1>1, <1>2 DEF Next, vars, Try, Scan, AnswerInstaller, AnswerCommands, AnswerVersion,
                            AnswerManifest, AnswerSetting, AnswerUninstaller

(* Whatever the root, the directories and the configuration that commands  *)
(* install, remove, replay and clean with, a journal or a shim that a      *)
(* package's directory leads back to is that of a package installed there, *)
(* and a registered font has its file.                                     *)
THEOREM NothingStays == Spec => []NothingIsLeftBehind
  <1>1. Spec => []PremisesInv
    <2>1. PremisesInv /\ [Next]_vars => PremisesInv'
      BY PremisesStay
    <2> QED BY <2>1, PremisesBegin, PTL DEF Spec
  <1> QED BY <1>1, PremisesImply, PTL
--------------------------------------------------------------------------------
(* Which installer a host gets.                                            *)
InstallerFor(c) ==
    IF Selectable(c[1], c[2])
    THEN [is |-> "installer", installer |-> SelectInstaller(c[1], c[2])]
    ELSE [is |-> "refused"]

LEMMA FirstIsThere ==
  ASSUME NEW S \in SUBSET Nat, S # {}
  PROVE  Min(S) \in S /\ \A n \in S : Min(S) <= n
  <1>1. \E x \in S : \A n \in S : x <= n
    BY LeastNumber
  <1> QED BY <1>1 DEF Min

LEMMA SelectedIsNearest ==
  ASSUME NEW installers, NEW host, DOMAIN installers \subseteq Nat, Selectable(installers, host)
  PROVE  \E n \in DOMAIN installers :
            /\ SelectInstaller(installers, host) = installers[n]
            /\ Compatible(installers[n], host)
            /\ \A m \in DOMAIN installers : Compatible(installers[m], host) =>
                  \/ Distance(installers[n], host) < Distance(installers[m], host)
                  \/ Distance(installers[n], host) = Distance(installers[m], host) /\ n <= m
  <1>1. PICK compatible : /\ compatible = ScopeCompatible(installers, host)
                          /\ compatible # {} /\ compatible \subseteq DOMAIN installers
                          /\ \A m \in DOMAIN installers :
                                m \in compatible <=> Compatible(installers[m], host)
    <2>1. ScopeCompatible(installers, host) # {}
      BY DEF Selectable
    <2>2. \A m : m \in ScopeCompatible(installers, host) <=>
                   m \in DOMAIN installers /\ Compatible(installers[m], host)
      BY DEF ScopeCompatible, Compatible
    <2> QED BY <2>1, <2>2
  <1>2. PICK preferred : preferred = Preferred(installers, host)
    OBVIOUS
  <1>3. /\ preferred # {} /\ preferred \subseteq compatible
        /\ \A n \in preferred, m \in compatible :
              host.elevated /\ installers[n].scope # "machine" =>
                 installers[m].scope # "machine" /\ m \in preferred
        /\ \A n \in preferred, m \in compatible \ preferred :
              host.elevated /\ installers[m].scope # "machine"
    <2> DEFINE machine == {n \in compatible : installers[n].scope = "machine"}
    <2>1. preferred = IF host.elevated /\ machine # {} THEN machine ELSE compatible
      BY <1>1, <1>2 DEF Preferred
    <2>2. CASE host.elevated /\ machine # {}
      BY <1>1, <2>1, <2>2
    <2>3. CASE ~(host.elevated /\ machine # {})
      <3>1. preferred = compatible
        BY <2>1, <2>3
      <3>2. host.elevated => \A m \in compatible : installers[m].scope # "machine"
        BY <2>3
      <3> QED BY <1>1, <3>1, <3>2
    <2> QED BY <2>2, <2>3
  <1>4. PICK own, neutral, best :
           /\ own = {n \in preferred : installers[n].arch = host.arch}
           /\ neutral = {n \in preferred : installers[n].arch = "any"}
           /\ best = IF own # {} THEN own ELSE IF neutral # {} THEN neutral ELSE preferred
    OBVIOUS
  <1>5. SelectInstaller(installers, host) = installers[Min(best)]
    BY <1>2, <1>4 DEF SelectInstaller, OfArchitecture, OrElse
  <1>6. best \in SUBSET Nat /\ best # {} /\ best \subseteq preferred
    BY <1>1, <1>3, <1>4
  <1>7. PICK n \in best : n = Min(best) /\ n \in Nat /\ \A m \in best : n <= m
    BY <1>6, FirstIsThere
  <1>8. ASSUME NEW m \in compatible
        PROVE  \/ Distance(installers[n], host) < Distance(installers[m], host)
               \/ Distance(installers[n], host) = Distance(installers[m], host) /\ n <= m
    <2> DEFINE Far(k)   == IF host.elevated /\ installers[k].scope # "machine" THEN 3 ELSE 0
               Other(k) == IF installers[k].arch = host.arch THEN 0
                           ELSE IF installers[k].arch = "any" THEN 1 ELSE 2
    <2>1. /\ Distance(installers[n], host) = Far(n) + Other(n)
          /\ Distance(installers[m], host) = Far(m) + Other(m)
      BY DEF Distance
    <2>2. n \in preferred /\ Far(n) \in {0, 3} /\ Far(m) \in {0, 3} /\ Other(n) \in 0..2 /\ Other(m) \in 0..2
      BY <1>6, <1>7
    <2>3. m \in preferred => Far(n) = Far(m)
      BY <1>3, <2>2
    <2>4. m \notin preferred => Far(n) = 0 /\ Far(m) = 3
      BY <1>3, <2>2
    <2>5. m \in preferred => Other(n) < Other(m) \/ (Other(n) = Other(m) /\ m \in best)
      BY <1>4, <1>7, <2>2
    <2>6. m \in best => n <= m
      BY <1>7
    <2> HIDE DEF Far, Other
    <2> QED BY <2>1, <2>2, <2>3, <2>4, <2>5, <2>6
  <1>9. n \in DOMAIN installers /\ Compatible(installers[n], host)
    BY <1>1, <1>3, <1>6
  <1> QED BY <1>1, <1>5, <1>7, <1>8, <1>9

(* Nobody else would suit a refused host, elevated or not.                 *)
LEMMA RefusedHasNone ==
  ASSUME NEW installers, NEW host \in [arch : Architectures, server : BOOLEAN, elevated : BOOLEAN],
         ~Selectable(installers, host), NEW n \in DOMAIN installers
  PROVE  /\ ~Compatible(installers[n], host)
         /\ ~Compatible(installers[n], [host EXCEPT !.elevated = FALSE])
  <1>1. ~(PlatformMatches(installers[n], host) /\ ScopeMatches(installers[n], host))
    BY DEF Selectable, ScopeCompatible
  <1>2. PICK user : user = [host EXCEPT !.elevated = FALSE]
    OBVIOUS
  <1>3. user.server = host.server /\ user.elevated = FALSE
    BY <1>2
  <1>4. PlatformTags(user) = PlatformTags(host)
    BY <1>3 DEF PlatformTags
  <1>5. /\ PlatformMatches(installers[n], user) => PlatformMatches(installers[n], host)
        /\ ScopeMatches(installers[n], user) => ScopeMatches(installers[n], host)
    BY <1>3, <1>4 DEF PlatformMatches, ScopeMatches
  <1> QED BY <1>1, <1>2, <1>5 DEF Compatible

SelectionInv ==
    Asked("installer") =>
       question.about \in Selections /\ (answer = NoAnswer \/ answer = InstallerFor(question.about))

LEMMA SelectionImplies == SelectionInv => SelectionIsBest
  <1> SUFFICES ASSUME SelectionInv, Asked("installer"), answer # NoAnswer PROVE SelectionIsBest
    BY DEF SelectionIsBest
  <1>1. PICK installers, host : /\ installers = question.about[1] /\ host = question.about[2]
                                /\ DOMAIN installers \subseteq Nat
                                /\ host \in [arch : Architectures, server : BOOLEAN, elevated : BOOLEAN]
    <2>1. /\ question.about[1] \in Seq([arch : Architectures, scope : Scopes, platform : SUBSET STRING])
          /\ question.about[2] \in [arch : Architectures, server : BOOLEAN, elevated : BOOLEAN]
      BY SelectionAssumption DEF SelectionInv
    <2> QED BY <2>1
  <1>2. answer = IF Selectable(installers, host)
                 THEN [is |-> "installer", installer |-> SelectInstaller(installers, host)]
                 ELSE [is |-> "refused"]
    BY <1>1 DEF SelectionInv, InstallerFor
  <1>3. CASE Selectable(installers, host)
    <2>1. answer.is # "refused" /\ answer.installer = SelectInstaller(installers, host)
      BY <1>2, <1>3
    <2> QED BY <1>1, <1>3, <2>1, SelectedIsNearest DEF SelectionIsBest
  <1>4. CASE ~Selectable(installers, host)
    <2>1. answer.is = "refused"
      BY <1>2, <1>4
    <2> QED BY <1>1, <1>4, <2>1, RefusedHasNone DEF SelectionIsBest
  <1> QED BY <1>3, <1>4

LEMMA SelectionStays == SelectionInv /\ [Next]_vars => SelectionInv'
  <1> SUFFICES ASSUME SelectionInv, [Next]_vars PROVE SelectionInv'
    OBVIOUS
  <1>1. question' = question /\ (UNCHANGED answer \/ ~Asked("installer") \/ AnswerInstaller)
    BY DEF Next, vars, Try, Scan, Use, AnswerInstaller, AnswerCommands, AnswerVersion,
           AnswerManifest, AnswerSetting, AnswerUninstaller, Asked
  <1>2. ASSUME AnswerInstaller PROVE answer' = InstallerFor(question.about)
    BY <1>2 DEF AnswerInstaller, InstallerFor
  <1> QED BY <1>1, <1>2 DEF SelectionInv, Asked

(* A host gets the first of the installers that are nearest to it, whatever *)
(* the catalog offers, and none exactly when none suits it.                *)
THEOREM EveryHostGetsTheBest == Spec => []SelectionIsBest
  <1>1. Init => SelectionInv
    BY DEF Init, SelectionInv, Asked
  <1>2. Spec => []SelectionInv
    <2>1. SelectionInv /\ [Next]_vars => SelectionInv'
      BY SelectionStays
    <2> QED BY <1>1, <2>1, PTL DEF Spec
  <1> QED BY <1>2, SelectionImplies, PTL
--------------------------------------------------------------------------------
(* The configuration.  One that was loaded or set has a value of its own   *)
(* kind for every key, and that is what makes it one that can be set again.*)
ValueTyped(k, value) ==
    /\ k \in Flags => value \in BOOLEAN
    /\ k \in LogFilters => value \in Filters \ {<<>>}
    /\ k \in Places => value # <<>>

ConfigTyped(config) ==
    /\ config = [k \in KEYS |-> config[k]]
    /\ \A k \in KEYS : ValueTyped(k, config[k])

LEMMA KeysApart ==
  /\ Flags \intersect LogFilters = {} /\ Flags \intersect Places = {}
  /\ LogFilters \intersect Places = {}
  /\ \A k \in KEYS : k = <<k[1], k[2]>>
  BY DEF Flags, LogFilters, Places, KEYS

LEMMA JustIsNotBlank == \A token : Just(token) # <<>>
  BY DEF Just

LEMMA DefaultsTyped == ConfigTyped(DefaultConfig)
  <1>1. DefaultConfig = [k \in KEYS |-> DefaultConfig[k]]
    BY DEF DefaultConfig
  <1>2. ASSUME NEW k \in KEYS PROVE ValueTyped(k, DefaultConfig[k])
    <2>1. CASE k \in Flags
      <3>1. DefaultConfig[k] = (k[2] # "default_yes")
        BY <1>2, <2>1, KeysApart DEF DefaultConfig, DefaultCore
      <3> QED BY <2>1, <3>1, KeysApart DEF ValueTyped
    <2>2. CASE k \in LogFilters
      <3>1. DefaultConfig[k] \in {Just("info"), Just("debug,winbrew::core=trace")}
        BY <1>2, <2>2, KeysApart DEF DefaultConfig, DefaultCore
      <3> QED BY <2>2, <3>1, KeysApart, SettingsAssumption, JustIsNotBlank DEF ValueTyped
    <2>3. CASE k \in Places
      <3>1. DefaultConfig[k] = DefaultPaths[k]
        BY <1>2, <2>3 DEF DefaultConfig
      <3>2. k[2] \in {"root", "packages", "data", "logs", "cache"}
        BY <2>3 DEF Places
      <3>3. \/ DefaultPaths[k] = DefaultRoot
            \/ \E path, token : DefaultPaths[k] = In(path, token) /\ path \in {Root, In(Root, "data")}
        <4>1. k[2] = "root" => DefaultPaths[k] = DefaultRoot
          BY <2>3 DEF DefaultPaths
        <4>2. k[2] \in {"packages", "data"} => DefaultPaths[k] = In(Root, k[2])
          BY <2>3 DEF DefaultPaths
        <4>3. k[2] \in {"logs", "cache"} => DefaultPaths[k] = In(In(Root, "data"), k[2])
          BY <2>3 DEF DefaultPaths
        <4> QED BY <3>2, <4>1, <4>2, <4>3
      <3>4. \A token : In(Root, token) # <<>> /\ In(In(Root, "data"), token) # <<>>
        <4> SUFFICES ASSUME NEW token PROVE In(Root, token) # <<>> /\ In(In(Root, "data"), token) # <<>>
          OBVIOUS
        <4>1. PICK first, second, third : first = <<"${root}">> /\ second = <<"data">> /\ third = <<token>>
          OBVIOUS
        <4>2. Root = <<first>> /\ In(Root, "data") = Append(Root, second)
              /\ \A path : In(path, token) = Append(path, third)
          BY <4>1 DEF Root, Just, In
        <4>3. Root \in Seq({first, second, third}) /\ Append(Root, second) \in Seq({first, second, third})
          BY <4>2
        <4>4. \A path \in Seq({first, second, third}) : Append(path, third) # <<>>
          <5> SUFFICES ASSUME NEW path \in Seq({first, second, third}) PROVE Append(path, third) # <<>>
            OBVIOUS
          <5>1. Len(Append(path, third)) = Len(path) + 1 /\ Len(path) \in Nat
            OBVIOUS
          <5> QED BY <5>1
        <4> QED BY <4>2, <4>3, <4>4
      <3>5. DefaultPaths[k] # <<>>
        BY <3>3, <3>4, SettingsAssumption
      <3> QED BY <2>3, <3>1, <3>5, KeysApart DEF ValueTyped
    <2> QED BY <2>1, <2>2, <2>3 DEF KEYS
  <1> QED BY <1>1, <1>2 DEF ConfigTyped

LEMMA LoadedTyped ==
  ASSUME NEW c \in Changes
  PROVE  ConfigTyped(Load(c.file))
  <1>1. ASSUME NEW k \in KEYS PROVE ValueTyped(k, Load(c.file)[k])
    <2>1. CASE k \in SavedKeys(c.file)
      <3>1. Load(c.file)[k] = c.file.values[k]
        BY <2>1 DEF Load
      <3> QED BY <2>1, <3>1, SettingsAssumption DEF ValueTyped
    <2>2. CASE k \notin SavedKeys(c.file)
      <3>1. Load(c.file)[k] = DefaultConfig[k]
        BY <2>2 DEF Load
      <3> QED BY <3>1, DefaultsTyped DEF ConfigTyped
    <2> QED BY <2>1, <2>2
  <1>2. Load(c.file) = [k \in KEYS |-> Load(c.file)[k]]
    BY DEF Load
  <1> QED BY <1>1, <1>2 DEF ConfigTyped

LEMMA SavedLoads ==
  ASSUME NEW config, ConfigTyped(config)
  PROVE  /\ Loads(Saved(config)) /\ Accepted(Saved(config))
         /\ Load(Saved(config)) = config
  <1>1. SavedKeys(Saved(config)) = KEYS /\ Saved(config).values = config
    <2>1. DOMAIN config = KEYS
      BY DEF ConfigTyped
    <2> QED BY <2>1 DEF SavedKeys, Saved
  <1>2. Load(Saved(config)) = [k \in KEYS |-> config[k]]
    BY <1>1 DEF Load
  <1> QED BY <1>2 DEF ConfigTyped, Loads, Saved, Accepted

Spelled(k) == [section |-> k[1], name |-> k[2], upper |-> FALSE]

LEMMA SpelledIsKnown ==
  ASSUME NEW k \in KEYS
  PROVE  TypedKey(Spelled(k)) = k /\ Known(Spelled(k))
  <1>1. TypedKey(Spelled(k)) = k
    BY KeysApart DEF TypedKey, Spelled
  <1> QED BY <1>1 DEF Known, Spelled

LEMMA FlagWords ==
  Just("true") \in Yes /\ Just("false") \in No /\ Just("false") \notin Yes
  <1>1. \A t, u : Just(t) = Just(u) => t = u
    BY DEF Just
  <1>2. Just("false") # Just("true") /\ Just("false") # Just("1")
        /\ Just("false") # Just("yes") /\ Just("false") # Just("on")
    BY <1>1
  <1> QED BY <1>2 DEF Yes, No

(* What is shown of a value can be set, and is that value.                 *)
LEMMA ShownIsValid ==
  ASSUME NEW config, ConfigTyped(config), NEW k \in KEYS
  PROVE  /\ EntryValue(config, k) # <<>> /\ ValidateConfigValue(k, EntryValue(config, k))
         /\ ParsedValue(k, EntryValue(config, k)) = config[k]
  <1>1. ValueTyped(k, config[k])
    BY DEF ConfigTyped
  <1>2. CASE k \in Flags
    <2>1. k \notin LogFilters
      BY <1>2, KeysApart
    <2>2. CASE config[k] = TRUE
      <3>1. EntryValue(config, k) = Just("true")
        BY <1>2, <2>2 DEF EntryValue
      <3> QED BY <1>2, <2>1, <2>2, <3>1, FlagWords, JustIsNotBlank DEF ValidateConfigValue, ParsedValue
    <2>3. CASE config[k] = FALSE
      <3>1. EntryValue(config, k) = Just("false")
        BY <1>2, <2>3 DEF EntryValue
      <3>2. ParsedValue(k, EntryValue(config, k)) = FALSE
        BY <1>2, <3>1, FlagWords DEF ParsedValue
      <3> QED BY <1>2, <2>1, <2>3, <3>1, <3>2, FlagWords, JustIsNotBlank DEF ValidateConfigValue
    <2> QED BY <1>1, <1>2, <2>2, <2>3 DEF ValueTyped
  <1>3. CASE k \notin Flags
    <2>1. EntryValue(config, k) = config[k]
      BY <1>3 DEF EntryValue
    <2> QED BY <1>1, <1>3, <2>1 DEF ValueTyped, KEYS, ValidateConfigValue, ParsedValue
  <1> QED BY <1>2, <1>3

LEMMA ShownIsKept ==
  ASSUME NEW config, ConfigTyped(config), NEW k \in KEYS, NEW env
  PROVE  SetValue(config, env, Spelled(k), EntryValue(config, k)) = Saved(config)
  <1>1. PICK value : value = EntryValue(config, k)
    OBVIOUS
  <1>2. value # <<>> /\ ValidateConfigValue(k, value) /\ ParsedValue(k, value) = config[k]
    BY <1>1, ShownIsValid
  <1>3. SetValue(config, env, Spelled(k), value) = SaveDefault([config EXCEPT ![k] = config[k]], env)
    BY <1>2, SpelledIsKnown DEF SetValue
  <1>4. [config EXCEPT ![k] = config[k]] = config
    BY DEF ConfigTyped
  <1> QED BY <1>1, <1>3, <1>4 DEF SaveDefault

LEMMA ChangedTyped ==
  ASSUME NEW config, ConfigTyped(config), NEW k \in KEYS, NEW value, ValueTyped(k, value)
  PROVE  /\ ConfigTyped([config EXCEPT ![k] = value])
         /\ [config EXCEPT ![k] = value][k] = value
         /\ \A m \in KEYS \ {k} : [config EXCEPT ![k] = value][m] = config[m]
  <1>1. PICK new : new = [config EXCEPT ![k] = value]
    OBVIOUS
  <1>2. new = [m \in KEYS |-> IF m = k THEN value ELSE config[m]]
    BY <1>1 DEF ConfigTyped
  <1>3. new = [m \in KEYS |-> new[m]]
    BY <1>2
  <1>4. \A m \in KEYS : ValueTyped(m, new[m])
    <2> SUFFICES ASSUME NEW m \in KEYS PROVE ValueTyped(m, new[m])
      OBVIOUS
    <2>1. CASE m = k
      BY <1>2, <2>1
    <2>2. CASE m # k
      <3>1. new[m] = config[m]
        BY <1>2, <2>2
      <3> QED BY <3>1 DEF ConfigTyped
    <2> QED BY <2>1, <2>2
  <1> QED BY <1>1, <1>2, <1>3, <1>4 DEF ConfigTyped

(* What a change comes to: refused, or the one key set to what was asked.  *)
Wanted(c) == IF c.set THEN ParsedValue(TypedKey(c.typed), c.value) ELSE DefaultConfig[TypedKey(c.typed)]
Outcome(c) ==
    IF ~Loads(c.file) THEN Refusal("malformed file", {})
    ELSE IF c.set THEN SetValue(Load(c.file), CaptureEnv(c.variables), c.typed, c.value)
    ELSE UnsetValue(Load(c.file), CaptureEnv(c.variables), c.typed)

Refused(c) ==
    \/ ~Loads(c.file) \/ c.typed.upper \/ TypedKey(c.typed) \notin KEYS
    \/ c.set /\ (c.value = <<>> \/ ~ValidateConfigValue(TypedKey(c.typed), c.value))

LEMMA RefusalsRefuse ==
  \A why, suggested : ~Accepted(Refusal(why, suggested)) /\ Refusal(why, suggested).suggested = suggested
  BY DEF Accepted, Refusal

LEMMA RefusedOutcome ==
  ASSUME NEW c, Refused(c)
  PROVE  /\ ~Accepted(Outcome(c))
         /\ \A k \in Outcome(c).suggested : Known(Spelled(k))
  <1>1. \E why : Outcome(c) = Refusal(why, {}) \/ Outcome(c) = Refusal(why, SuggestKey(c.typed))
    BY DEF Refused, Outcome, SetValue, UnsetValue, UnknownKey, Known
  <1>2. SuggestKey(c.typed) \subseteq KEYS
    BY DEF SuggestKey
  <1> QED BY <1>1, <1>2, RefusalsRefuse, SpelledIsKnown

LEMMA AcceptedOutcome ==
  ASSUME NEW c \in Changes, ~Refused(c)
  PROVE  \E after : /\ after = [Load(c.file) EXCEPT ![TypedKey(c.typed)] = Wanted(c)]
                    /\ ConfigTyped(after) /\ Outcome(c) = Saved(after)
                    /\ after[TypedKey(c.typed)] = Wanted(c)
                    /\ \A k \in KEYS \ {TypedKey(c.typed)} : after[k] = Load(c.file)[k]
  <1>1. PICK key, config, after :
           /\ key = TypedKey(c.typed) /\ config = Load(c.file)
           /\ after = [config EXCEPT ![key] = Wanted(c)]
    OBVIOUS
  <1>2. key \in KEYS /\ Known(c.typed) /\ Loads(c.file) /\ ConfigTyped(config)
    BY <1>1, LoadedTyped DEF Refused, Known
  <1>3. Outcome(c) = Saved(after) /\ ValueTyped(key, Wanted(c))
    <2>1. CASE c.set
      <3>1. c.value # <<>> /\ ValidateConfigValue(key, c.value)
        BY <1>1, <2>1 DEF Refused
      <3>2. Wanted(c) = ParsedValue(key, c.value)
        BY <1>1, <2>1 DEF Wanted
      <3>3. Outcome(c) = Saved(after)
        BY <1>1, <1>2, <2>1, <3>1, <3>2 DEF Outcome, SetValue, SaveDefault
      <3>4. ValueTyped(key, Wanted(c))
        <4>1. CASE key \in Flags
          <5>1. Wanted(c) \in BOOLEAN
            BY <3>2, <4>1 DEF ParsedValue
          <5> QED BY <4>1, <5>1, KeysApart DEF ValueTyped
        <4>2. CASE key \notin Flags
          <5>1. Wanted(c) = c.value
            BY <3>2, <4>2 DEF ParsedValue
          <5> QED BY <3>1, <4>2, <5>1 DEF ValueTyped, ValidateConfigValue
        <4> QED BY <4>1, <4>2
      <3> QED BY <3>3, <3>4
    <2>2. CASE ~c.set
      <3>1. Wanted(c) = DefaultConfig[key]
        BY <1>1, <2>2 DEF Wanted
      <3>2. Outcome(c) = Saved(after)
        BY <1>1, <1>2, <2>2, <3>1 DEF Outcome, UnsetValue, SaveDefault
      <3> QED BY <1>2, <3>1, <3>2, DefaultsTyped DEF ConfigTyped
    <2> QED BY <2>1, <2>2
  <1>4. /\ ConfigTyped(after) /\ after[key] = Wanted(c)
        /\ \A k \in KEYS \ {key} : after[k] = config[k]
    BY <1>1, <1>2, <1>3, ChangedTyped
  <1> QED BY <1>1, <1>3, <1>4

SettingAnswer(c) ==
    LET outcome == Outcome(c)
        after   == IF Accepted(outcome) THEN outcome ELSE c.file
    IN [is |-> "setting", outcome |-> outcome, after |-> after,
        shown |-> IF Accepted(outcome)
                  THEN EffectiveSections(Load(after), CaptureEnv(c.variables)) ELSE <<>>]

SettingInv ==
    Asked("setting") =>
       question.about \in Changes /\ (answer = NoAnswer \/ answer = SettingAnswer(question.about))

LEMMA SettingImplies == SettingInv => OneSettingAtATime
  <1> SUFFICES ASSUME SettingInv, Asked("setting"), answer # NoAnswer PROVE OneSettingAtATime
    BY DEF OneSettingAtATime
  <1>1. PICK c \in Changes : c = question.about /\ answer = SettingAnswer(c)
    BY DEF SettingInv
  <1>2. PICK env, key, before : /\ env = CaptureEnv(c.variables) /\ key = TypedKey(c.typed)
                                /\ before = Load(c.file)
    OBVIOUS
  <1>3. CASE Refused(c)
    <2>1. ~Accepted(Outcome(c)) /\ \A k \in Outcome(c).suggested : Known(Spelled(k))
      BY <1>3, RefusedOutcome
    <2>2. answer.outcome = Outcome(c) /\ answer.after = c.file
      BY <1>1, <2>1 DEF SettingAnswer
    <2> QED BY <1>1, <1>2, <1>3, <2>1, <2>2 DEF OneSettingAtATime, Refused, Spelled
  <1>4. CASE ~Refused(c)
    <2>1. PICK after : /\ after = [before EXCEPT ![key] = Wanted(c)]
                       /\ ConfigTyped(after) /\ Outcome(c) = Saved(after)
                       /\ after[key] = Wanted(c)
                       /\ \A k \in KEYS \ {key} : after[k] = before[k]
      BY <1>2, <1>4, AcceptedOutcome
    <2>2. Accepted(Saved(after)) /\ Load(Saved(after)) = after
      BY <2>1, SavedLoads
    <2>3. /\ answer.outcome = Saved(after) /\ answer.after = Saved(after)
          /\ answer.shown = EffectiveSections(after, env)
      BY <1>1, <1>2, <2>1, <2>2 DEF SettingAnswer
    <2>4. Loads(c.file) /\ ~c.typed.upper /\ key \in KEYS
          /\ (c.set => c.value # <<>> /\ ValidateConfigValue(key, c.value))
      BY <1>2, <1>4 DEF Refused
    <2>5. PICK shown : shown = EffectiveSections(after, env)
      OBVIOUS
    <2>6. /\ \A k \in KEYS : k \in DOMAIN env => shown[k] = [value |-> env[k], source |-> "env"]
          /\ \A k \in KEYS : k \notin DOMAIN env =>
                shown[k] = [value |-> EntryValue(after, k), source |-> "file"]
      <3>1. \A k \in KEYS : shown[k] = EffectiveValue(after, env, k)
        BY <2>5 DEF EffectiveSections
      <3> QED BY <3>1 DEF EffectiveValue
    <2>7. \A k \in KEYS : shown[k].source = "file" =>
             SetValue(after, env, Spelled(k), shown[k].value) = Saved(after)
      <3> SUFFICES ASSUME NEW k \in KEYS, shown[k].source = "file"
                   PROVE  SetValue(after, env, Spelled(k), shown[k].value) = Saved(after)
        OBVIOUS
      <3>1. k \notin DOMAIN env
        <4> SUFFICES ASSUME k \in DOMAIN env PROVE FALSE
          OBVIOUS
        <4>1. shown[k] = [value |-> env[k], source |-> "env"]
          BY <2>6
        <4>2. [value |-> env[k], source |-> "env"].source = "env"
          OBVIOUS
        <4> QED BY <4>1, <4>2
      <3>2. shown[k] = [value |-> EntryValue(after, k), source |-> "file"]
        BY <2>6, <3>1
      <3>3. shown[k].value = EntryValue(after, k)
        BY <3>2
      <3> QED BY <2>1, <3>3, ShownIsKept
    <2>8. PICK wanted : wanted = Wanted(c)
      OBVIOUS
    <2>9. wanted = IF c.set THEN ParsedValue(key, c.value) ELSE DefaultConfig[key]
      BY <1>2, <2>8 DEF Wanted
    <2>10. after = [before EXCEPT ![key] = wanted]
      BY <2>1, <2>8
    <2>11. IF key \in DOMAIN env THEN shown[key] = [value |-> env[key], source |-> "env"]
           ELSE shown[key] = [value |-> EntryValue([before EXCEPT ![key] = wanted], key),
                              source |-> "file"]
      BY <2>4, <2>6, <2>10
    <2>12. /\ key = TypedKey(question.about.typed) /\ env = CaptureEnv(question.about.variables)
           /\ before = Load(question.about.file) /\ after = Load(answer.after)
           /\ shown = answer.shown /\ Accepted(answer.outcome)
      BY <1>1, <1>2, <2>2, <2>3, <2>5
    <2>13. \A k \in KEYS : shown[k].source = "file" =>
              SetValue(after, env, Spelled(k), shown[k].value) = answer.after
      BY <2>3, <2>7
    <2> DEFINE asked  == question.about
               of     == TypedKey(asked.typed)
               over   == CaptureEnv(asked.variables)
               now    == Load(answer.after)
               set    == IF asked.set THEN ParsedValue(of, asked.value) ELSE DefaultConfig[of]
    <2>14. /\ Accepted(answer.outcome) /\ Loads(asked.file) /\ ~asked.typed.upper /\ of \in KEYS
           /\ asked.set => asked.value # <<>> /\ ValidateConfigValue(of, asked.value)
           /\ \A k \in KEYS \ {of} : now[k] = Load(asked.file)[k]
      BY <1>1, <2>1, <2>4, <2>12
    <2>15. IF of \in DOMAIN over THEN answer.shown[of] = [value |-> over[of], source |-> "env"]
           ELSE answer.shown[of] = [value |-> EntryValue([Load(asked.file) EXCEPT ![of] = set], of),
                                    source |-> "file"]
      <3>1. set = wanted /\ of = key /\ over = env /\ Load(asked.file) = before /\ answer.shown = shown
        BY <1>1, <2>9, <2>12
      <3> HIDE DEF set, of, over, asked
      <3> QED BY <2>11, <3>1
    <2>16. \A k \in KEYS : answer.shown[k].source = "file" =>
              SetValue(now, over, Spelled(k), answer.shown[k].value) = answer.after
      BY <1>1, <2>12, <2>13
    <2> QED BY <2>14, <2>15, <2>16, Zenon DEF OneSettingAtATime, Spelled
  <1> QED BY <1>3, <1>4

LEMMA SettingStays == SettingInv /\ [Next]_vars => SettingInv'
  <1> SUFFICES ASSUME SettingInv, [Next]_vars PROVE SettingInv'
    OBVIOUS
  <1>1. question' = question /\ (UNCHANGED answer \/ ~Asked("setting") \/ AnswerSetting)
    BY DEF Next, vars, Try, Scan, Use, AnswerInstaller, AnswerCommands, AnswerVersion,
           AnswerManifest, AnswerSetting, AnswerUninstaller, Asked
  <1>2. ASSUME AnswerSetting PROVE answer' = SettingAnswer(question.about)
    BY <1>2 DEF AnswerSetting, SettingAnswer, Outcome
  <1> QED BY <1>1, <1>2 DEF SettingInv, Asked

(* config set and unset change one key or nothing, whatever the file and   *)
(* the environment say of it, and what config shows can be set again.      *)
THEOREM SettingsStayApart == Spec => []OneSettingAtATime
  <1>1. Init => SettingInv
    BY DEF Init, SettingInv, Asked
  <1>2. Spec => []SettingInv
    <2>1. SettingInv /\ [Next]_vars => SettingInv'
      BY SettingStays
    <2> QED BY <1>1, <2>1, PTL DEF Spec
  <1> QED BY <1>2, SettingImplies, PTL
--------------------------------------------------------------------------------
(* The commands of a package.                                              *)
LEMMA LowerCase ==
  ASSUME NEW text
  PROVE  /\ Folded(NameOf(text)) = [stem |-> text.stem, dotted |-> text.dotted, upper |-> FALSE]
         /\ SafeName(NameOf(text)) <=> SafeName(Folded(NameOf(text)))
  <1>1. Folded(NameOf(text)) = [stem |-> text.stem, dotted |-> text.dotted, upper |-> FALSE]
    BY DEF Folded, NameOf
  <1>2. /\ NameOf(text).stem = text.stem /\ NameOf(text).dotted = text.dotted
        /\ Folded(NameOf(text)).stem = text.stem /\ Folded(NameOf(text)).dotted = text.dotted
    BY <1>1 DEF NameOf
  <1> QED BY <1>1, <1>2, Zenon DEF SafeName

Lowered(texts) == {Folded(NameOf(texts[n])) : n \in DOMAIN texts}

(* Names that differ, safe ones, one for every text with a safe name: in   *)
(* lower case they are the safe ones among the texts, whatever their order.*)
LEMMA NamesAreNormal ==
  ASSUME NEW texts, DOMAIN texts \subseteq Nat
  PROVE  /\ \A x \in NormalizeCommandNames(texts) :
               /\ SafeName(x) /\ Folded(x) \in Lowered(texts)
               /\ \A y \in NormalizeCommandNames(texts) : Folded(y) = Folded(x) => y = x
         /\ FoldedAll(NormalizeCommandNames(texts)) = {x \in Lowered(texts) : SafeName(x)}
  <1>1. PICK safe : safe = {n \in DOMAIN texts : SafeName(NameOf(texts[n]))}
    OBVIOUS
  <1>2. PICK first : first = {n \in safe : \A m \in safe : m < n =>
                                Folded(NameOf(texts[m])) # Folded(NameOf(texts[n]))}
    OBVIOUS
  <1>3. NormalizeCommandNames(texts) = {NameOf(texts[n]) : n \in first}
    BY <1>1, <1>2 DEF NormalizeCommandNames
  <1>4. safe \subseteq Nat /\ first \subseteq safe
    BY <1>1, <1>2
  <1>5. ASSUME NEW n \in first, NEW m \in first, Folded(NameOf(texts[m])) = Folded(NameOf(texts[n]))
        PROVE  m = n
    <2>1. ~(m < n) /\ ~(n < m)
      BY <1>2, <1>4, <1>5
    <2> QED BY <1>4, <2>1
  <1>6. ASSUME NEW x \in Lowered(texts), SafeName(x)
        PROVE  \E n \in first : x = Folded(NameOf(texts[n]))
    <2>1. PICK k \in DOMAIN texts : x = Folded(NameOf(texts[k]))
      BY DEF Lowered
    <2>2. k \in safe
      BY <1>1, <1>6, <2>1, LowerCase
    <2>3. PICK same : same = {n \in safe : Folded(NameOf(texts[n])) = x}
      OBVIOUS
    <2>4. same \subseteq Nat /\ same # {}
      BY <1>4, <2>1, <2>2, <2>3
    <2>5. PICK n \in same : \A m \in same : n <= m
      BY <2>4, LeastNumber
    <2>6. ASSUME NEW m \in safe, m < n PROVE Folded(NameOf(texts[m])) # Folded(NameOf(texts[n]))
      <3>1. m \notin same
        BY <1>4, <2>4, <2>5, <2>6
      <3> QED BY <2>3, <2>5, <3>1
    <2> QED BY <1>2, <2>3, <2>5, <2>6
  <1>7. ASSUME NEW n \in first
        PROVE  /\ SafeName(NameOf(texts[n])) /\ SafeName(Folded(NameOf(texts[n])))
               /\ Folded(NameOf(texts[n])) \in Lowered(texts)
    BY <1>1, <1>4, LowerCase DEF Lowered
  <1>8. FoldedAll(NormalizeCommandNames(texts)) = {Folded(NameOf(texts[n])) : n \in first}
    BY <1>3 DEF FoldedAll
  <1>9. {Folded(NameOf(texts[n])) : n \in first} = {x \in Lowered(texts) : SafeName(x)}
    BY <1>6, <1>7
  <1> QED BY <1>3, <1>5, <1>7, <1>8, <1>9

(* What a field comes to in lower case, and the executables of one.        *)
Raws(entry) == {entry.package, entry.installer, entry.bin}
BinTexts(bin) == [n \in DOMAIN bin.texts |-> BinName(bin.texts[n])]

Described(entry) ==
    /\ Unset # entry.bin
    /\ entry.bin.json \in {"absent", "blank"} => entry.bin.texts = <<>>
    /\ \A raw \in {entry.package, entry.installer, entry.bin} : DOMAIN raw.texts \subseteq Nat

LEMMA FieldNames ==
  ASSUME NEW entry, Described(entry)
  PROVE  /\ \A raw \in {entry.package, entry.installer} :
               /\ FoldedAll(ParseCommandList(raw)) = {x \in Lowered(raw.texts) : SafeName(x)}
               /\ \A x \in ParseCommandList(raw) :
                     /\ SafeName(x) /\ Folded(x) \in Lowered(raw.texts)
                     /\ \A y \in ParseCommandList(raw) : Folded(y) = Folded(x) => y = x
         /\ \A x \in CommandsFromBin(entry.bin) :
               /\ SafeName(x) /\ Folded(x) \in Lowered(BinTexts(entry.bin))
               /\ \A y \in CommandsFromBin(entry.bin) : Folded(y) = Folded(x) => y = x
  <1>1. /\ DOMAIN BinTexts(entry.bin) \subseteq Nat
        /\ \A raw \in {entry.package, entry.installer} : DOMAIN raw.texts \subseteq Nat
    BY DEF Described, BinTexts
  <1>2. CommandsFromBin(entry.bin) = NormalizeCommandNames(BinTexts(entry.bin))
    BY DEF CommandsFromBin, BinTexts
  <1>3. \A raw : ParseCommandList(raw) = NormalizeCommandNames(raw.texts)
    BY DEF ParseCommandList
  <1> HIDE DEF Lowered
  <1> QED BY <1>1, <1>2, <1>3, NamesAreNormal

(* The source decides which of the fields the commands come from, and a    *)
(* resolved decision has some.                                             *)
LEMMA CommandsOfSource ==
  ASSUME NEW entry, NEW decision, decision = ResolveCommandExposure(entry),
         decision.is = "resolved"
  PROVE  /\ decision.source = SourceOf(entry) /\ decision.fingerprint = CatalogFingerprint(entry)
         /\ decision.commands # {}
         /\ \/ decision.source = "package" /\ decision.commands = ParseCommandList(entry.package)
            \/ decision.source = "installer" /\ decision.commands = ParseCommandList(entry.installer)
            \/ decision.source = "inferred" /\ decision.commands = CommandsFromBin(entry.bin)
  <1>1. SourceOf(entry) # "none"
    <2> SUFFICES ASSUME SourceOf(entry) = "none" PROVE FALSE
      OBVIOUS
    <2>1. decision.is \in {"error", "unresolved"}
      BY DEF ResolveCommandExposure
    <2> QED BY <2>1
  <1>2. decision = [is |-> "resolved", source |-> SourceOf(entry),
                    commands |-> CommandsAt(entry, SourceOf(entry)),
                    fingerprint |-> CatalogFingerprint(entry)]
    <2>1. ~ResolutionFails(entry)
      <3> SUFFICES ASSUME ResolutionFails(entry) PROVE FALSE
        OBVIOUS
      <3>1. decision.is = "error"
        BY DEF ResolveCommandExposure
      <3> QED BY <3>1
    <2> QED BY <1>1, <2>1 DEF ResolveCommandExposure
  <1>3. /\ decision.source = SourceOf(entry) /\ decision.fingerprint = CatalogFingerprint(entry)
        /\ decision.commands = CommandsAt(entry, SourceOf(entry))
    BY <1>2
  <1>4. CASE ParseCommandList(entry.package) # {}
    <2>1. SourceOf(entry) = "package"
      BY <1>4 DEF SourceOf
    <2> QED BY <1>3, <1>4, <2>1 DEF CommandsAt
  <1>5. CASE ParseCommandList(entry.package) = {} /\ ParseCommandList(entry.installer) # {}
    <2>1. SourceOf(entry) = "installer"
      BY <1>5 DEF SourceOf
    <2> QED BY <1>3, <1>5, <2>1 DEF CommandsAt
  <1>6. CASE /\ ParseCommandList(entry.package) = {} /\ ParseCommandList(entry.installer) = {}
    <2>1. SourceOf(entry) = "inferred" /\ CommandsFromBin(entry.bin) # {}
      BY <1>1, <1>6 DEF SourceOf
    <2> QED BY <1>3, <2>1 DEF CommandsAt
  <1> QED BY <1>4, <1>5, <1>6

(* What a fingerprint tells of the source and the commands, up to case.    *)
LEMMA NoneIsNone == \A names : FoldedAll(names) = {} <=> names = {}
  BY DEF FoldedAll

LEMMA FingerprintDecides ==
  ASSUME NEW e, NEW f, Described(e), Described(f), CatalogFingerprint(e) = CatalogFingerprint(f)
  PROVE  /\ FoldedAll(ParseCommandList(e.package)) = FoldedAll(ParseCommandList(f.package))
         /\ FoldedAll(ParseCommandList(e.installer)) = FoldedAll(ParseCommandList(f.installer))
         /\ CommandsFromBin(e.bin) = CommandsFromBin(f.bin)
  <1> DEFINE B(entry) == IF entry.bin.json \in {"absent", "blank"} THEN Unset ELSE entry.bin
  <1>1. \A entry : /\ CatalogFingerprint(entry).package = FoldedAll(ParseCommandList(entry.package))
                   /\ CatalogFingerprint(entry).installer = FoldedAll(ParseCommandList(entry.installer))
                   /\ CatalogFingerprint(entry).bin = B(entry)
    BY DEF CatalogFingerprint
  <1>2. B(e) = B(f)
    BY <1>1
  <1>3. e.bin = f.bin \/ (e.bin.texts = <<>> /\ f.bin.texts = <<>>)
    BY <1>2 DEF Described
  <1>4. CommandsFromBin(e.bin) = CommandsFromBin(f.bin)
    BY <1>3 DEF CommandsFromBin
  <1> QED BY <1>1, <1>4

LEMMA SourcesAgree ==
  ASSUME NEW e, NEW f, Described(e), Described(f), CatalogFingerprint(e) = CatalogFingerprint(f)
  PROVE  SourceOf(e) = SourceOf(f)
  <1>1. /\ ParseCommandList(e.package) = {} <=> ParseCommandList(f.package) = {}
        /\ ParseCommandList(e.installer) = {} <=> ParseCommandList(f.installer) = {}
        /\ CommandsFromBin(e.bin) = {} <=> CommandsFromBin(f.bin) = {}
    BY FingerprintDecides, NoneIsNone
  <1> QED BY <1>1 DEF SourceOf

LEMMA FreshDecisions ==
  ASSUME NEW e, NEW f, Described(e), Described(f), NEW before, NEW after,
         before = ResolveCommandExposure(e), after = ResolveCommandExposure(f),
         CommandStatus(before, after) = "fresh"
  PROVE  FoldedAll(before.commands) = FoldedAll(after.commands) /\ before.source = after.source
  <1>1. before.is = "resolved" /\ after.is = "resolved" /\ before.fingerprint = after.fingerprint
    BY DEF CommandStatus
  <1>2. /\ before.source = SourceOf(e) /\ before.fingerprint = CatalogFingerprint(e)
        /\ \/ before.source = "package" /\ before.commands = ParseCommandList(e.package)
           \/ before.source = "installer" /\ before.commands = ParseCommandList(e.installer)
           \/ before.source = "inferred" /\ before.commands = CommandsFromBin(e.bin)
    BY <1>1, CommandsOfSource
  <1>3. /\ after.source = SourceOf(f) /\ after.fingerprint = CatalogFingerprint(f)
        /\ \/ after.source = "package" /\ after.commands = ParseCommandList(f.package)
           \/ after.source = "installer" /\ after.commands = ParseCommandList(f.installer)
           \/ after.source = "inferred" /\ after.commands = CommandsFromBin(f.bin)
    BY <1>1, CommandsOfSource
  <1>4. CatalogFingerprint(e) = CatalogFingerprint(f)
    BY <1>1, <1>2, <1>3
  <1>5. before.source = after.source
    BY <1>2, <1>3, <1>4, SourcesAgree
  <1>6. /\ FoldedAll(ParseCommandList(e.package)) = FoldedAll(ParseCommandList(f.package))
        /\ FoldedAll(ParseCommandList(e.installer)) = FoldedAll(ParseCommandList(f.installer))
        /\ CommandsFromBin(e.bin) = CommandsFromBin(f.bin)
    BY <1>4, FingerprintDecides
  <1>7. CASE before.source = "package"
    BY <1>2, <1>3, <1>5, <1>6, <1>7
  <1>8. CASE before.source = "installer"
    BY <1>2, <1>3, <1>5, <1>6, <1>8
  <1>9. CASE before.source = "inferred"
    BY <1>2, <1>3, <1>5, <1>6, <1>9
  <1> QED BY <1>2, <1>5, <1>7, <1>8, <1>9

LEMMA RespelledIsNotStale ==
  ASSUME NEW e, NEW f, Described(e), Described(f), e.bin = f.bin, e.identity = f.identity,
         Lowered(e.package.texts) = Lowered(f.package.texts),
         Lowered(e.installer.texts) = Lowered(f.installer.texts)
  PROVE  CommandStatus(ResolveCommandExposure(e), ResolveCommandExposure(f)) # "stale"
  <1>1. /\ FoldedAll(ParseCommandList(e.package)) = FoldedAll(ParseCommandList(f.package))
        /\ FoldedAll(ParseCommandList(e.installer)) = FoldedAll(ParseCommandList(f.installer))
    <2> HIDE DEF Lowered
    <2> QED BY FieldNames
  <1>2. CatalogFingerprint(e) = CatalogFingerprint(f)
    BY <1>1 DEF CatalogFingerprint
  <1>3. PICK before, after : /\ before = ResolveCommandExposure(e)
                             /\ after = ResolveCommandExposure(f)
    OBVIOUS
  <1>4. before.is = "resolved" /\ after.is = "resolved" => before.fingerprint = after.fingerprint
    BY <1>2, <1>3, CommandsOfSource
  <1>5. CommandStatus(before, after) # "stale"
    BY <1>4 DEF CommandStatus
  <1> QED BY <1>3, <1>5

ExposureAnswer(e) ==
    LET committed == ResolveCommandExposure(e[1])
        current   == ResolveCommandExposure(e[2])
    IN [is |-> "commands", committed |-> committed, current |-> current,
        status |-> CommandStatus(committed, current)]

ExposureInv ==
    Asked("commands") =>
       question.about \in Exposures /\ (answer = NoAnswer \/ answer = ExposureAnswer(question.about))

LEMMA ExposureImplies == ExposureInv => ExposureIsSafe
  <1> SUFFICES ASSUME ExposureInv, Asked("commands"), answer # NoAnswer PROVE ExposureIsSafe
    BY DEF ExposureIsSafe
  <1>1. PICK e, f, committed, current :
           /\ e = question.about[1] /\ f = question.about[2]
           /\ committed = ResolveCommandExposure(e) /\ current = ResolveCommandExposure(f)
    OBVIOUS
  <1>2. Described(e) /\ Described(f)
    BY <1>1, ExposureAssumption DEF ExposureInv, Described
  <1>3. /\ answer.committed = committed /\ answer.current = current
        /\ answer.status = CommandStatus(committed, current)
    BY <1>1 DEF ExposureInv, ExposureAnswer
  <1>4. \A raw : Spelling(raw) = Lowered(raw.texts)
    BY DEF Spelling, Lowered
  <1>5. Spelling([texts |-> [k \in DOMAIN e.bin.texts |-> BinName(e.bin.texts[k])]])
          = Lowered(BinTexts(e.bin))
    BY <1>4 DEF BinTexts
  <1>6. ASSUME committed.is = "resolved"
        PROVE  /\ committed.commands # {}
               /\ \A n \in committed.commands :
                     /\ SafeName(n)
                     /\ \A m \in committed.commands : Folded(m) = Folded(n) => m = n
                     /\ Folded(n) \in Spelling(e.package) \union Spelling(e.installer)
                                        \union Lowered(BinTexts(e.bin))
    <2>1. /\ committed.commands # {}
          /\ \/ committed.commands = ParseCommandList(e.package)
             \/ committed.commands = ParseCommandList(e.installer)
             \/ committed.commands = CommandsFromBin(e.bin)
      BY <1>1, <1>6, CommandsOfSource
    <2>2. \A x \in committed.commands :
             /\ SafeName(x)
             /\ \A y \in committed.commands : Folded(y) = Folded(x) => y = x
             /\ Folded(x) \in Lowered(e.package.texts) \union Lowered(e.installer.texts)
                                \union Lowered(BinTexts(e.bin))
      <3>1. CASE committed.commands = ParseCommandList(e.package)
        BY <1>2, <3>1, FieldNames
      <3>2. CASE committed.commands = ParseCommandList(e.installer)
        BY <1>2, <3>2, FieldNames
      <3>3. CASE committed.commands = CommandsFromBin(e.bin)
        BY <1>2, <3>3, FieldNames
      <3> QED BY <2>1, <3>1, <3>2, <3>3
    <2> QED BY <1>4, <2>1, <2>2
  <1>7. CommandStatus(committed, current) = "fresh" =>
           FoldedAll(committed.commands) = FoldedAll(current.commands)
           /\ committed.source = current.source
    BY <1>1, <1>2, FreshDecisions
  <1>8. (/\ e.bin = f.bin /\ e.identity = f.identity
         /\ Spelling(e.package) = Spelling(f.package)
         /\ Spelling(e.installer) = Spelling(f.installer))
          => CommandStatus(committed, current) # "stale"
    <2> SUFFICES ASSUME e.bin = f.bin, e.identity = f.identity,
                        Spelling(e.package) = Spelling(f.package),
                        Spelling(e.installer) = Spelling(f.installer)
                 PROVE  CommandStatus(committed, current) # "stale"
      OBVIOUS
    <2>1. /\ Lowered(e.package.texts) = Lowered(f.package.texts)
          /\ Lowered(e.installer.texts) = Lowered(f.installer.texts)
      BY <1>4
    <2>2. CommandStatus(ResolveCommandExposure(e), ResolveCommandExposure(f)) # "stale"
      BY <1>2, <2>1, RespelledIsNotStale
    <2> QED BY <1>1, <2>2
  <1> DEFINE old == question.about[1]
             new == question.about[2]
  <1>9. answer.committed.is = "resolved" =>
           /\ answer.committed.commands # {}
           /\ \A n \in answer.committed.commands :
                 /\ SafeName(n)
                 /\ \A m \in answer.committed.commands : Folded(m) = Folded(n) => m = n
                 /\ Folded(n) \in Spelling(old.package) \union Spelling(old.installer)
                      \union Spelling([texts |-> [k \in DOMAIN old.bin.texts |->
                                                    BinName(old.bin.texts[k])]])
    BY <1>1, <1>3, <1>5, <1>6
  <1>10. answer.status = "fresh" =>
            /\ FoldedAll(answer.committed.commands) = FoldedAll(answer.current.commands)
            /\ answer.committed.source = answer.current.source
    BY <1>3, <1>7
  <1>11. (/\ old.bin = new.bin /\ old.identity = new.identity
          /\ Spelling(old.package) = Spelling(new.package)
          /\ Spelling(old.installer) = Spelling(new.installer))
           => answer.status # "stale"
    BY <1>1, <1>3, <1>8
  <1> QED BY <1>9, <1>10, <1>11 DEF ExposureIsSafe

LEMMA ExposureStays == ExposureInv /\ [Next]_vars => ExposureInv'
  <1> SUFFICES ASSUME ExposureInv, [Next]_vars PROVE ExposureInv'
    OBVIOUS
  <1>1. question' = question /\ (UNCHANGED answer \/ ~Asked("commands") \/ AnswerCommands)
    BY DEF Next, vars, Try, Scan, Use, AnswerInstaller, AnswerCommands, AnswerVersion,
           AnswerManifest, AnswerSetting, AnswerUninstaller, Asked
  <1>2. ASSUME AnswerCommands PROVE answer' = ExposureAnswer(question.about)
    BY <1>2 DEF AnswerCommands, ExposureAnswer
  <1> QED BY <1>1, <1>2 DEF ExposureInv, Asked

(* Whatever is in the fields of an entry, the commands are safe and do not *)
(* collide, and repair tells a decision that would be another one today    *)
(* from one that is only spelled or ordered differently.                   *)
THEOREM ExposureStaysSafe == Spec => []ExposureIsSafe
  <1>1. Init => ExposureInv
    BY DEF Init, ExposureInv, Asked
  <1>2. Spec => []ExposureInv
    <2>1. ExposureInv /\ [Next]_vars => ExposureInv'
      BY ExposureStays
    <2> QED BY <1>1, <2>1, PTL DEF Spec
  <1> QED BY <1>2, ExposureImplies, PTL
--------------------------------------------------------------------------------
(* The installers of a manifest.  After n entries there is one installer   *)
(* for every key among them, with the commands of all that have the key.   *)
EntryTyped(e) == e = [type |-> e.type, url |-> e.url, scope |-> e.scope, switches |-> e.switches,
                      commands |-> e.commands]

SameKey(entries, n, i) == {m \in 1..n : CanonicalKey(entries[m]) = CanonicalKey(entries[i])}
Joined(entries, n, i) ==
    [entries[i] EXCEPT !.commands = UNION {entries[m].commands : m \in SameKey(entries, n, i)}]
After(entries, n) == {Joined(entries, n, i) : i \in 1..n}

LEMMA RebuiltEntry ==
  ASSUME NEW e, EntryTyped(e), NEW C
  PROVE  /\ [e EXCEPT !.commands = C].commands = C
         /\ CanonicalKey([e EXCEPT !.commands = C]) = CanonicalKey(e)
         /\ \A d : EntryTyped(d) /\ CanonicalKey(d) = CanonicalKey(e) =>
               [d EXCEPT !.commands = C] = [e EXCEPT !.commands = C]
  <1>1. \A d : EntryTyped(d) => [d EXCEPT !.commands = C] =
           [type |-> d.type, url |-> d.url, scope |-> d.scope, switches |-> d.switches, commands |-> C]
    BY DEF EntryTyped
  <1>2. \A d : CanonicalKey(d) = CanonicalKey(e) =>
           d.type = e.type /\ d.url = e.url /\ d.scope = e.scope /\ d.switches = e.switches
    BY DEF CanonicalKey
  <1>3. [e EXCEPT !.commands = C] =
           [type |-> e.type, url |-> e.url, scope |-> e.scope, switches |-> e.switches, commands |-> C]
    BY <1>1
  <1>4. /\ [e EXCEPT !.commands = C].commands = C
        /\ CanonicalKey([e EXCEPT !.commands = C]) = CanonicalKey(e)
    BY <1>3 DEF CanonicalKey
  <1> QED BY <1>1, <1>2, <1>3, <1>4

LEMMA JoinedEntry ==
  ASSUME NEW L \in Nat, NEW entries, \A i \in 1..L : EntryTyped(entries[i]), NEW n \in 0..L,
         NEW i \in 1..L
  PROVE  /\ Joined(entries, n, i).commands = UNION {entries[m].commands : m \in SameKey(entries, n, i)}
         /\ CanonicalKey(Joined(entries, n, i)) = CanonicalKey(entries[i])
         /\ \A j \in 1..L : CanonicalKey(entries[j]) = CanonicalKey(entries[i]) =>
               Joined(entries, n, j) = Joined(entries, n, i)
  <1>1. PICK C : C = UNION {entries[m].commands : m \in SameKey(entries, n, i)}
    OBVIOUS
  <1>2. Joined(entries, n, i) = [entries[i] EXCEPT !.commands = C]
    BY <1>1 DEF Joined
  <1>3. \A j \in 1..L : CanonicalKey(entries[j]) = CanonicalKey(entries[i]) =>
           Joined(entries, n, j) = [entries[j] EXCEPT !.commands = C]
    BY <1>1 DEF Joined, SameKey
  <1>4. PICK e : e = entries[i] /\ EntryTyped(e)
    OBVIOUS
  <1>5. /\ [e EXCEPT !.commands = C].commands = C
        /\ CanonicalKey([e EXCEPT !.commands = C]) = CanonicalKey(e)
        /\ \A d : EntryTyped(d) /\ CanonicalKey(d) = CanonicalKey(e) =>
              [d EXCEPT !.commands = C] = [e EXCEPT !.commands = C]
    BY <1>4, RebuiltEntry
  <1>6. ASSUME NEW j \in 1..L, CanonicalKey(entries[j]) = CanonicalKey(entries[i])
        PROVE  Joined(entries, n, j) = Joined(entries, n, i)
    <2>1. Joined(entries, n, j) = [entries[j] EXCEPT !.commands = C] /\ EntryTyped(entries[j])
      BY <1>3, <1>6
    <2>2. [entries[j] EXCEPT !.commands = C] = [e EXCEPT !.commands = C]
      BY <1>4, <1>5, <1>6, <2>1
    <2> QED BY <1>2, <1>4, <2>1, <2>2
  <1> QED BY <1>1, <1>2, <1>4, <1>5, <1>6

LEMMA MergeAddsOne ==
  ASSUME NEW L \in Nat, NEW entries, \A i \in 1..L : EntryTyped(entries[i]), NEW n \in 1..L
  PROVE  MergeInstaller(After(entries, n - 1), entries[n]) = After(entries, n)
  <1>1. PICK same, key : /\ key = CanonicalKey(entries[n])
                         /\ same = {m \in After(entries, n - 1) : CanonicalKey(m) = key}
    OBVIOUS
  <1>2. n - 1 \in 0..L /\ n \in 0..L /\ (\A i \in 1..(n - 1) : i \in 1..L /\ i \in 1..n /\ i # n)
        /\ \A i \in 1..n : i \in 1..(n - 1) \/ i = n
    OBVIOUS
  <1>3. \A i \in 1..(n - 1) : CanonicalKey(Joined(entries, n - 1, i)) = CanonicalKey(entries[i])
    BY <1>2, JoinedEntry
  <1>4. ASSUME NEW i \in 1..(n - 1), CanonicalKey(entries[i]) # key
        PROVE  Joined(entries, n - 1, i) = Joined(entries, n, i)
    <2>1. SameKey(entries, n - 1, i) = SameKey(entries, n, i)
      BY <1>1, <1>2, <1>4 DEF SameKey
    <2> QED BY <2>1 DEF Joined
  <1>5. MergeInstaller(After(entries, n - 1), entries[n]) =
           (After(entries, n - 1) \ same) \union
             {[entries[n] EXCEPT !.commands = @ \union UNION {m.commands : m \in same}]}
    BY <1>1 DEF MergeInstaller
  <1>6. entries[n].commands \union UNION {m.commands : m \in same} =
           UNION {entries[m].commands : m \in SameKey(entries, n, n)}
    <2>1. \A m \in same : \E i \in 1..(n - 1) :
             m = Joined(entries, n - 1, i) /\ CanonicalKey(entries[i]) = key
      BY <1>1, <1>3 DEF After
    <2>2. ASSUME NEW i \in 1..(n - 1), CanonicalKey(entries[i]) = key
          PROVE  /\ Joined(entries, n - 1, i) \in same
                 /\ Joined(entries, n - 1, i).commands =
                       UNION {entries[m].commands : m \in SameKey(entries, n - 1, i)}
                 /\ SameKey(entries, n, n) = SameKey(entries, n - 1, i) \union {n}
                 /\ i \in SameKey(entries, n - 1, i)
      <3>1. Joined(entries, n - 1, i) \in same
        BY <1>1, <1>3, <2>2 DEF After
      <3>2. Joined(entries, n - 1, i).commands =
               UNION {entries[m].commands : m \in SameKey(entries, n - 1, i)}
        BY <1>2, JoinedEntry
      <3>3. SameKey(entries, n, n) = SameKey(entries, n - 1, i) \union {n}
        BY <1>1, <1>2, <2>2 DEF SameKey
      <3> QED BY <3>1, <3>2, <3>3 DEF SameKey
    <2>3. n \in SameKey(entries, n, n)
      BY DEF SameKey
    <2>4. ASSUME NEW c \in entries[n].commands \union UNION {m.commands : m \in same}
          PROVE  c \in UNION {entries[m].commands : m \in SameKey(entries, n, n)}
      <3>1. CASE c \in entries[n].commands
        BY <2>3, <3>1
      <3>2. CASE c \in UNION {m.commands : m \in same}
        <4>1. PICK m \in same : c \in m.commands
          BY <3>2
        <4>2. PICK i \in 1..(n - 1) : m = Joined(entries, n - 1, i) /\ CanonicalKey(entries[i]) = key
          BY <2>1
        <4> QED BY <2>2, <4>1, <4>2
      <3> QED BY <2>4, <3>1, <3>2
    <2>5. ASSUME NEW c \in UNION {entries[m].commands : m \in SameKey(entries, n, n)}
          PROVE  c \in entries[n].commands \union UNION {m.commands : m \in same}
      <3>1. PICK m \in SameKey(entries, n, n) : c \in entries[m].commands
        BY <2>5
      <3>2. CASE m = n
        BY <3>1, <3>2
      <3>3. CASE m # n
        <4>1. m \in 1..(n - 1) /\ CanonicalKey(entries[m]) = key
          BY <1>1, <1>2, <3>3 DEF SameKey
        <4>2. Joined(entries, n - 1, m) \in same /\ c \in Joined(entries, n - 1, m).commands
          BY <2>2, <3>1, <4>1
        <4> QED BY <4>2
      <3> QED BY <3>2, <3>3
    <2> QED BY <2>4, <2>5
  <1>7. [entries[n] EXCEPT !.commands = @ \union UNION {m.commands : m \in same}] = Joined(entries, n, n)
    BY <1>6 DEF Joined
  <1>8. \A i \in 1..(n - 1) : CanonicalKey(entries[i]) = key =>
           Joined(entries, n, i) = Joined(entries, n, n)
    BY <1>1, <1>2, JoinedEntry
  <1>9. ASSUME NEW x \in (After(entries, n - 1) \ same) \union {Joined(entries, n, n)}
        PROVE  x \in After(entries, n)
    <2>1. CASE x = Joined(entries, n, n)
      BY <2>1 DEF After
    <2>2. CASE x # Joined(entries, n, n)
      <3>1. PICK i \in 1..(n - 1) : x = Joined(entries, n - 1, i) /\ x \notin same
        BY <1>9, <2>2 DEF After
      <3>2. CanonicalKey(entries[i]) # key
        BY <1>1, <1>3, <3>1 DEF After
      <3> QED BY <1>2, <1>4, <3>1, <3>2 DEF After
    <2> QED BY <2>1, <2>2
  <1>10. ASSUME NEW x \in After(entries, n)
         PROVE  x \in (After(entries, n - 1) \ same) \union {Joined(entries, n, n)}
    <2>1. PICK i \in 1..n : x = Joined(entries, n, i)
      BY DEF After
    <2>2. CASE i = n
      BY <2>1, <2>2
    <2>3. CASE i # n /\ CanonicalKey(entries[i]) = key
      BY <1>2, <1>8, <2>1, <2>3
    <2>4. CASE i # n /\ CanonicalKey(entries[i]) # key
      <3>1. i \in 1..(n - 1) /\ x = Joined(entries, n - 1, i)
        BY <1>2, <1>4, <2>1, <2>4
      <3>2. x \in After(entries, n - 1) /\ x \notin same
        BY <1>1, <1>3, <2>4, <3>1 DEF After
      <3> QED BY <3>2
    <2> QED BY <2>2, <2>3, <2>4
  <1> QED BY <1>5, <1>7, <1>9, <1>10

LEMMA MergedIsAfter ==
  ASSUME NEW L \in Nat, NEW entries, DOMAIN entries = 1..L, \A i \in 1..L : EntryTyped(entries[i])
  PROVE  Merged(entries)[L] = After(entries, L)
  <1> DEFINE Body(f) == [n \in Nat |-> IF n \notin DOMAIN entries THEN {}
                                       ELSE MergeInstaller(f[n - 1], entries[n])]
  <1>1. PICK f : f = [n \in Nat |-> IF n \in 1..L THEN After(entries, n) ELSE {}]
    OBVIOUS
  <1>2. After(entries, 0) = {}
    BY DEF After
  <1>3. f = Body(f)
    <2>1. ASSUME NEW n \in Nat PROVE f[n] = Body(f)[n]
      <3>1. CASE n \in 1..L
        <4>1. n - 1 \in Nat /\ (n - 1 \in 1..L \/ n - 1 = 0)
          BY <3>1
        <4>2. f[n - 1] = After(entries, n - 1)
          BY <1>1, <1>2, <4>1
        <4> QED BY <1>1, <3>1, <4>2, MergeAddsOne
      <3>2. CASE n \notin 1..L
        BY <1>1, <3>2
      <3> QED BY <3>1, <3>2
    <2> QED BY <1>1, <2>1
  <1>4. Merged(entries) = Body(Merged(entries))
    BY <1>3, Zenon DEF Merged
  <1> DEFINE g == Merged(entries)
  <1> HIDE DEF g
  <1>5. g = Body(g)
    BY <1>4 DEF g
  <1>6. g[0] = {} /\ \A n \in 1..L : g[n] = MergeInstaller(g[n - 1], entries[n])
    BY <1>5
  <1>7. \A n \in Nat : n <= L => g[n] = After(entries, n)
    <2> DEFINE S == {n \in Nat : n <= L => g[n] = After(entries, n)}
    <2>1. 0 \in S
      BY <1>2, <1>6
    <2>2. ASSUME NEW n \in Nat, n \in S PROVE n + 1 \in S
      <3>1. CASE n + 1 <= L
        <4>1. n + 1 \in 1..L /\ (n + 1) - 1 = n /\ n <= L
          BY <3>1
        <4>2. g[n + 1] = MergeInstaller(After(entries, (n + 1) - 1), entries[n + 1])
          BY <1>6, <2>2, <4>1
        <4> QED BY <4>1, <4>2, MergeAddsOne
      <3>2. CASE ~(n + 1 <= L)
        BY <3>2
      <3> QED BY <3>1, <3>2
    <2> HIDE DEF S
    <2>3. Nat \subseteq S
      BY <2>1, <2>2, AllNumbers
    <2> QED BY <2>3 DEF S
  <1> QED BY <1>7 DEF g

(* What is merged depends on the entries alone, not on their order.        *)
Within(a, b, L) == \A k \in 1..L : \E l \in 1..L : b[l] = a[k]

LEMMA JoinedAlike ==
  ASSUME NEW L \in Nat, NEW a, NEW b, Within(a, b, L), Within(b, a, L),
         NEW i \in 1..L, NEW j \in 1..L, b[j] = a[i]
  PROVE  Joined(a, L, i) = Joined(b, L, j)
  <1>1. ASSUME NEW m \in SameKey(a, L, i)
        PROVE  \E l \in SameKey(b, L, j) : b[l].commands = a[m].commands
    <2>1. m \in 1..L /\ CanonicalKey(a[m]) = CanonicalKey(a[i])
      BY DEF SameKey
    <2>2. PICK l \in 1..L : b[l] = a[m]
      BY <2>1 DEF Within
    <2>3. CanonicalKey(b[l]) = CanonicalKey(b[j])
      BY <2>1, <2>2
    <2> QED BY <2>2, <2>3 DEF SameKey
  <1>2. ASSUME NEW m \in SameKey(b, L, j)
        PROVE  \E l \in SameKey(a, L, i) : a[l].commands = b[m].commands
    <2>1. m \in 1..L /\ CanonicalKey(b[m]) = CanonicalKey(b[j])
      BY DEF SameKey
    <2>2. PICK l \in 1..L : a[l] = b[m]
      BY <2>1 DEF Within
    <2>3. CanonicalKey(a[l]) = CanonicalKey(a[i])
      BY <2>1, <2>2
    <2> QED BY <2>2, <2>3 DEF SameKey
  <1>3. PICK A, B : /\ A = UNION {a[m].commands : m \in SameKey(a, L, i)}
                    /\ B = UNION {b[m].commands : m \in SameKey(b, L, j)}
    OBVIOUS
  <1>4. A = B
    <2>1. ASSUME NEW c \in A PROVE c \in B
      <3>1. PICK m \in SameKey(a, L, i) : c \in a[m].commands
        BY <1>3
      <3> QED BY <1>1, <1>3, <3>1
    <2>2. ASSUME NEW c \in B PROVE c \in A
      <3>1. PICK m \in SameKey(b, L, j) : c \in b[m].commands
        BY <1>3
      <3> QED BY <1>2, <1>3, <3>1
    <2> QED BY <2>1, <2>2
  <1> QED BY <1>3, <1>4 DEF Joined

LEMMA OrderDoesNotMatter ==
  ASSUME NEW L \in Nat, NEW entries, NEW others, Within(entries, others, L), Within(others, entries, L)
  PROVE  After(entries, L) = After(others, L)
  <1>1. ASSUME NEW i \in 1..L PROVE \E j \in 1..L : Joined(entries, L, i) = Joined(others, L, j)
    <2>1. PICK j \in 1..L : others[j] = entries[i]
      BY DEF Within
    <2>2. Joined(entries, L, i) = Joined(others, L, j)
      BY <2>1, JoinedAlike
    <2> QED BY <2>2
  <1>2. ASSUME NEW i \in 1..L PROVE \E j \in 1..L : Joined(others, L, i) = Joined(entries, L, j)
    <2>1. PICK j \in 1..L : entries[j] = others[i]
      BY DEF Within
    <2>2. Joined(others, L, i) = Joined(entries, L, j)
      BY <2>1, JoinedAlike
    <2> QED BY <2>2
  <1> QED BY <1>1, <1>2 DEF After

LEMMA ResolvedTyped ==
  ASSUME NEW manifest, NEW i \in DOMAIN Listed(manifest)
  PROVE  EntryTyped(ResolvedInstallers(manifest)[i])
  <1>1. ResolvedInstallers(manifest)[i] = ResolveInstaller(Listed(manifest)[i], manifest.defaults)
    BY DEF ResolvedInstallers
  <1> QED BY <1>1 DEF EntryTyped, ResolveInstaller

Turned(manifest) == [manifest EXCEPT !.installers = Reverse(@)]

LEMMA TurnedIsListed ==
  ASSUME NEW m \in ManifestSet
  PROVE  \E L \in Nat :
            /\ DOMAIN Listed(m) = 1..L /\ Len(Listed(m)) = L
            /\ DOMAIN Listed(Turned(m)) = 1..L /\ Len(Listed(Turned(m))) = L
            /\ Turned(m).defaults = m.defaults
            /\ \A i \in 1..L : (L - i) + 1 \in 1..L
            /\ \/ Listed(Turned(m)) = Listed(m)
               \/ \A i \in 1..L : Listed(Turned(m))[i] = Listed(m)[(L - i) + 1]
  <1>1. PICK t, s : t = Turned(m) /\ s = m.installers
    OBVIOUS
  <1>2. s \in Seq(ToSet(s)) /\ Len(s) \in Nat /\ DOMAIN s = 1..Len(s)
    BY <1>1, ManifestAssumption
  <1>3. t = [files |-> m.files, defaults |-> m.defaults, installers |-> Reverse(s)]
    BY <1>1, ManifestAssumption DEF Turned
  <1>4. t.defaults = m.defaults /\ t.installers = Reverse(s)
    BY <1>3
  <1>5. /\ Reverse(s) \in Seq(ToSet(s)) /\ Len(Reverse(s)) = Len(s) /\ DOMAIN Reverse(s) = 1..Len(s)
        /\ \A i \in 1..Len(s) : Reverse(s)[i] = s[(Len(s) - i) + 1]
    <2>1. \A i \in 1..Len(s) : (Len(s) - i) + 1 \in 1..Len(s)
      BY <1>2
    <2>2. \A i \in 1..Len(s) : s[(Len(s) - i) + 1] \in ToSet(s)
      BY <1>2, <2>1 DEF ToSet
    <2>3. Reverse(s) = [i \in 1..Len(s) |-> s[(Len(s) - i) + 1]]
      BY DEF Reverse
    <2> QED BY <1>2, <2>2, <2>3
  <1>6. CASE s # <<>>
    <2>1. Reverse(s) # <<>> /\ Len(s) # 0
      BY <1>2, <1>5, <1>6
    <2>2. Listed(m) = s /\ Listed(t) = Reverse(s)
      BY <1>1, <1>4, <1>6, <2>1 DEF Listed
    <2>3. \A i \in 1..Len(s) : (Len(s) - i) + 1 \in 1..Len(s)
      BY <1>2
    <2> QED BY <1>1, <1>2, <1>4, <1>5, <2>2, <2>3
  <1>7. CASE s = <<>>
    <2>1. Reverse(s) = <<>>
      BY <1>5, <1>7
    <2>2. Listed(t) = Listed(m)
      BY <1>1, <1>4, <1>7, <2>1 DEF Listed
    <2>3. Listed(m) = <<>> \/ Listed(m) = <<m.defaults>>
      BY <1>1, <1>7 DEF Listed
    <2>4. /\ DOMAIN Listed(m) = 1..Len(Listed(m)) /\ Len(Listed(m)) \in {0, 1}
      BY <2>3
    <2>5. \A L \in {0, 1} : \A i \in 1..L : (L - i) + 1 \in 1..L
      OBVIOUS
    <2>6. PICK L : L = Len(Listed(m)) /\ L \in {0, 1}
      BY <2>4
    <2> QED BY <1>1, <1>4, <2>2, <2>4, <2>5, <2>6
  <1> QED BY <1>6, <1>7

JoinsAll(entries, n, i) ==
    /\ CanonicalKey(Joined(entries, n, i)) = CanonicalKey(entries[i])
    /\ Joined(entries, n, i).commands = UNION {entries[m].commands : m \in SameKey(entries, n, i)}
    /\ \A j \in 1..n : CanonicalKey(entries[j]) = CanonicalKey(entries[i]) =>
          Joined(entries, n, j) = Joined(entries, n, i)

LEMMA EveryJoined ==
  ASSUME NEW L \in Nat, NEW entries, \A i \in 1..L : EntryTyped(entries[i]), NEW i \in 1..L
  PROVE  JoinsAll(entries, L, i)
  <1>1. L \in 0..L
    OBVIOUS
  <1>2. CanonicalKey(Joined(entries, L, i)) = CanonicalKey(entries[i])
    BY <1>1, JoinedEntry
  <1>3. Joined(entries, L, i).commands = UNION {entries[m].commands : m \in SameKey(entries, L, i)}
    BY <1>1, JoinedEntry
  <1>4. ASSUME NEW j \in 1..L, CanonicalKey(entries[j]) = CanonicalKey(entries[i])
        PROVE  Joined(entries, L, j) = Joined(entries, L, i)
    BY <1>1, <1>4, JoinedEntry
  <1> QED BY <1>2, <1>3, <1>4 DEF JoinsAll

LEMMA MergedOnce ==
  ASSUME NEW m \in ManifestSet, NEW written, written = WrittenInstallers(m),
         NEW entries, entries = ResolvedInstallers(m)
  PROVE  /\ {CanonicalKey(i) : i \in written} = {CanonicalKey(i) : i \in ToSet(entries)}
         /\ \A i, j \in written : CanonicalKey(i) = CanonicalKey(j) => i = j
         /\ \A i \in written :
               i.commands = UNION {entries[n].commands :
                                     n \in {n \in DOMAIN entries :
                                              CanonicalKey(entries[n]) = CanonicalKey(i)}}
         /\ written = WrittenInstallers(Turned(m))
  <1>1. PICK L \in Nat :
            /\ DOMAIN Listed(m) = 1..L /\ Len(Listed(m)) = L
            /\ DOMAIN Listed(Turned(m)) = 1..L /\ Len(Listed(Turned(m))) = L
            /\ Turned(m).defaults = m.defaults
            /\ \A i \in 1..L : (L - i) + 1 \in 1..L
            /\ \/ Listed(Turned(m)) = Listed(m)
               \/ \A i \in 1..L : Listed(Turned(m))[i] = Listed(m)[(L - i) + 1]
    BY TurnedIsListed
  <1>2. PICK others : others = ResolvedInstallers(Turned(m))
    OBVIOUS
  <1>3. /\ DOMAIN entries = 1..L /\ DOMAIN others = 1..L
        /\ \A i \in 1..L : EntryTyped(entries[i])
        /\ \A i \in 1..L : EntryTyped(others[i])
    BY <1>1, <1>2, ResolvedTyped DEF ResolvedInstallers
  <1>4. written = After(entries, L)
    <2>1. written = Merged(entries)[L]
      BY <1>1 DEF WrittenInstallers
    <2> QED BY <1>3, <2>1, MergedIsAfter
  <1>5. WrittenInstallers(Turned(m)) = After(others, L)
    <2>1. WrittenInstallers(Turned(m)) = Merged(others)[L]
      BY <1>1, <1>2 DEF WrittenInstallers
    <2> QED BY <1>3, <2>1, MergedIsAfter
  <1>6. Within(entries, others, L) /\ Within(others, entries, L)
    <2>1. \A i \in 1..L : /\ entries[i] = ResolveInstaller(Listed(m)[i], m.defaults)
                          /\ others[i] = ResolveInstaller(Listed(Turned(m))[i], m.defaults)
      BY <1>1, <1>2 DEF ResolvedInstallers
    <2>2. CASE Listed(Turned(m)) = Listed(m)
      BY <2>1, <2>2 DEF Within
    <2>3. CASE \A i \in 1..L : Listed(Turned(m))[i] = Listed(m)[(L - i) + 1]
      <3>1. \A i \in 1..L : others[i] = entries[(L - i) + 1]
        BY <1>1, <2>1, <2>3
      <3>2. \A i \in 1..L : others[(L - i) + 1] = entries[i]
        <4> SUFFICES ASSUME NEW i \in 1..L PROVE others[(L - i) + 1] = entries[i]
          OBVIOUS
        <4>1. (L - ((L - i) + 1)) + 1 = i
          OBVIOUS
        <4> QED BY <1>1, <3>1, <4>1
      <3> QED BY <1>1, <3>1, <3>2 DEF Within
    <2> QED BY <1>1, <2>2, <2>3
  <1>7. written = WrittenInstallers(Turned(m))
    BY <1>4, <1>5, <1>6, OrderDoesNotMatter
  <1>8. \A i \in 1..L : JoinsAll(entries, L, i)
    BY <1>3, EveryJoined
  <1>9. \A x \in written : \E i \in 1..L : x = Joined(entries, L, i)
    BY <1>4 DEF After
  <1>10. {CanonicalKey(i) : i \in written} = {CanonicalKey(i) : i \in ToSet(entries)}
    <2>1. ToSet(entries) = {entries[i] : i \in 1..L}
      BY <1>3 DEF ToSet
    <2>2. \A x \in written : \E i \in 1..L : CanonicalKey(x) = CanonicalKey(entries[i])
      BY <1>8, <1>9 DEF JoinsAll
    <2>3. \A i \in 1..L : \E x \in written : CanonicalKey(x) = CanonicalKey(entries[i])
      BY <1>4, <1>8 DEF After, JoinsAll
    <2> HIDE DEF CanonicalKey
    <2> QED BY <2>1, <2>2, <2>3
  <1>11. \A x, y \in written : CanonicalKey(x) = CanonicalKey(y) => x = y
    BY <1>8, <1>9 DEF JoinsAll
  <1>12. \A x \in written :
            x.commands = UNION {entries[n].commands :
                                  n \in {n \in DOMAIN entries :
                                           CanonicalKey(entries[n]) = CanonicalKey(x)}}
    <2> SUFFICES ASSUME NEW x \in written
                 PROVE  x.commands = UNION {entries[n].commands :
                                              n \in {n \in DOMAIN entries :
                                                       CanonicalKey(entries[n]) = CanonicalKey(x)}}
      OBVIOUS
    <2>1. PICK i \in 1..L : x = Joined(entries, L, i)
      BY <1>9
    <2>2. x.commands = UNION {entries[n].commands : n \in SameKey(entries, L, i)}
      BY <1>8, <2>1 DEF JoinsAll
    <2>3. SameKey(entries, L, i) = {n \in DOMAIN entries : CanonicalKey(entries[n]) = CanonicalKey(x)}
      BY <1>3, <1>8, <2>1 DEF SameKey, JoinsAll
    <2> QED BY <2>2, <2>3
  <1> QED BY <1>7, <1>10, <1>11, <1>12

ManifestAnswer(m) ==
    IF Skipped(m) THEN [is |-> "skipped"]
    ELSE [is |-> "installers", installers |-> WrittenInstallers(m)]

ManifestInv ==
    Asked("manifest") =>
       question.about \in ManifestSet /\ (answer = NoAnswer \/ answer = ManifestAnswer(question.about))

LEMMA ManifestImplies == ManifestInv => InstallersAreMerged
  <1> SUFFICES ASSUME ManifestInv, Asked("manifest"), answer # NoAnswer, answer.is = "installers"
               PROVE  InstallersAreMerged
    BY DEF InstallersAreMerged
  <1>1. question.about \in ManifestSet /\ answer = ManifestAnswer(question.about)
    BY DEF ManifestInv
  <1>2. answer.installers = WrittenInstallers(question.about)
    BY <1>1 DEF ManifestAnswer
  <1>3. PICK written, entries : /\ written = WrittenInstallers(question.about)
                                /\ entries = ResolvedInstallers(question.about)
    OBVIOUS
  <1>4. /\ {CanonicalKey(i) : i \in written} = {CanonicalKey(i) : i \in ToSet(entries)}
        /\ \A i, j \in written : CanonicalKey(i) = CanonicalKey(j) => i = j
        /\ \A i \in written :
              i.commands = UNION {entries[n].commands :
                                    n \in {n \in DOMAIN entries :
                                             CanonicalKey(entries[n]) = CanonicalKey(i)}}
        /\ written = WrittenInstallers(Turned(question.about))
    BY <1>1, <1>3, MergedOnce
  <1> DEFINE manifest == question.about
             listing == ResolvedInstallers(manifest)
  <1>5. listing = entries /\ answer.installers = written
    BY <1>2, <1>3
  <1>6. /\ {CanonicalKey(i) : i \in answer.installers} = {CanonicalKey(i) : i \in ToSet(listing)}
        /\ \A i, j \in answer.installers : CanonicalKey(i) = CanonicalKey(j) => i = j
        /\ \A i \in answer.installers :
              i.commands = UNION {listing[n].commands :
                                    n \in {n \in DOMAIN listing :
                                             CanonicalKey(listing[n]) = CanonicalKey(i)}}
        /\ answer.installers = WrittenInstallers([manifest EXCEPT !.installers = Reverse(@)])
    <2> HIDE DEF listing
    <2> QED BY <1>4, <1>5 DEF Turned
  <1> QED BY <1>6, Zenon DEF InstallersAreMerged

LEMMA ManifestStays == ManifestInv /\ [Next]_vars => ManifestInv'
  <1> SUFFICES ASSUME ManifestInv, [Next]_vars PROVE ManifestInv'
    OBVIOUS
  <1>1. question' = question /\ (UNCHANGED answer \/ ~Asked("manifest") \/ AnswerManifest)
    BY DEF Next, vars, Try, Scan, Use, AnswerInstaller, AnswerCommands, AnswerVersion,
           AnswerManifest, AnswerSetting, AnswerUninstaller, Asked
  <1>2. ASSUME AnswerManifest PROVE answer' = ManifestAnswer(question.about)
    BY <1>2 DEF AnswerManifest, ManifestAnswer
  <1> QED BY <1>1, <1>2 DEF ManifestInv, Asked

(* The crawler writes one installer for every key among a manifest's       *)
(* entries, with the commands of all of them, whatever their order.        *)
THEOREM EveryInstallerIsMerged == Spec => []InstallersAreMerged
  <1>1. Init => ManifestInv
    BY DEF Init, ManifestInv, Asked
  <1>2. Spec => []ManifestInv
    <2>1. ManifestInv /\ [Next]_vars => ManifestInv'
      BY ManifestStays
    <2> QED BY <1>1, <2>1, PTL DEF Spec
  <1> QED BY <1>2, ManifestImplies, PTL
--------------------------------------------------------------------------------
(* Retries.  Powers of two grow, and the multiplier and the product fit    *)
(* into a duration, so that nothing wraps before the cap takes over.       *)
LEMMA PowersOfTwo ==
  /\ TwoTo[0] = 1
  /\ \A n \in Nat : TwoTo[n] \in Nat \ {0} /\ TwoTo[n + 1] = 2 * TwoTo[n]
  <1> DEFINE Body(f) == [n \in Nat |-> IF n = 0 THEN 1 ELSE 2 * f[n - 1]]
  <1>0. PICK twice : twice = [d \in Nat |-> 2 * d]
    OBVIOUS
  <1>1. PICK step : step = [n \in Nat |-> twice]
    OBVIOUS
  <1>2. step \in [Nat -> [Nat -> Nat]]
    <2>1. twice \in [Nat -> Nat]
      BY <1>0
    <2>2. \A n \in Nat : twice \in [Nat -> Nat]
      BY <2>1
    <2> QED BY <1>1, <2>2, Zenon
  <1>3. PICK f \in [Nat -> Nat] : f[0] = 1 /\ \A n \in Nat : f[n + 1] = step[n][f[n]]
    <2>1. 1 \in Nat
      OBVIOUS
    <2>2. Chains(Nat, 1, step)
      BY <1>2, <2>1, StepsCompose
    <2> QED BY <2>2 DEF Chains
  <1>4. \A n \in Nat : f[n + 1] = 2 * f[n]
    BY <1>0, <1>1, <1>3
  <1>5. f = Body(f)
    <2>1. ASSUME NEW n \in Nat, n # 0 PROVE f[n] = 2 * f[n - 1]
      <3>1. n - 1 \in Nat /\ (n - 1) + 1 = n
        BY <2>1
      <3> QED BY <1>4, <3>1
    <2> QED BY <1>3, <2>1
  <1>6. TwoTo = Body(TwoTo)
    BY <1>5, Zenon DEF TwoTo
  <1> DEFINE g == TwoTo
  <1> HIDE DEF g
  <1>7. g = Body(g)
    BY <1>6 DEF g
  <1>8. g[0] = 1
    BY <1>7
  <1>9. ASSUME NEW n \in Nat PROVE g[n + 1] = 2 * g[n]
    <2>1. n + 1 \in Nat /\ n + 1 # 0 /\ (n + 1) - 1 = n
      OBVIOUS
    <2>2. g[n + 1] = 2 * g[(n + 1) - 1]
      BY <1>7, <2>1
    <2> QED BY <2>1, <2>2
  <1> DEFINE S == {n \in Nat : g[n] \in Nat \ {0}}
  <1>10. 0 \in S
    BY <1>8
  <1>11. \A n \in Nat : n \in S => n + 1 \in S
    BY <1>9
  <1> HIDE DEF S
  <1>12. Nat \subseteq S
    BY <1>10, <1>11, AllNumbers
  <1>13. \A n \in Nat : g[n] \in Nat \ {0}
    BY <1>12 DEF S
  <1> QED BY <1>8, <1>9, <1>13 DEF g

LEMMA PowersGrow ==
  ASSUME NEW m \in Nat, NEW n \in Nat, m <= n
  PROVE  TwoTo[m] <= TwoTo[n]
  <1> DEFINE S == {k \in Nat : m <= k => TwoTo[m] <= TwoTo[k]}
  <1>1. 0 \in S
    BY PowersOfTwo
  <1>2. ASSUME NEW k \in Nat, k \in S PROVE k + 1 \in S
    <2>1. TwoTo[k] \in Nat /\ TwoTo[k + 1] = 2 * TwoTo[k] /\ TwoTo[m] \in Nat /\ TwoTo[k + 1] \in Nat
      BY PowersOfTwo
    <2>2. CASE m <= k
      BY <1>2, <2>1, <2>2
    <2>3. CASE ~(m <= k)
      <3>1. m <= k + 1 => m = k + 1
        BY <2>3
      <3> QED BY <2>1, <3>1
    <2> QED BY <2>2, <2>3
  <1> HIDE DEF S
  <1>3. Nat \subseteq S
    BY <1>1, <1>2, AllNumbers
  <1> QED BY <1>3 DEF S

LEMMA Unwrapped ==
  ASSUME NEW n \in Nat, n < TwoTo[Width - 1]
  PROVE  Wrapped(n) = n
  <1>1. Width - 1 \in Nat /\ (Width - 1) + 1 = Width
    BY RetryAssumption DEF RetryAssumption
  <1>2. PICK H : H = TwoTo[Width - 1]
    OBVIOUS
  <1>3. H \in Nat \ {0} /\ TwoTo[Width] = 2 * H
    BY <1>1, <1>2, PowersOfTwo
  <1>4. (n + H) % (2 * H) = n + H
    <2>1. n + H \in Nat /\ 2 * H \in Nat /\ 2 * H > 0 /\ n + H < 2 * H
      BY <1>2, <1>3
    <2>2. \A a \in Nat, b \in Nat : b > 0 /\ a < b => a % b = a
      OBVIOUS
    <2> QED BY <2>1, <2>2
  <1>5. Wrapped(n) = ((n + H) % (2 * H)) - H
    BY <1>2, <1>3 DEF Wrapped
  <1> QED BY <1>3, <1>4, <1>5

LEMMA LeastOfTwo ==
  ASSUME NEW a \in Int, NEW b \in Int
  PROVE  Min({a, b}) = IF a <= b THEN a ELSE b
  BY DEF Min

LEMMA GreatestOfTwo ==
  ASSUME NEW a \in Int, NEW b \in Int
  PROVE  Max({a, b}) = IF a >= b THEN a ELSE b
  BY DEF Max

LEMMA JitterIsBounded ==
  ASSUME NEW v \in Nat, 0 < v, v <= Cap, NEW d \in WithJitter(v)
  PROVE  d \in Nat /\ d >= v \div 2 /\ 2 * d < 3 * Cap
  <1>1. Cap \in Nat
    BY RetryAssumption DEF RetryAssumption
  <1>2. d = v \div 2 \/ d = v \div 2 + v - 1
    BY DEF WithJitter
  <1> QED BY <1>1, <1>2

LEMMA DelayBacksOff ==
  ASSUME NEW n \in Nat \ {0}, NEW base \in Nat \ {0}, NEW d \in CalculateDelay(n, base)
  PROVE  d \in Nat /\ d >= Backoff(n, base) /\ 2 * d < 3 * Cap
  <1>1. Cap \in Nat \ {0} /\ Width \in Nat \ {0, 1} /\ Cap <= TwoTo[Width - 2]
    BY RetryAssumption DEF RetryAssumption
  <1>2. PICK p : p = Min({n - 1, Width - 2})
    OBVIOUS
  <1>3. p \in Nat /\ p <= Width - 2 /\ (p = n - 1 \/ (p = Width - 2 /\ p < n - 1))
    BY <1>1, <1>2, LeastOfTwo
  <1>4. PICK m, top : m = TwoTo[p] /\ top = TwoTo[Width - 2]
    OBVIOUS
  <1>5. /\ m \in Nat \ {0} /\ top \in Nat \ {0} /\ m <= top /\ Cap <= top
        /\ TwoTo[Width - 1] = 2 * top
    <2>1. Width - 2 \in Nat /\ (Width - 2) + 1 = Width - 1
      BY <1>1
    <2> QED BY <1>1, <1>3, <1>4, <2>1, PowersOfTwo, PowersGrow
  <1>6. Wrapped(TwoTo[p]) = m
    BY <1>4, <1>5, Unwrapped
  <1>7. PICK full : full = TwoTo[n - 1]
    OBVIOUS
  <1>8. full \in Nat \ {0} /\ base * full \in Nat
    BY <1>7, PowersOfTwo
  <1>9. Backoff(n, base) = (IF Cap <= base * full THEN Cap ELSE base * full) \div 2
    <2>1. Min({Cap, base * full}) = IF Cap <= base * full THEN Cap ELSE base * full
      BY <1>1, <1>8, LeastOfTwo
    <2> QED BY <1>7, <2>1 DEF Backoff
  <1>10. CASE m > Cap \div base
    <2>1. d \in WithJitter(Cap)
      BY <1>2, <1>6, <1>10 DEF CalculateDelay
    <2>2. d \in Nat /\ d >= Cap \div 2 /\ 2 * d < 3 * Cap
      BY <1>1, <2>1, JitterIsBounded
    <2> QED BY <1>1, <1>8, <1>9, <2>2
  <1>11. CASE ~(m > Cap \div base)
    <2>1. base * m \in Nat \ {0} /\ base * m <= Cap /\ m <= base * m
      <3>1. PICK q \in Nat : q = Cap \div base /\ base * q <= Cap
        BY <1>1
      <3>2. base * m <= base * q
        BY <1>5, <1>11, <3>1
      <3> QED BY <1>1, <1>5, <3>1, <3>2
    <2>2. Wrapped(base * m) = base * m
      BY <1>1, <1>5, <2>1, Unwrapped
    <2>3. Min({base * m, Cap}) = base * m
      BY <1>1, <2>1, LeastOfTwo
    <2>4. d \in WithJitter(base * m)
      BY <1>2, <1>6, <1>11, <2>2, <2>3 DEF CalculateDelay
    <2>5. d \in Nat /\ d >= (base * m) \div 2 /\ 2 * d < 3 * Cap
      BY <2>1, <2>4, JitterIsBounded
    <2>6. CASE p = n - 1
      <3>1. full = m
        BY <1>4, <1>7, <2>6
      <3> QED BY <1>1, <1>9, <2>1, <2>5, <3>1
    <2>7. CASE p = Width - 2
      <3>1. base * m = Cap
        BY <1>1, <1>4, <1>5, <2>1, <2>7
      <3> QED BY <1>1, <1>8, <1>9, <2>5, <3>1
    <2> QED BY <1>3, <2>6, <2>7
  <1> QED BY <1>10, <1>11

Calling(r) ==
    r = [plan |-> r.plan, at |-> r.at, attempt |-> r.attempt, errs |-> r.errs, clock |-> r.clock,
         delay |-> r.delay, cancelled |-> r.cancelled, reported |-> r.reported]

\* A call that may still make an attempt has waited for it as long as it must.
RetryGood(r) ==
    /\ Calling(r) /\ r.plan \in Plans
    /\ r.at \in {"enter", "loop", "attempt", "delay", "sleep", "ok"} \union Results
    /\ r.attempt \in Nat \ {0} /\ r.attempt <= MaxAttempts(r.plan)
    /\ r.at = "enter" => r.attempt = 1
    /\ r.at \in {"loop", "attempt", "delay", "sleep"} => r.plan.base > 0
    /\ r.at \in {"delay", "sleep"} => r.attempt < MaxAttempts(r.plan)
    /\ r.at = "sleep" => r.delay \in CalculateDelay(r.attempt, r.plan.base)
    /\ r.at = "loop" /\ r.attempt > 1 => r.delay \in CalculateDelay(r.attempt - 1, r.plan.base)

RetryInv == Asked("retry") => RetryGood(retry)

LEMMA RetryGoes ==
  ASSUME RetryGood(retry), RetryStep
  PROVE  RetryGood(retry')
  <1>1. retry.plan.max \in Int /\ retry.plan.base \in Int
        /\ MaxAttempts(retry.plan) \in Nat \ {0}
    <2>1. retry.plan.max \in Int /\ retry.plan.base \in Int /\ 1 \in Int
      BY RetryAssumption DEF RetryAssumption, RetryGood
    <2>2. Max({retry.plan.max, 1}) = IF retry.plan.max >= 1 THEN retry.plan.max ELSE 1
      BY <2>1, GreatestOfTwo
    <2>3. MaxAttempts(retry.plan) = IF retry.plan.max >= 1 THEN retry.plan.max ELSE 1
      BY <2>2 DEF MaxAttempts
    <2> QED BY <2>1, <2>3
  <1>10. retry.attempt # MaxAttempts(retry.plan) => retry.attempt < MaxAttempts(retry.plan)
    BY <1>1 DEF RetryGood
  <1> USE DEF RetryGood, Calling, Results
  <1>2. CASE Enter
    <2>1. CASE retry.plan.base <= 0 \/ ContextEnded(retry)
      <3>1. PICK end \in {"refused", "cancelled"} : retry' = [retry EXCEPT !.at = end, !.reported = 0]
        BY <1>2, <2>1 DEF Enter, EndRetry
      <3> QED BY <1>1, <3>1
    <2>2. CASE ~(retry.plan.base <= 0 \/ ContextEnded(retry))
      <3>1. retry' = [retry EXCEPT !.at = "loop"] /\ retry.at = "enter"
        BY <1>2, <2>2 DEF Enter
      <3> QED BY <1>1, <2>2, <3>1
    <2> QED BY <2>1, <2>2
  <1>3. CASE StartAttempt
    BY <1>1, <1>3 DEF StartAttempt, EndRetry
  <1>4. CASE Succeed
    BY <1>1, <1>4 DEF Succeed
  <1>5. ASSUME NEW retryable \in BOOLEAN, Fail(retryable) PROVE RetryGood(retry')
    <2>1. PICK d \in Durations : \E last \in BOOLEAN :
             /\ last = (~retryable \/ retry.attempt = MaxAttempts(retry.plan))
             /\ retry' = [retry EXCEPT !.at = IF last THEN "attempt failed" ELSE "delay",
                                       !.clock = @ + d,
                                       !.errs = Min({@ + 1, Tracked}),
                                       !.reported = IF last THEN retry.attempt ELSE 0]
      BY <1>5 DEF Fail
    <2>2. retry.at = "attempt"
      BY <1>5 DEF Fail
    <2>3. PICK c, e : c = retry.clock + d /\ e = Min({retry.errs + 1, Tracked})
      OBVIOUS
    <2>4. CASE retry' = [retry EXCEPT !.at = "attempt failed", !.clock = c, !.errs = e,
                                      !.reported = retry.attempt]
      BY <1>1, <2>2, <2>4
    <2>5. CASE /\ retry' = [retry EXCEPT !.at = "delay", !.clock = c, !.errs = e, !.reported = 0]
               /\ retry.attempt # MaxAttempts(retry.plan)
      <3>1. retry.attempt < MaxAttempts(retry.plan)
        BY <1>10, <2>5
      <3>2. /\ retry'.at = "delay" /\ retry'.plan = retry.plan /\ retry'.attempt = retry.attempt
            /\ Calling(retry')
        BY <2>5
      <3> QED BY <1>1, <2>2, <3>1, <3>2
    <2>6. \/ retry' = [retry EXCEPT !.at = "attempt failed", !.clock = c, !.errs = e,
                                    !.reported = retry.attempt]
          \/ /\ retry' = [retry EXCEPT !.at = "delay", !.clock = c, !.errs = e, !.reported = 0]
             /\ retry.attempt # MaxAttempts(retry.plan)
      BY <2>1, <2>3
    <2> QED BY <2>4, <2>5, <2>6
  <1>6. CASE ChooseDelay
    BY <1>1, <1>6 DEF ChooseDelay, EndRetry
  <1>7. CASE Wake
    <2>1. PICK c : retry' = [retry EXCEPT !.at = "loop", !.attempt = retry.attempt + 1, !.clock = c]
      BY <1>7 DEF Wake
    <2>2. retry.at = "sleep" /\ (retry.attempt + 1) - 1 = retry.attempt
      BY <1>7 DEF Wake
    <2>3. retry.attempt + 1 \in Nat \ {0} /\ retry.attempt + 1 <= MaxAttempts(retry.plan)
      BY <1>1, <2>2
    <2>4. retry'.attempt = retry.attempt + 1 /\ retry'.at = "loop" /\ retry'.plan = retry.plan
          /\ retry'.delay = retry.delay
      BY <2>1
    <2> QED BY <1>1, <2>1, <2>2, <2>3, <2>4
  <1>8. CASE SleepCancelled
    BY <1>1, <1>8 DEF SleepCancelled, EndRetry
  <1>9. CASE Cancel
    BY <1>1, <1>9 DEF Cancel
  <1> QED BY <1>2, <1>3, <1>4, <1>5, <1>6, <1>7, <1>8, <1>9 DEF RetryStep

LEMMA RetryStays == RetryInv /\ [Next]_vars => RetryInv'
  <1> SUFFICES ASSUME RetryInv, [Next]_vars PROVE RetryInv'
    OBVIOUS
  <1>1. question' = question /\ (UNCHANGED retry \/ Try)
    BY DEF Next, vars, Try, Scan, Use, AnswerInstaller, AnswerCommands, AnswerVersion,
           AnswerManifest, AnswerSetting, AnswerUninstaller
  <1>2. CASE Try
    BY <1>1, <1>2, RetryGoes DEF Try, RetryInv, Asked
  <1>3. CASE UNCHANGED retry
    BY <1>1, <1>3 DEF RetryInv, Asked
  <1> QED BY <1>1, <1>2, <1>3

LEMMA AttemptsWait ==
  ASSUME RetryInv, [Next]_vars
  PROVE  [ (retry'.at = "attempt" /\ retry.at # "attempt") =>
             /\ ~ContextEnded(retry)
             /\ retry'.attempt <= MaxAttempts(retry.plan)
             /\ retry'.attempt > 1 =>
                  /\ retry.delay >= Backoff(retry'.attempt - 1, retry.plan.base)
                  /\ 2 * retry.delay < 3 * Cap ]_retry
  <1> SUFFICES ASSUME retry' # retry, retry'.at = "attempt", retry.at # "attempt"
               PROVE  /\ ~ContextEnded(retry)
                      /\ retry'.attempt <= MaxAttempts(retry.plan)
                      /\ retry'.attempt > 1 =>
                           /\ retry.delay >= Backoff(retry'.attempt - 1, retry.plan.base)
                           /\ 2 * retry.delay < 3 * Cap
    OBVIOUS
  <1>1. Asked("retry") /\ RetryStep
    BY DEF Next, vars, Try, Scan, Use, AnswerInstaller, AnswerCommands, AnswerVersion,
           AnswerManifest, AnswerSetting, AnswerUninstaller
  <1>2. RetryGood(retry)
    BY <1>1 DEF RetryInv
  <1>3. StartAttempt
    <2>1. ~Enter /\ ~ChooseDelay /\ ~Wake /\ ~SleepCancelled /\ ~Cancel /\ ~Succeed
      BY <1>2 DEF Enter, ChooseDelay, Wake, SleepCancelled, Cancel, Succeed, EndRetry, Results,
                  RetryGood, Calling
    <2>2. \A retryable \in BOOLEAN : ~Fail(retryable)
      BY <1>2 DEF Fail, RetryGood, Calling
    <2> QED BY <1>1, <2>1, <2>2 DEF RetryStep
  <1>4. ~ContextEnded(retry) /\ retry'.attempt = retry.attempt /\ retry.at = "loop"
    BY <1>2, <1>3 DEF StartAttempt, EndRetry, RetryGood, Calling
  <1>5. ASSUME retry.attempt > 1
        PROVE  /\ retry.delay >= Backoff(retry.attempt - 1, retry.plan.base)
               /\ 2 * retry.delay < 3 * Cap
    <2>1. retry.delay \in CalculateDelay(retry.attempt - 1, retry.plan.base)
          /\ retry.attempt - 1 \in Nat \ {0} /\ retry.plan.base > 0 /\ retry.plan \in Plans
      BY <1>2, <1>4, <1>5 DEF RetryGood
    <2>2. retry.plan.base \in Nat \ {0}
      BY <2>1, RetryAssumption DEF RetryAssumption
    <2> QED BY <2>1, <2>2, DelayBacksOff
  <1> QED BY <1>2, <1>4, <1>5 DEF RetryGood

(* An attempt is made only while the context lasts, as often as it may, and *)
(* again only after half the backoff, or of the cap, and less than one and  *)
(* a half caps, whatever base, cap and number of attempts.                  *)
THEOREM RetriesBackOff == Spec => RetryBacksOff
  <1>1. Init => RetryInv
    <2>1. \A plan \in Plans : Max({plan.max, 1}) >= 1 /\ Max({plan.max, 1}) \in Int
      <3> TAKE plan \in Plans
      <3>1. plan.max \in Int
        BY RetryAssumption DEF RetryAssumption
      <3> QED BY <3>1, GreatestOfTwo
    <2>2. ASSUME NEW plan \in Plans PROVE RetryGood(Fresh(plan))
      BY <2>1 DEF RetryGood, Calling, Fresh, MaxAttempts, Results
    <2> QED BY <2>2 DEF Init, RetryInv, Asked
  <1>2. Spec => []RetryInv
    <2>1. RetryInv /\ [Next]_vars => RetryInv'
      BY RetryStays
    <2> QED BY <1>1, <2>1, PTL DEF Spec
  <1>3. RetryInv /\ [Next]_vars =>
          [ (retry'.at = "attempt" /\ retry.at # "attempt") =>
             /\ ~ContextEnded(retry)
             /\ retry'.attempt <= MaxAttempts(retry.plan)
             /\ retry'.attempt > 1 =>
                  /\ retry.delay >= Backoff(retry'.attempt - 1, retry.plan.base)
                  /\ 2 * retry.delay < 3 * Cap ]_retry
    BY AttemptsWait
  <1> QED BY <1>2, <1>3, PTL DEF Spec, RetryBacksOff
--------------------------------------------------------------------------------
(* Versions.  Identifiers are in a total order, lists of identifiers in    *)
(* that of their first difference, and versions in that of their parts.    *)
Lone == [n : -1..99, w : Words \union {0}, at : {"alone"}]

\* Where an identifier stands among the texts, by its first two characters.
Leading(p) ==
    IF p.n < 0 THEN 120
    ELSE 12 * (IF p.n >= 10 THEN p.n \div 10 ELSE p.n)
           + (IF p.n >= 10 THEN 1 + (p.n % 10) ELSE IF p.w = 0 THEN 0 ELSE 11)

LEMMA WordsAreNumbers ==
  /\ \A w \in Words \union {0} : w \in Nat /\ ToLower[w] \in Words \union {0} /\ (ToLower[w] = 0 <=> w = 0)
  /\ 0 \in Words \union {0}
  BY WordAssumption

LEMMA LeadingTells ==
  ASSUME NEW a \in Lone, NEW b \in Lone
  PROVE  /\ Leading(a) \in Int /\ a.w \in Nat /\ a.n \in Int
         /\ Leading(a) = Leading(b) /\ a.w = b.w => a = b
  <1>1. /\ a.n \in -1..99 /\ b.n \in -1..99 /\ a.w \in Nat /\ b.w \in Nat
        /\ a = [n |-> a.n, w |-> a.w, at |-> "alone"] /\ b = [n |-> b.n, w |-> b.w, at |-> "alone"]
    BY WordsAreNumbers DEF Lone
  <1>2. Leading(a) \in Int
    BY <1>1 DEF Leading
  <1>3. Leading(a) = Leading(b) /\ a.w = b.w => a.n = b.n
    BY <1>1 DEF Leading
  <1> QED BY <1>1, <1>2, <1>3

LEMMA LoneCompare ==
  ASSUME NEW a \in Lone, NEW b \in Lone
  PROVE  CompareIdentifiers(a, b) =
           IF AllDigits(a) /\ AllDigits(b) THEN Sign(a.n - b.n)
           ELSE IF AllDigits(a) THEN -1 ELSE IF AllDigits(b) THEN 1
           ELSE IF Leading(a) # Leading(b) THEN Sign(Leading(a) - Leading(b)) ELSE Sign(a.w - b.w)
  <1>1. a.at = "alone" /\ b.at = "alone" /\ a.n \in -1..99 /\ b.n \in -1..99
    BY DEF Lone
  <1>2. CompareTexts(a, b) =
          IF Leading(a) # Leading(b) THEN Sign(Leading(a) - Leading(b)) ELSE Sign(a.w - b.w)
    BY <1>1 DEF CompareTexts, Leading, StartsWithDigit
  <1> QED BY <1>1, <1>2 DEF CompareIdentifiers

LEMMA IdentifiersCompare ==
  ASSUME NEW a \in Lone, NEW b \in Lone
  PROVE  /\ CompareIdentifiers(a, b) \in {-1, 0, 1}
         /\ CompareIdentifiers(a, b) < 0 <=> CompareIdentifiers(b, a) > 0
         /\ CompareIdentifiers(a, b) = 0 <=> a = b
  <1>1. /\ Leading(a) \in Int /\ Leading(b) \in Int /\ a.w \in Nat /\ b.w \in Nat /\ a.n \in Int /\ b.n \in Int
        /\ (Leading(a) = Leading(b) /\ a.w = b.w => a = b)
    BY LeadingTells
  <1>2. AllDigits(a) /\ AllDigits(b) /\ a.n = b.n => a = b
    BY DEF AllDigits, Lone
  <1> QED BY <1>1, <1>2, LoneCompare DEF Sign

LEMMA IdentifiersChain ==
  ASSUME NEW a \in Lone, NEW b \in Lone, NEW c \in Lone,
         CompareIdentifiers(a, b) < 0, CompareIdentifiers(b, c) < 0
  PROVE  CompareIdentifiers(a, c) < 0
  <1>1. /\ Leading(a) \in Int /\ Leading(b) \in Int /\ Leading(c) \in Int
        /\ a.w \in Nat /\ b.w \in Nat /\ c.w \in Nat /\ a.n \in Int /\ b.n \in Int /\ c.n \in Int
    BY LeadingTells
  <1> QED BY <1>1, LoneCompare DEF Sign

Before(s, t) ==
    \E i \in 1..Len(t) :
       /\ i <= Len(s) + 1 /\ \A j \in 1..(i - 1) : s[j] = t[j]
       /\ i <= Len(s) => CompareIdentifiers(s[i], t[i]) < 0

LEMMA BeforeChains ==
  ASSUME NEW s \in Seq(Lone), NEW t \in Seq(Lone), NEW u \in Seq(Lone), Before(s, t), Before(t, u)
  PROVE  Before(s, u)
  <1>1. PICK i \in 1..Len(t) :
           /\ i <= Len(s) + 1 /\ \A k \in 1..(i - 1) : s[k] = t[k]
           /\ i <= Len(s) => CompareIdentifiers(s[i], t[i]) < 0
    BY DEF Before
  <1>2. PICK j \in 1..Len(u) :
           /\ j <= Len(t) + 1 /\ \A k \in 1..(j - 1) : t[k] = u[k]
           /\ j <= Len(t) => CompareIdentifiers(t[j], u[j]) < 0
    BY DEF Before
  <1>3. CASE i < j
    <2>1. i \in 1..Len(u) /\ i \in 1..(j - 1) /\ \A k \in 1..(i - 1) : k \in 1..(j - 1)
      BY <1>3
    <2>2. t[i] = u[i] /\ \A k \in 1..(i - 1) : s[k] = u[k]
      BY <1>1, <1>2, <2>1
    <2> QED BY <1>1, <2>1, <2>2 DEF Before
  <1>4. CASE i = j
    <2>1. \A k \in 1..(i - 1) : s[k] = u[k]
      BY <1>1, <1>2, <1>4
    <2>2. ASSUME i <= Len(s) PROVE CompareIdentifiers(s[i], u[i]) < 0
      <3>1. CompareIdentifiers(s[i], t[i]) < 0 /\ CompareIdentifiers(t[i], u[i]) < 0
        BY <1>1, <1>2, <1>4, <2>2
      <3>2. s[i] \in Lone /\ t[i] \in Lone /\ u[i] \in Lone
        BY <1>4, <2>2
      <3> QED BY <3>1, <3>2, IdentifiersChain
    <2> QED BY <1>1, <1>4, <2>1, <2>2 DEF Before
  <1>5. CASE j < i
    <2>1. j \in 1..(i - 1) /\ j <= Len(s) /\ j <= Len(t) /\ \A k \in 1..(j - 1) : k \in 1..(i - 1)
      BY <1>1, <1>5
    <2>2. s[j] = t[j] /\ \A k \in 1..(j - 1) : s[k] = u[k]
      BY <1>1, <1>2, <2>1
    <2>3. CompareIdentifiers(s[j], u[j]) < 0 /\ j <= Len(s) + 1
      BY <1>2, <2>1, <2>2
    <2> QED BY <1>2, <2>2, <2>3 DEF Before
  <1> QED BY <1>3, <1>4, <1>5

LEMMA NothingBeforeItself ==
  ASSUME NEW s \in Seq(Lone)
  PROVE  ~Before(s, s)
  <1> SUFFICES ASSUME Before(s, s) PROVE FALSE
    OBVIOUS
  <1>1. PICK i \in 1..Len(s) : CompareIdentifiers(s[i], s[i]) < 0
    BY DEF Before
  <1>2. s[i] \in Lone
    OBVIOUS
  <1>3. CompareIdentifiers(s[i], s[i]) = 0
    BY <1>2, IdentifiersCompare
  <1> QED BY <1>1, <1>3

LEMMA ListsCompare ==
  ASSUME NEW s \in Seq(Lone), NEW t \in Seq(Lone)
  PROVE  /\ CompareLists(s, t) \in {-1, 0, 1}
         /\ CompareLists(s, t) < 0 => Before(s, t)
         /\ CompareLists(s, t) > 0 => Before(t, s)
         /\ CompareLists(s, t) = 0 => s = t
  <1>1. PICK differ : differ = {i \in DOMAIN s \intersect DOMAIN t : CompareIdentifiers(s[i], t[i]) # 0}
    OBVIOUS
  <1>2. \A i \in Nat : i \in 1..Len(s) /\ i \in 1..Len(t) /\ i \notin differ => s[i] = t[i]
    <2> SUFFICES ASSUME NEW i \in Nat, i \in 1..Len(s), i \in 1..Len(t), i \notin differ
                 PROVE  s[i] = t[i]
      OBVIOUS
    <2>1. CompareIdentifiers(s[i], t[i]) = 0 /\ s[i] \in Lone /\ t[i] \in Lone
      BY <1>1
    <2> QED BY <2>1, IdentifiersCompare
  <1>3. CASE differ = {}
    <2>1. CompareLists(s, t) = Sign(Len(s) - Len(t))
      BY <1>1, <1>3 DEF CompareLists
    <2>2. CASE Len(s) < Len(t)
      <3>1. CompareLists(s, t) = -1
        BY <2>1, <2>2 DEF Sign
      <3>2. Len(s) + 1 \in 1..Len(t) /\ \A j \in 1..((Len(s) + 1) - 1) : s[j] = t[j]
        BY <1>2, <1>3, <2>2
      <3>3. Before(s, t)
        BY <3>2 DEF Before
      <3> QED BY <3>1, <3>3
    <2>3. CASE Len(t) < Len(s)
      <3>1. CompareLists(s, t) = 1
        BY <2>1, <2>3 DEF Sign
      <3>2. Len(t) + 1 \in 1..Len(s) /\ \A j \in 1..((Len(t) + 1) - 1) : t[j] = s[j]
        BY <1>2, <1>3, <2>3
      <3>3. Before(t, s)
        BY <3>2 DEF Before
      <3> QED BY <3>1, <3>3
    <2>4. CASE Len(s) = Len(t)
      <3>1. CompareLists(s, t) = 0
        BY <2>1, <2>4 DEF Sign
      <3>2. s = t
        BY <1>2, <1>3, <2>4
      <3> QED BY <3>1, <3>2
    <2> QED BY <2>2, <2>3, <2>4
  <1>4. CASE differ # {}
    <2>1. PICK first : first = CHOOSE i \in differ : \A j \in differ : i <= j
      OBVIOUS
    <2>2. differ \in SUBSET Nat
      BY <1>1
    <2>3. first \in differ /\ \A j \in differ : first <= j
      BY <1>4, <2>1, <2>2, LeastNumber
    <2>4. CompareLists(s, t) = CompareIdentifiers(s[first], t[first])
      BY <1>1, <1>4, <2>1 DEF CompareLists
    <2>5. first \in 1..Len(s) /\ first \in 1..Len(t) /\ s[first] \in Lone /\ t[first] \in Lone
          /\ CompareIdentifiers(s[first], t[first]) # 0
      BY <1>1, <2>3
    <2>6. \A j \in 1..(first - 1) : s[j] = t[j] /\ t[j] = s[j]
      <3>1. \A j \in 1..(first - 1) : j \in Nat /\ j \in 1..Len(s) /\ j \in 1..Len(t) /\ ~(first <= j)
        BY <2>5
      <3> QED BY <1>2, <2>3, <3>1
    <2>7. CASE CompareIdentifiers(s[first], t[first]) < 0
      <3>1. Before(s, t)
        BY <2>5, <2>6, <2>7 DEF Before
      <3> QED BY <2>4, <2>5, <2>7, <3>1, IdentifiersCompare
    <2>8. CASE CompareIdentifiers(s[first], t[first]) > 0
      <3>1. CompareIdentifiers(t[first], s[first]) < 0
        BY <2>5, <2>8, IdentifiersCompare
      <3>2. Before(t, s)
        BY <2>5, <2>6, <3>1 DEF Before
      <3> QED BY <2>4, <2>5, <2>8, <3>2, IdentifiersCompare
    <2>9. CompareIdentifiers(s[first], t[first]) \in {-1, 0, 1}
      BY <2>5, IdentifiersCompare
    <2> QED BY <2>5, <2>7, <2>8, <2>9
  <1> QED BY <1>3, <1>4

LEMMA ListOrder ==
  ASSUME NEW s \in Seq(Lone), NEW t \in Seq(Lone)
  PROVE  /\ CompareLists(s, t) \in {-1, 0, 1}
         /\ CompareLists(s, t) < 0 <=> Before(s, t)
         /\ CompareLists(s, t) > 0 <=> Before(t, s)
         /\ CompareLists(s, t) = 0 <=> s = t
  <1>1. ~(Before(s, t) /\ Before(t, s))
    BY BeforeChains, NothingBeforeItself
  <1>2. s = t => ~Before(s, t) /\ ~Before(t, s)
    BY NothingBeforeItself
  <1> QED BY <1>1, <1>2, ListsCompare

\* What a list of tokens is taken apart into.
Parted == [core : Seq(Lone), extra : Seq(Lone)]
NoParts == [core |-> <<>>, extra |-> <<>>]

LEMMA LoneOnes ==
  ASSUME NEW token \in Tokens
  PROVE  /\ Alone(token) \in Lone /\ Digits(token.n) \in Lone /\ Word(token.w) \in Lone
         /\ Alone(token).w = token.w /\ Word(token.w).w = token.w
         /\ AllDigits(token) => Alone(token) = Digits(token.n)
         /\ AllDigits(Alone(token)) <=> AllDigits(token)
         /\ AllDigits(token) => StartsWithDigit(token)
  BY WordsAreNumbers DEF Tokens, Lone, Alone, Digits, Word, AllDigits, StartsWithDigit

LEMMA NoughtIsLone == Digits(0) \in Lone
  BY WordsAreNumbers DEF Digits, Lone

LEMMA TokenIsTaken ==
  ASSUME NEW p \in Parted, NEW token \in Tokens
  PROVE  /\ TakeToken(p, token) \in Parted
         /\ \/ TakeToken(p, token).extra = p.extra
            \/ \E x \in Lone : x.w = token.w /\ TakeToken(p, token).extra = Append(p.extra, x)
  <1>1. Alone(token) \in Lone /\ Digits(token.n) \in Lone /\ Word(token.w) \in Lone
        /\ Alone(token).w = token.w /\ Word(token.w).w = token.w
    BY LoneOnes
  <1>2. p.core \in Seq(Lone) /\ p.extra \in Seq(Lone)
    BY DEF Parted
  <1>3. /\ Append(p.extra, Alone(token)) \in Seq(Lone) /\ Append(p.core, Digits(token.n)) \in Seq(Lone)
        /\ Append(p.extra, Word(token.w)) \in Seq(Lone)
    BY <1>1, <1>2
  <1>4. CASE Len(p.core) = 3 \/ ~StartsWithDigit(token)
    <2>1. TakeToken(p, token) = [p EXCEPT !.extra = Append(p.extra, Alone(token))]
      BY <1>4 DEF TakeToken
    <2>2. TakeToken(p, token) \in Parted /\ TakeToken(p, token).extra = Append(p.extra, Alone(token))
      BY <1>3, <2>1 DEF Parted
    <2> QED BY <1>1, <2>2
  <1>5. CASE ~(Len(p.core) = 3 \/ ~StartsWithDigit(token))
    <2>1. PICK extra : extra = IF AllDigits(token) THEN p.extra ELSE Append(p.extra, Word(token.w))
      OBVIOUS
    <2>2. TakeToken(p, token) = [core |-> Append(p.core, Digits(token.n)), extra |-> extra]
      BY <1>5, <2>1 DEF TakeToken
    <2>3. extra \in Seq(Lone)
      BY <1>2, <1>3, <2>1
    <2>4. TakeToken(p, token) \in Parted /\ TakeToken(p, token).extra = extra
      BY <1>3, <2>2, <2>3 DEF Parted
    <2> QED BY <1>1, <2>1, <2>4
  <1> QED BY <1>4, <1>5

LEMMA TokensAreTaken ==
  ASSUME NEW tokens \in Seq(Tokens)
  PROVE  /\ TakenParts(tokens)[0] = NoParts
         /\ \A n \in 1..Len(tokens) :
               TakenParts(tokens)[n] = TakeToken(TakenParts(tokens)[n - 1], tokens[n])
         /\ \A n \in 0..Len(tokens) : TakenParts(tokens)[n] \in Parted
  <1> DEFINE Body(f) == [n \in Nat |-> IF n \notin DOMAIN tokens THEN [core |-> <<>>, extra |-> <<>>]
                                       ELSE TakeToken(f[n - 1], tokens[n])]
             Step(n, p) == IF n + 1 \in DOMAIN tokens THEN TakeToken(p, tokens[n + 1]) ELSE NoParts
             step == [n \in Nat |-> [p \in Parted |-> Step(n, p)]]
  <1>1. NoParts \in Parted
    BY DEF NoParts, Parted
  <1>2. \A n \in Nat, p \in Parted : Step(n, p) \in Parted
    <2> TAKE n \in Nat, p \in Parted
    <2>1. CASE n + 1 \in DOMAIN tokens
      <3>1. tokens[n + 1] \in Tokens
        BY <2>1
      <3> QED BY <2>1, <3>1, TokenIsTaken
    <2>2. CASE n + 1 \notin DOMAIN tokens
      BY <1>1, <2>2
    <2> QED BY <2>1, <2>2
  <1> HIDE DEF Step
  <1>3. step \in [Nat -> [Parted -> Parted]]
    BY <1>2
  <1>4. \A n \in Nat, p \in Parted : step[n][p] = Step(n, p)
    OBVIOUS
  <1> HIDE DEF step
  <1>5. PICK f \in [Nat -> Parted] : f[0] = NoParts /\ \A n \in Nat : f[n + 1] = step[n][f[n]]
    <2>1. Chains(Parted, NoParts, step)
      BY <1>1, <1>3, StepsCompose
    <2> QED BY <2>1 DEF Chains
  <1>6. \A n \in Nat : f[n + 1] = Step(n, f[n])
    BY <1>4, <1>5
  <1> USE DEF Step
  <1>7. f = Body(f)
    <2>1. ASSUME NEW n \in Nat PROVE f[n] = Body(f)[n]
      <3>1. CASE n = 0
        BY <1>5, <3>1 DEF NoParts
      <3>2. CASE n # 0
        <4>1. n - 1 \in Nat /\ (n - 1) + 1 = n
          BY <3>2
        <4>2. f[n] = Step(n - 1, f[n - 1])
          BY <1>6, <4>1
        <4> QED BY <4>1, <4>2 DEF NoParts
      <3> QED BY <3>1, <3>2
    <2>2. f = [n \in Nat |-> f[n]]
      OBVIOUS
    <2> QED BY <2>1, <2>2
  <1>8. TakenParts(tokens) = Body(TakenParts(tokens))
    BY <1>7, Zenon DEF TakenParts
  <1> DEFINE g == TakenParts(tokens)
  <1> HIDE DEF g
  <1>9. g = Body(g)
    BY <1>8 DEF g
  <1>10. g[0] = NoParts /\ \A n \in 1..Len(tokens) : g[n] = TakeToken(g[n - 1], tokens[n])
    BY <1>9 DEF NoParts
  <1> DEFINE S == {n \in Nat : n <= Len(tokens) => g[n] \in Parted}
  <1>11. 0 \in S
    BY <1>1, <1>10
  <1>12. ASSUME NEW n \in Nat, n \in S PROVE n + 1 \in S
    <2> SUFFICES ASSUME n + 1 <= Len(tokens) PROVE g[n + 1] \in Parted
      OBVIOUS
    <2>1. n + 1 \in 1..Len(tokens) /\ (n + 1) - 1 = n /\ tokens[n + 1] \in Tokens /\ g[n] \in Parted
      BY <1>12
    <2>2. g[n + 1] = TakeToken(g[(n + 1) - 1], tokens[n + 1])
      BY <1>10, <2>1
    <2> QED BY <2>1, <2>2, TokenIsTaken
  <1> HIDE DEF S
  <1>13. Nat \subseteq S
    BY <1>11, <1>12, AllNumbers
  <1>14. \A n \in 0..Len(tokens) : g[n] \in Parted
    BY <1>13 DEF S
  <1> QED BY <1>10, <1>14 DEF g

LEMMA PartsTyped ==
  ASSUME NEW tokens \in Seq(Tokens)
  PROVE  /\ PartsOf(tokens) \in Parted
         /\ PartsOf(tokens).extra = TakenParts(tokens)[Len(tokens)].extra
         /\ PartsOf(tokens).core =
               [i \in 1..3 |-> IF i \in DOMAIN TakenParts(tokens)[Len(tokens)].core
                               THEN TakenParts(tokens)[Len(tokens)].core[i] ELSE Digits(0)]
  <1>1. PICK p : p = TakenParts(tokens)[Len(tokens)]
    OBVIOUS
  <1>2. p \in Parted
    <2>1. Len(tokens) \in 0..Len(tokens)
      OBVIOUS
    <2> QED BY <1>1, <2>1, TokensAreTaken
  <1>3. PICK core : core = [i \in 1..3 |-> IF i \in DOMAIN p.core THEN p.core[i] ELSE Digits(0)]
    OBVIOUS
  <1>4. core \in [1..3 -> Lone]
    <2>1. \A i \in DOMAIN p.core : p.core[i] \in Lone
      BY <1>2 DEF Parted
    <2> QED BY <1>3, <2>1, NoughtIsLone
  <1>5. core \in Seq(Lone)
    <2>1. PICK m \in Nat : m = 3
      OBVIOUS
    <2>2. core \in [1..m -> Lone]
      BY <1>4, <2>1
    <2> QED BY <2>2
  <1>6. PartsOf(tokens) = [p EXCEPT !.core = core]
    BY <1>1, <1>3 DEF PartsOf
  <1>7. p = [core |-> p.core, extra |-> p.extra] /\ p.extra \in Seq(Lone)
    BY <1>2 DEF Parted
  <1>8. PartsOf(tokens) = [core |-> core, extra |-> p.extra]
    BY <1>6, <1>7
  <1> QED BY <1>1, <1>3, <1>5, <1>7, <1>8 DEF Parted

\* No word of the parts is not one of the tokens'.
LEMMA WordsAreTaken ==
  ASSUME NEW tokens \in Seq(Tokens)
  PROVE  \A k \in DOMAIN PartsOf(tokens).extra :
            \E i \in DOMAIN tokens : PartsOf(tokens).extra[k].w = tokens[i].w
  <1> DEFINE g == TakenParts(tokens)
             Taken(extra) == \A k \in DOMAIN extra : \E i \in DOMAIN tokens : extra[k].w = tokens[i].w
             S == {n \in Nat : n <= Len(tokens) => Taken(g[n].extra)}
  <1>1. /\ g[0] = NoParts /\ \A n \in 1..Len(tokens) : g[n] = TakeToken(g[n - 1], tokens[n])
        /\ \A n \in 0..Len(tokens) : g[n] \in Parted
    BY TokensAreTaken
  <1> HIDE DEF g
  <1>2. 0 \in S
    BY <1>1 DEF NoParts
  <1>3. ASSUME NEW n \in Nat, n \in S PROVE n + 1 \in S
    <2> SUFFICES ASSUME n + 1 <= Len(tokens) PROVE Taken(g[n + 1].extra)
      OBVIOUS
    <2>1. n + 1 \in DOMAIN tokens /\ (n + 1) - 1 = n /\ tokens[n + 1] \in Tokens /\ n \in 0..Len(tokens)
          /\ n + 1 \in 1..Len(tokens)
      OBVIOUS
    <2>2. PICK old : old = g[n]
      OBVIOUS
    <2>3. old \in Parted /\ g[n + 1] = TakeToken(old, tokens[n + 1]) /\ Taken(old.extra)
      BY <1>1, <1>3, <2>1, <2>2
    <2>4. \/ g[n + 1].extra = old.extra
          \/ \E x \in Lone : x.w = tokens[n + 1].w /\ g[n + 1].extra = Append(old.extra, x)
      BY <2>1, <2>3, TokenIsTaken
    <2>5. ASSUME NEW x \in Lone, x.w = tokens[n + 1].w, g[n + 1].extra = Append(old.extra, x)
          PROVE  Taken(g[n + 1].extra)
      <3>1. old.extra \in Seq(Lone)
        BY <2>3 DEF Parted
      <3> SUFFICES ASSUME NEW k \in DOMAIN Append(old.extra, x)
                   PROVE  \E i \in DOMAIN tokens : Append(old.extra, x)[k].w = tokens[i].w
        BY <2>5
      <3>2. CASE k \in DOMAIN old.extra
        BY <2>3, <3>1, <3>2
      <3>3. CASE k \notin DOMAIN old.extra
        <4>1. Append(old.extra, x)[k] = x
          BY <3>1, <3>3
        <4> QED BY <2>1, <2>5, <4>1
      <3> QED BY <3>2, <3>3
    <2> QED BY <2>3, <2>4, <2>5
  <1> HIDE DEF S
  <1>4. Nat \subseteq S
    BY <1>2, <1>3, AllNumbers
  <1>5. Taken(g[Len(tokens)].extra)
    <2>1. Len(tokens) \in Nat
      OBVIOUS
    <2> QED BY <1>4, <2>1 DEF S
  <1> QED BY <1>5, PartsTyped DEF g

\* A piece, and a list of pieces, in lower case.
SmallPiece(x) == [x EXCEPT !.w = ToLower[@]]
Small(extra) == [i \in DOMAIN extra |-> SmallPiece(extra[i])]

LEMMA LowerCasePiece ==
  ASSUME NEW x \in Lone
  PROVE  /\ SmallPiece(x) \in Lone
         /\ SmallPiece(x) = [n |-> x.n, w |-> ToLower[x.w], at |-> "alone"]
         /\ AllDigits(SmallPiece(x)) <=> AllDigits(x)
  <1>1. x = [n |-> x.n, w |-> x.w, at |-> "alone"] /\ x.n \in -1..99 /\ x.w \in Words \union {0}
    BY DEF Lone
  <1>2. SmallPiece(x) = [n |-> x.n, w |-> ToLower[x.w], at |-> "alone"]
    BY <1>1 DEF SmallPiece
  <1>3. ToLower[x.w] \in Words \union {0} /\ (ToLower[x.w] = 0 <=> x.w = 0)
    BY <1>1, WordsAreNumbers
  <1> QED BY <1>1, <1>2, <1>3 DEF Lone, AllDigits

LEMMA LoweredTyped ==
  ASSUME NEW extra \in Seq(Lone)
  PROVE  Small(extra) \in Seq(Lone) /\ (HasText(Small(extra)) <=> HasText(extra))
         /\ Len(Small(extra)) = Len(extra)
  <1>1. Len(extra) \in Nat /\ DOMAIN extra = 1..Len(extra) /\ \A i \in 1..Len(extra) : extra[i] \in Lone
    OBVIOUS
  <1>2. \A i \in 1..Len(extra) : Small(extra)[i] \in Lone /\ (AllDigits(Small(extra)[i]) <=> AllDigits(extra[i]))
    BY <1>1, LowerCasePiece DEF Small
  <1>3. DOMAIN Small(extra) = 1..Len(extra) /\ Small(extra) = [i \in 1..Len(extra) |-> Small(extra)[i]]
    BY <1>1 DEF Small
  <1>4. Small(extra) \in [1..Len(extra) -> Lone]
    BY <1>2, <1>3
  <1>5. Small(extra) \in Seq(Lone) /\ Len(Small(extra)) = Len(extra)
    BY <1>1, <1>4
  <1> QED BY <1>1, <1>2, <1>3, <1>5 DEF HasText

LEMMA LowerPartsTyped ==
  ASSUME NEW tokens \in Seq(Tokens)
  PROVE  /\ LowerParts(tokens) \in Parted
         /\ LowerParts(tokens).core = PartsOf(tokens).core
         /\ LowerParts(tokens).extra = Small(PartsOf(tokens).extra)
  <1>1. LowerParts(tokens) = [core |-> PartsOf(tokens).core, extra |-> Small(PartsOf(tokens).extra)]
    BY DEF LowerParts, Small, SmallPiece
  <1>2. PartsOf(tokens).core \in Seq(Lone) /\ PartsOf(tokens).extra \in Seq(Lone)
    BY PartsTyped DEF Parted
  <1> QED BY <1>1, <1>2, LoweredTyped DEF Parted

\* Words that are in one order as they stand and in lower case are compared alike.
LEMMA LoweredAlike ==
  ASSUME NEW s \in Seq(Lone), NEW t \in Seq(Lone),
         \A i \in DOMAIN s, j \in DOMAIN t : Sign(ToLower[s[i].w] - ToLower[t[j].w]) = Sign(s[i].w - t[j].w)
  PROVE  CompareLists(Small(s), Small(t)) = CompareLists(s, t)
  <1>1. PICK u, v : u = Small(s) /\ v = Small(t)
    OBVIOUS
  <1>2. DOMAIN u = DOMAIN s /\ DOMAIN v = DOMAIN t /\ Len(u) = Len(s) /\ Len(v) = Len(t)
    BY <1>1, LoweredTyped DEF Small
  <1>3. ASSUME NEW i \in DOMAIN s \intersect DOMAIN t
        PROVE  CompareIdentifiers(u[i], v[i]) = CompareIdentifiers(s[i], t[i])
    <2>1. PICK a \in Lone, b \in Lone : a = s[i] /\ b = t[i]
      OBVIOUS
    <2>2. PICK c \in Lone, d \in Lone :
            /\ c = u[i] /\ d = v[i] /\ (AllDigits(c) <=> AllDigits(a)) /\ (AllDigits(d) <=> AllDigits(b))
            /\ c.n = a.n /\ d.n = b.n /\ c.w = ToLower[a.w] /\ d.w = ToLower[b.w]
      <3>1. u[i] = SmallPiece(a) /\ v[i] = SmallPiece(b)
        BY <1>1, <2>1 DEF Small
      <3>2. /\ u[i] \in Lone /\ u[i] = [n |-> a.n, w |-> ToLower[a.w], at |-> "alone"]
            /\ AllDigits(u[i]) <=> AllDigits(a)
        BY <3>1, LowerCasePiece, Zenon
      <3>3. /\ v[i] \in Lone /\ v[i] = [n |-> b.n, w |-> ToLower[b.w], at |-> "alone"]
            /\ AllDigits(v[i]) <=> AllDigits(b)
        BY <3>1, LowerCasePiece, Zenon
      <3>4. u[i].n = a.n /\ v[i].n = b.n /\ u[i].w = ToLower[a.w] /\ v[i].w = ToLower[b.w]
        BY <3>2, <3>3
      <3> QED BY <3>2, <3>3, <3>4, Zenon
    <2>3. Sign(c.w - d.w) = Sign(a.w - b.w)
      <3>1. i \in DOMAIN s /\ i \in DOMAIN t
        OBVIOUS
      <3>2. Sign(ToLower[s[i].w] - ToLower[t[i].w]) = Sign(s[i].w - t[i].w)
        BY <3>1, Zenon
      <3> QED BY <2>1, <2>2, <3>2, Zenon
    <2>4. Leading(c) = Leading(a) /\ Leading(d) = Leading(b)
      <3>1. a.w \in Words \union {0} /\ b.w \in Words \union {0}
        BY DEF Lone
      <3>2. (c.w = 0 <=> a.w = 0) /\ (d.w = 0 <=> b.w = 0)
        BY <2>2, <3>1, WordsAreNumbers
      <3> QED BY <2>2, <3>2 DEF Leading
    <2>5. CompareIdentifiers(c, d) = CompareIdentifiers(a, b)
      BY <2>2, <2>3, <2>4, LoneCompare
    <2> QED BY <2>1, <2>2, <2>5
  <1>4. PICK differ : differ = {i \in DOMAIN s \intersect DOMAIN t : CompareIdentifiers(s[i], t[i]) # 0}
    OBVIOUS
  <1>5. differ = {i \in DOMAIN u \intersect DOMAIN v : CompareIdentifiers(u[i], v[i]) # 0}
    BY <1>2, <1>3, <1>4
  <1>6. PICK first : first = CHOOSE i \in differ : \A j \in differ : i <= j
    OBVIOUS
  <1>7. CASE differ = {}
    <2>1. CompareLists(s, t) = Sign(Len(s) - Len(t))
      BY <1>4, <1>7 DEF CompareLists
    <2>2. CompareLists(u, v) = Sign(Len(u) - Len(v))
      BY <1>5, <1>7 DEF CompareLists
    <2> QED BY <1>1, <1>2, <2>1, <2>2
  <1>8. CASE differ # {}
    <2>1. differ \in SUBSET Nat
      BY <1>4
    <2>2. first \in differ
      BY <1>6, <1>8, <2>1, LeastNumber
    <2>3. CompareIdentifiers(u[first], v[first]) = CompareIdentifiers(s[first], t[first])
      BY <1>3, <1>4, <2>2
    <2>4. CompareLists(s, t) = CompareIdentifiers(s[first], t[first])
      BY <1>4, <1>6, <1>8 DEF CompareLists
    <2>5. CompareLists(u, v) = CompareIdentifiers(u[first], v[first])
      BY <1>5, <1>6, <1>8 DEF CompareLists
    <2> QED BY <1>1, <2>3, <2>4, <2>5
  <1> QED BY <1>7, <1>8

ExtraRank(extra) == IF extra = <<>> THEN 1 ELSE IF HasText(extra) THEN 0 ELSE 2

Older(p, q) ==
    \/ Before(p.core, q.core)
    \/ p.core = q.core /\ ExtraRank(p.extra) < ExtraRank(q.extra)
    \/ p.core = q.core /\ ExtraRank(p.extra) = ExtraRank(q.extra) /\ Before(p.extra, q.extra)

LEMMA OlderChains ==
  ASSUME NEW p \in Parted, NEW q \in Parted, NEW r \in Parted, Older(p, q), Older(q, r)
  PROVE  Older(p, r)
  <1>1. /\ p.core \in Seq(Lone) /\ q.core \in Seq(Lone) /\ r.core \in Seq(Lone)
        /\ p.extra \in Seq(Lone) /\ q.extra \in Seq(Lone) /\ r.extra \in Seq(Lone)
    BY DEF Parted
  <1>2. /\ ExtraRank(p.extra) \in Int /\ ExtraRank(q.extra) \in Int /\ ExtraRank(r.extra) \in Int
    BY DEF ExtraRank
  <1>3. CASE Before(p.core, q.core) \/ Before(q.core, r.core)
    <2>1. Before(p.core, r.core)
      BY <1>1, <1>3, BeforeChains DEF Older
    <2> QED BY <2>1 DEF Older
  <1>4. CASE ~(Before(p.core, q.core) \/ Before(q.core, r.core))
    <2>1. p.core = r.core /\ ExtraRank(p.extra) <= ExtraRank(q.extra) /\ ExtraRank(q.extra) <= ExtraRank(r.extra)
      BY <1>2, <1>4 DEF Older
    <2>2. CASE ExtraRank(p.extra) < ExtraRank(r.extra)
      BY <2>1, <2>2 DEF Older
    <2>3. CASE ~(ExtraRank(p.extra) < ExtraRank(r.extra))
      <3>1. ExtraRank(p.extra) = ExtraRank(q.extra) /\ ExtraRank(q.extra) = ExtraRank(r.extra)
        BY <1>2, <2>1, <2>3
      <3>2. Before(p.extra, q.extra) /\ Before(q.extra, r.extra)
        BY <1>2, <1>4, <3>1 DEF Older
      <3>3. Before(p.extra, r.extra)
        BY <1>1, <3>2, BeforeChains
      <3> QED BY <2>1, <3>1, <3>3 DEF Older
    <2> QED BY <2>2, <2>3
  <1> QED BY <1>3, <1>4

LEMMA VersionOrder ==
  ASSUME NEW v, NEW w, NEW p, NEW q, v.tokens \in Seq(Tokens), w.tokens \in Seq(Tokens),
         p = LowerParts(v.tokens), q = LowerParts(w.tokens)
  PROVE  /\ CompareWingetVersions(v, w) \in {-1, 0, 1}
         /\ CompareWingetVersions(v, w) < 0 <=> Older(p, q)
         /\ CompareWingetVersions(v, w) > 0 <=> Older(q, p)
         /\ CompareWingetVersions(v, w) = 0 <=> p = q
  <1>1. p \in Parted /\ q \in Parted
    BY LowerPartsTyped
  <1>2. /\ p.core \in Seq(Lone) /\ q.core \in Seq(Lone)
        /\ p.extra \in Seq(Lone) /\ q.extra \in Seq(Lone)
        /\ p = [core |-> p.core, extra |-> p.extra] /\ q = [core |-> q.core, extra |-> q.extra]
    BY <1>1 DEF Parted
  <1>3. ExtraRank(p.extra) \in Int /\ ExtraRank(q.extra) \in Int
    BY DEF ExtraRank
  <1>4. PICK core : core = CompareLists(p.core, q.core)
    OBVIOUS
  <1>5. PICK extra : extra = CompareLists(p.extra, q.extra)
    OBVIOUS
  <1>6. /\ core \in {-1, 0, 1}
        /\ core < 0 <=> Before(p.core, q.core)
        /\ core > 0 <=> Before(q.core, p.core)
        /\ core = 0 <=> p.core = q.core
    BY <1>2, <1>4, ListOrder
  <1>7. /\ extra \in {-1, 0, 1}
        /\ extra < 0 <=> Before(p.extra, q.extra)
        /\ extra > 0 <=> Before(q.extra, p.extra)
        /\ extra = 0 <=> p.extra = q.extra
    BY <1>2, <1>5, ListOrder
  <1>8. CompareWingetVersions(v, w) =
           IF core # 0 THEN core
           ELSE IF ExtraRank(p.extra) # ExtraRank(q.extra) THEN Sign(ExtraRank(p.extra) - ExtraRank(q.extra))
           ELSE extra
    BY <1>4, <1>5 DEF CompareWingetVersions, ExtraRank
  <1>9. p = q <=> p.core = q.core /\ p.extra = q.extra
    BY <1>2
  <1>10. CASE core # 0
    <2>1. CompareWingetVersions(v, w) = core
      BY <1>8, <1>10
    <2> QED BY <2>1, <1>6, <1>9, <1>10 DEF Older
  <1>11. CASE core = 0 /\ ExtraRank(p.extra) # ExtraRank(q.extra)
    <2>1. CompareWingetVersions(v, w) = Sign(ExtraRank(p.extra) - ExtraRank(q.extra))
      BY <1>8, <1>11
    <2>2. p.extra # q.extra
      BY <1>11
    <2>3. p.core = q.core /\ ~Before(p.core, q.core) /\ ~Before(q.core, p.core)
      BY <1>6, <1>11
    <2>4. CASE ExtraRank(p.extra) < ExtraRank(q.extra)
      BY <1>3, <2>1, <2>2, <2>3, <2>4, <1>9 DEF Older, Sign
    <2>5. CASE ExtraRank(q.extra) < ExtraRank(p.extra)
      BY <1>3, <2>1, <2>2, <2>3, <2>5, <1>9 DEF Older, Sign
    <2> QED BY <1>3, <1>11, <2>4, <2>5
  <1>12. CASE core = 0 /\ ExtraRank(p.extra) = ExtraRank(q.extra)
    <2>1. CompareWingetVersions(v, w) = extra
      BY <1>8, <1>12
    <2> QED BY <2>1, <1>3, <1>6, <1>7, <1>9, <1>12 DEF Older
  <1> QED BY <1>10, <1>11, <1>12

\* Of two rows of the index, one is not the newer.
NotNewer(row, best) ==
    LET order == CompareWingetVersions(row.version, best.version)
    IN order < 0 \/ (order = 0 /\ row.rowid <= best.rowid)

IndexRow(row) == row.version.tokens \in Seq(Tokens) /\ row.rowid \in Int

LEMMA NotNewerChains ==
  ASSUME NEW a, NEW b, NEW c, IndexRow(a), IndexRow(b), IndexRow(c), NotNewer(a, b), NotNewer(b, c)
  PROVE  NotNewer(a, c)
  <1>1. PICK p, q, r : /\ p = LowerParts(a.version.tokens) /\ q = LowerParts(b.version.tokens)
                       /\ r = LowerParts(c.version.tokens)
    OBVIOUS
  <1>2. PICK ab : ab = CompareWingetVersions(a.version, b.version)
    OBVIOUS
  <1>3. PICK bc : bc = CompareWingetVersions(b.version, c.version)
    OBVIOUS
  <1>4. PICK ac : ac = CompareWingetVersions(a.version, c.version)
    OBVIOUS
  <1>5. p \in Parted /\ q \in Parted /\ r \in Parted
    BY <1>1, LowerPartsTyped DEF IndexRow
  <1>6. (ab < 0 <=> Older(p, q)) /\ (ab = 0 <=> p = q)
    BY <1>1, <1>2, VersionOrder DEF IndexRow
  <1>7. (bc < 0 <=> Older(q, r)) /\ (bc = 0 <=> q = r)
    BY <1>1, <1>3, VersionOrder DEF IndexRow
  <1>8. (ac < 0 <=> Older(p, r)) /\ (ac = 0 <=> p = r)
    BY <1>1, <1>4, VersionOrder DEF IndexRow
  <1>9. ab < 0 \/ (ab = 0 /\ a.rowid <= b.rowid)
    BY <1>2 DEF NotNewer
  <1>10. bc < 0 \/ (bc = 0 /\ b.rowid <= c.rowid)
    BY <1>3 DEF NotNewer
  <1>11. ac < 0 \/ (ac = 0 /\ a.rowid <= c.rowid)
    <2>1. CASE ab < 0 /\ bc < 0
      BY <1>5, <1>6, <1>7, <1>8, <2>1, OlderChains
    <2>2. CASE ab < 0 /\ bc = 0
      BY <1>6, <1>7, <1>8, <2>2
    <2>3. CASE ab = 0 /\ bc < 0
      BY <1>6, <1>7, <1>8, <2>3
    <2>4. CASE ab = 0 /\ bc = 0 /\ a.rowid <= b.rowid /\ b.rowid <= c.rowid
      BY <1>6, <1>7, <1>8, <2>4 DEF IndexRow
    <2> QED BY <1>9, <1>10, <2>1, <2>2, <2>3, <2>4
  <1> QED BY <1>4, <1>11 DEF NotNewer

LEMMA BetterOfTwo ==
  ASSUME NEW best, NEW row, IndexRow(best), IndexRow(row)
  PROVE  /\ BetterRow(best, row) \in {best, row}
         /\ NotNewer(best, BetterRow(best, row)) /\ NotNewer(row, BetterRow(best, row))
  <1>1. PICK p, q : p = LowerParts(best.version.tokens) /\ q = LowerParts(row.version.tokens)
    OBVIOUS
  <1>2. PICK o : o = CompareWingetVersions(row.version, best.version)
    OBVIOUS
  <1>3. PICK back : back = CompareWingetVersions(best.version, row.version)
    OBVIOUS
  <1>4. /\ o \in {-1, 0, 1} /\ (o < 0 <=> Older(q, p)) /\ (o > 0 <=> Older(p, q)) /\ (o = 0 <=> p = q)
    BY <1>1, <1>2, VersionOrder DEF IndexRow
  <1>5. (back < 0 <=> Older(p, q)) /\ (back = 0 <=> p = q)
    BY <1>1, <1>3, VersionOrder DEF IndexRow
  <1>6. CompareWingetVersions(row.version, row.version) = 0
    BY <1>1, VersionOrder DEF IndexRow
  <1>7. CompareWingetVersions(best.version, best.version) = 0
    BY <1>1, VersionOrder DEF IndexRow
  <1>8. NotNewer(row, row) /\ NotNewer(best, best)
    BY <1>6, <1>7 DEF NotNewer, IndexRow
  <1>9. CASE o > 0 \/ (o = 0 /\ row.rowid > best.rowid)
    <2>1. BetterRow(best, row) = row
      BY <1>2, <1>9 DEF BetterRow
    <2>2. back < 0 \/ (back = 0 /\ best.rowid <= row.rowid)
      BY <1>4, <1>5, <1>9 DEF IndexRow
    <2>3. NotNewer(best, row)
      BY <1>3, <2>2 DEF NotNewer
    <2> QED BY <1>8, <2>1, <2>3
  <1>10. CASE ~(o > 0 \/ (o = 0 /\ row.rowid > best.rowid))
    <2>1. BetterRow(best, row) = best
      BY <1>2, <1>10 DEF BetterRow
    <2>2. o < 0 \/ (o = 0 /\ row.rowid <= best.rowid)
      BY <1>4, <1>10 DEF IndexRow
    <2>3. NotNewer(row, best)
      BY <1>2, <2>2 DEF NotNewer
    <2> QED BY <1>8, <2>1, <2>3
  <1> QED BY <1>9, <1>10

\* The rows of one id as winget's index lists them.
IndexRows(listed) == listed \in Seq({listed[n] : n \in DOMAIN listed}) /\ listed # <<>>
                     /\ \A n \in DOMAIN listed : IndexRow(listed[n])

LEMMA RowsAreRead ==
  ASSUME NEW listed, IndexRows(listed)
  PROVE  /\ BestRows(listed)[1] = listed[1]
         /\ \A n \in 2..Len(listed) : BestRows(listed)[n] = BetterRow(BestRows(listed)[n - 1], listed[n])
  <1> DEFINE D == {listed[k] : k \in DOMAIN listed}
             Body(f) == [n \in Nat |-> IF n \notin DOMAIN listed \ {1} THEN listed[1]
                                       ELSE BetterRow(f[n - 1], listed[n])]
             Step(n, b) == IF n + 1 \in DOMAIN listed \ {1} THEN BetterRow(b, listed[n + 1]) ELSE listed[1]
             step == [n \in Nat |-> [b \in D |-> Step(n, b)]]
  <1>1. DOMAIN listed = 1..Len(listed) /\ 1 \in DOMAIN listed /\ listed[1] \in D
    BY DEF IndexRows
  <1>2. ASSUME NEW n \in Nat, NEW b \in D PROVE Step(n, b) \in D
    <2>1. CASE n + 1 \in DOMAIN listed \ {1}
      <3>1. listed[n + 1] \in D /\ IndexRow(b) /\ IndexRow(listed[n + 1])
        BY <2>1 DEF IndexRows
      <3> HIDE DEF D
      <3> QED BY <2>1, <3>1, BetterOfTwo
    <2>2. CASE ~(n + 1 \in DOMAIN listed \ {1})
      BY <1>1, <2>2
    <2> QED BY <2>1, <2>2
  <1> HIDE DEF Step, D
  <1>3. step \in [Nat -> [D -> D]]
    BY <1>2
  <1>4. \A n \in Nat, b \in D : step[n][b] = Step(n, b)
    OBVIOUS
  <1> HIDE DEF step
  <1>5. PICK f \in [Nat -> D] : f[0] = listed[1] /\ \A n \in Nat : f[n + 1] = step[n][f[n]]
    <2>1. Chains(D, listed[1], step)
      BY <1>1, <1>3, StepsCompose
    <2> QED BY <2>1 DEF Chains
  <1>6. \A n \in Nat : f[n + 1] = Step(n, f[n])
    BY <1>4, <1>5
  <1> USE DEF Step
  <1>7. f = Body(f)
    <2>1. ASSUME NEW n \in Nat PROVE f[n] = Body(f)[n]
      <3>1. CASE n = 0
        BY <1>1, <1>5, <3>1
      <3>2. CASE n # 0
        <4>1. n - 1 \in Nat /\ (n - 1) + 1 = n
          BY <3>2
        <4>2. f[n] = Step(n - 1, f[n - 1])
          BY <1>6, <4>1
        <4> QED BY <4>1, <4>2
      <3> QED BY <3>1, <3>2
    <2>2. f = [n \in Nat |-> f[n]]
      OBVIOUS
    <2> QED BY <2>1, <2>2
  <1>8. BestRows(listed) = Body(BestRows(listed))
    BY <1>7, Zenon DEF BestRows
  <1> DEFINE g == BestRows(listed)
  <1> HIDE DEF g
  <1>9. g = Body(g)
    BY <1>8 DEF g
  <1>10. g[1] = listed[1]
    BY <1>9
  <1>11. \A n \in 2..Len(listed) : g[n] = BetterRow(g[n - 1], listed[n])
    BY <1>1, <1>9
  <1> QED BY <1>10, <1>11 DEF g

\* The best of the first n rows is one of them, and none of them is newer.
BestOf(listed, n, best) ==
    /\ \E k \in 1..n : best = listed[k]
    /\ \A k \in 1..n : NotNewer(listed[k], best)

LEMMA LatestIsBest ==
  ASSUME NEW listed, IndexRows(listed)
  PROVE  BestOf(listed, Len(listed), LatestRow(listed))
  <1> DEFINE S == {n \in Nat : n + 1 <= Len(listed) => BestOf(listed, n + 1, BestRows(listed)[n + 1])}
  <1>1. DOMAIN listed = 1..Len(listed) /\ 1 \in DOMAIN listed /\ Len(listed) \in Nat /\ Len(listed) >= 1
        /\ \A n \in 1..Len(listed) : IndexRow(listed[n])
    BY DEF IndexRows
  <1>2. 0 \in S
    <2>1. BestRows(listed)[1] = listed[1]
      BY RowsAreRead
    <2>2. BetterRow(listed[1], listed[1]) = listed[1] /\ NotNewer(listed[1], BetterRow(listed[1], listed[1]))
      BY <1>1, BetterOfTwo
    <2>3. BestOf(listed, 1, listed[1])
      BY <2>2 DEF BestOf
    <2> QED BY <2>1, <2>3
  <1>3. ASSUME NEW n \in Nat, n \in S PROVE n + 1 \in S
    <2> SUFFICES ASSUME (n + 1) + 1 <= Len(listed)
                 PROVE  BestOf(listed, (n + 1) + 1, BestRows(listed)[(n + 1) + 1])
      OBVIOUS
    <2>1. PICK m \in Nat : m = n + 1
      OBVIOUS
    <2>2. m + 1 \in 2..Len(listed) /\ (m + 1) - 1 = m /\ m \in 1..Len(listed) /\ m + 1 \in 1..Len(listed)
      BY <2>1
    <2>3. PICK old : old = BestRows(listed)[m]
      OBVIOUS
    <2>4. PICK new : new = BetterRow(old, listed[m + 1])
      OBVIOUS
    <2>5. BestRows(listed)[m + 1] = new
      BY <2>2, <2>3, <2>4, RowsAreRead
    <2>6. BestOf(listed, m, old)
      BY <1>3, <2>1, <2>3
    <2>7. PICK k \in 1..m : old = listed[k]
      BY <2>6 DEF BestOf
    <2>8. IndexRow(old) /\ IndexRow(listed[m + 1]) /\ k \in 1..(m + 1) /\ m + 1 \in 1..(m + 1)
      BY <1>1, <2>2, <2>7
    <2>9. new \in {old, listed[m + 1]} /\ NotNewer(old, new) /\ NotNewer(listed[m + 1], new)
      BY <2>4, <2>8, BetterOfTwo
    <2>10. ASSUME NEW j \in 1..(m + 1) PROVE NotNewer(listed[j], new)
      <3>1. CASE j = m + 1
        BY <2>9, <3>1
      <3>2. CASE j # m + 1
        <4>1. j \in 1..m /\ j \in 1..Len(listed)
          BY <2>2, <3>2
        <4>2. NotNewer(listed[j], old) /\ IndexRow(listed[j]) /\ IndexRow(new)
          BY <1>1, <2>6, <2>8, <2>9, <4>1 DEF BestOf
        <4> QED BY <2>8, <2>9, <4>2, NotNewerChains
      <3> QED BY <3>1, <3>2
    <2>11. \E j \in 1..(m + 1) : new = listed[j]
      BY <2>7, <2>8, <2>9
    <2>12. BestOf(listed, m + 1, new)
      BY <2>10, <2>11 DEF BestOf
    <2> QED BY <2>1, <2>5, <2>12
  <1> HIDE DEF S
  <1>4. Nat \subseteq S
    BY <1>2, <1>3, AllNumbers
  <1>5. PICK n \in Nat : n + 1 = Len(listed)
    <2>1. Len(listed) - 1 \in Nat /\ (Len(listed) - 1) + 1 = Len(listed)
      BY <1>1
    <2> QED BY <2>1
  <1>6. BestOf(listed, n + 1, BestRows(listed)[n + 1])
    <2>1. n \in S /\ n + 1 <= Len(listed)
      BY <1>1, <1>4, <1>5
    <2> QED BY <2>1 DEF S
  <1> QED BY <1>5, <1>6 DEF LatestRow

\* What follows the first three of n tokens, each on its own.
Following(tokens, n) == [i \in 1..(n - 3) |-> Alone(tokens[i + 3])]

LEMMA OneFollows ==
  ASSUME NEW tokens \in Seq(Tokens), NEW n \in Nat, n >= 3, n + 1 <= Len(tokens)
  PROVE  Following(tokens, n + 1) = Append(Following(tokens, n), Alone(tokens[n + 1]))
  <1>1. ASSUME NEW m \in Nat, m >= 3, m <= Len(tokens)
        PROVE  Following(tokens, m) \in Seq(Lone) /\ Len(Following(tokens, m)) = m - 3
    <2>1. m - 3 \in Nat /\ \A i \in 1..(m - 3) : i + 3 \in 1..Len(tokens)
      BY <1>1
    <2>2. \A i \in 1..(m - 3) : Alone(tokens[i + 3]) \in Lone
      BY <2>1, LoneOnes
    <2>3. Following(tokens, m) \in [1..(m - 3) -> Lone]
      BY <2>2 DEF Following
    <2> QED BY <2>1, <2>3
  <1>2. PICK s, t, x : s = Following(tokens, n) /\ t = Following(tokens, n + 1) /\ x = Alone(tokens[n + 1])
    OBVIOUS
  <1>3. s \in Seq(Lone) /\ Len(s) = n - 3 /\ t \in Seq(Lone) /\ Len(t) = (n + 1) - 3
    BY <1>1, <1>2
  <1>4. x \in Lone
    BY <1>2, LoneOnes
  <1>5. Append(s, x) \in Seq(Lone) /\ Len(Append(s, x)) = Len(t)
    BY <1>3, <1>4
  <1>6. ASSUME NEW i \in 1..Len(t) PROVE t[i] = Append(s, x)[i]
    <2>1. t[i] = Alone(tokens[i + 3])
      BY <1>2, <1>3, <1>6 DEF Following
    <2>2. CASE i = n - 2
      <3>1. Append(s, x)[i] = x
        BY <1>3, <1>4, <2>2
      <3> QED BY <1>2, <2>1, <2>2, <3>1
    <2>3. CASE i # n - 2
      <3>1. i \in 1..(n - 3)
        BY <1>3, <2>3
      <3>2. Append(s, x)[i] = s[i] /\ s[i] = Alone(tokens[i + 3])
        BY <1>2, <1>3, <1>4, <3>1 DEF Following
      <3> QED BY <2>1, <3>2
    <2> QED BY <2>2, <2>3
  <1>7. t = Append(s, x)
    BY <1>3, <1>5, <1>6, SeqEqual
  <1> QED BY <1>2, <1>7

LEMMA DigitsAreTaken ==
  ASSUME NEW p \in Parted, NEW token \in Tokens, AllDigits(token), Len(p.core) # 3
  PROVE  TakeToken(p, token).extra = p.extra /\ Len(TakeToken(p, token).core) = Len(p.core) + 1
  <1>1. Digits(token.n) \in Lone /\ StartsWithDigit(token)
    BY LoneOnes
  <1>2. TakeToken(p, token) = [core |-> Append(p.core, Digits(token.n)), extra |-> p.extra]
    BY <1>1 DEF TakeToken
  <1> QED BY <1>1, <1>2 DEF Parted

\* The extra of a version that begins with three numbers is what follows them.
LEMMA ThreeNumbers ==
  ASSUME NEW tokens \in Seq(Tokens), Len(tokens) >= 3, \A i \in 1..3 : AllDigits(tokens[i])
  PROVE  PartsOf(tokens).extra = Following(tokens, Len(tokens))
  <1> DEFINE g == TakenParts(tokens)
  <1>1. /\ g[0] = NoParts
        /\ \A n \in 1..Len(tokens) : g[n] = TakeToken(g[n - 1], tokens[n])
        /\ \A n \in 0..Len(tokens) : g[n] \in Parted
    BY TokensAreTaken
  <1> HIDE DEF g
  <1>2. tokens[1] \in Tokens /\ tokens[2] \in Tokens /\ tokens[3] \in Tokens
        /\ AllDigits(tokens[1]) /\ AllDigits(tokens[2]) /\ AllDigits(tokens[3])
        /\ g[0] \in Parted /\ g[1] \in Parted /\ g[2] \in Parted /\ g[3] \in Parted
    BY <1>1
  <1>3. g[0].extra = <<>> /\ Len(g[0].core) = 0
    BY <1>1 DEF NoParts
  <1>4. ASSUME NEW n \in 1..3, g[n - 1].extra = <<>>, Len(g[n - 1].core) = n - 1
        PROVE  g[n].extra = <<>> /\ Len(g[n].core) = n
    <2>1. PICK p \in Parted, token \in Tokens : p = g[n - 1] /\ token = tokens[n] /\ AllDigits(token)
      BY <1>2
    <2>2. Len(p.core) # 3 /\ p.extra = <<>> /\ Len(p.core) = n - 1
      <3>1. n - 1 # 3
        OBVIOUS
      <3> QED BY <1>4, <2>1, <3>1, Zenon
    <2>3. g[n] = TakeToken(p, token)
      BY <1>1, <2>1
    <2>4. TakeToken(p, token).extra = p.extra /\ Len(TakeToken(p, token).core) = Len(p.core) + 1
      BY <2>1, <2>2, DigitsAreTaken
    <2> QED BY <2>2, <2>3, <2>4
  <1>5. 1 - 1 = 0 /\ 2 - 1 = 1 /\ 3 - 1 = 2 /\ 1 \in 1..3 /\ 2 \in 1..3 /\ 3 \in 1..3
    OBVIOUS
  <1>6. g[3].extra = <<>> /\ Len(g[3].core) = 3
    <2>1. g[1].extra = <<>> /\ Len(g[1].core) = 1
      BY <1>3, <1>4, <1>5, Zenon
    <2>2. g[2].extra = <<>> /\ Len(g[2].core) = 2
      BY <1>4, <1>5, <2>1, Zenon
    <2> QED BY <1>4, <1>5, <2>2, Zenon
  <1> DEFINE S == {n \in Nat : n + 3 <= Len(tokens) =>
                                 Len(g[n + 3].core) = 3 /\ g[n + 3].extra = Following(tokens, n + 3)}
  <1>7. 0 \in S
    <2>1. Following(tokens, 3) = <<>>
      BY DEF Following
    <2> QED BY <1>6, <2>1
  <1>8. ASSUME NEW n \in Nat, n \in S PROVE n + 1 \in S
    <2> SUFFICES ASSUME (n + 1) + 3 <= Len(tokens)
                 PROVE  Len(g[(n + 1) + 3].core) = 3 /\ g[(n + 1) + 3].extra = Following(tokens, (n + 1) + 3)
      OBVIOUS
    <2>1. PICK m : m = n + 3
      OBVIOUS
    <2>2. m \in Nat /\ m >= 3 /\ m + 1 = (n + 1) + 3 /\ m + 1 \in 1..Len(tokens) /\ (m + 1) - 1 = m
          /\ m \in 0..Len(tokens) /\ m + 1 <= Len(tokens)
      BY <2>1
    <2>3. PICK old : old = g[m]
      OBVIOUS
    <2>4. old \in Parted /\ Len(old.core) = 3 /\ old.extra = Following(tokens, m)
          /\ g[m + 1] = TakeToken(old, tokens[m + 1])
      BY <1>1, <1>8, <2>1, <2>2, <2>3
    <2>5. g[m + 1] = [old EXCEPT !.extra = Append(old.extra, Alone(tokens[m + 1]))]
      BY <2>4 DEF TakeToken
    <2>6. g[m + 1].core = old.core /\ g[m + 1].extra = Append(old.extra, Alone(tokens[m + 1]))
      BY <2>4, <2>5 DEF Parted
    <2>7. Following(tokens, m + 1) = Append(Following(tokens, m), Alone(tokens[m + 1]))
      BY <2>2, OneFollows
    <2> QED BY <2>2, <2>4, <2>6, <2>7
  <1> HIDE DEF S
  <1>9. Nat \subseteq S
    BY <1>7, <1>8, AllNumbers
  <1>10. PICK n \in Nat : n + 3 = Len(tokens)
    <2>1. Len(tokens) - 3 \in Nat /\ (Len(tokens) - 3) + 3 = Len(tokens)
      OBVIOUS
    <2> QED BY <2>1
  <1>11. g[Len(tokens)].extra = Following(tokens, Len(tokens))
    <2>1. n \in S /\ n + 3 <= Len(tokens)
      BY <1>9, <1>10
    <2>2. g[n + 3].extra = Following(tokens, n + 3)
      BY <2>1 DEF S
    <2> QED BY <1>10, <2>2
  <1> QED BY <1>11, PartsTyped DEF g

\* Dots join nothing, and of no tokens there are no identifiers.
LEMMA DotsJoinNothing ==
  ASSUME NEW tokens \in Seq(Tokens), Len(tokens) >= 3, \A i \in 5..Len(tokens) : tokens[i].sep = "."
  PROVE  /\ Identifiers(tokens, 4, Len(tokens)) = Following(tokens, Len(tokens))
         /\ Identifiers(tokens, 4, 3) = <<>>
         /\ Identifiers(tokens, Len(tokens) + 1, Len(tokens)) = <<>>
  <1>1. PICK len \in Nat : len = Len(tokens) /\ len >= 3
    OBVIOUS
  <1> DEFINE Joins(i) == i \in (4 + 1)..len /\ tokens[i].sep = "-"
             At(i) == IF Joins(i) THEN "inner" ELSE IF Joins(i + 1) THEN "first" ELSE "alone"
  <1>2. Identifiers(tokens, 4, len) =
          [i \in 1..(len + 1 - 4) |-> [Alone(tokens[4 + i - 1]) EXCEPT !.at = At(4 + i - 1)]]
    BY DEF Identifiers
  <1>3. \A i \in Int : ~Joins(i)
    BY <1>1
  <1>4. \A i \in Int : At(i) = "alone"
    BY <1>3
  <1> HIDE DEF At
  <1>5. \A i \in 1..(len - 3) : 4 + i - 1 = i + 3 /\ [Alone(tokens[i + 3]) EXCEPT !.at = At(i + 3)] = Alone(tokens[i + 3])
    BY <1>4 DEF Alone
  <1>6. Identifiers(tokens, 4, len) = [i \in 1..(len - 3) |-> [Alone(tokens[i + 3]) EXCEPT !.at = At(i + 3)]]
    BY <1>2, <1>5
  <1>7. Identifiers(tokens, 4, len) = Following(tokens, len)
    BY <1>5, <1>6 DEF Following
  <1>8. 3 + 1 - 4 = 0 /\ len + 1 - (len + 1) = 0 /\ 1..0 = {}
    OBVIOUS
  <1>9. Identifiers(tokens, 4, 3) = <<>>
    BY DEF Identifiers
  <1>10. Identifiers(tokens, len + 1, len) = <<>>
    BY <1>8 DEF Identifiers
  <1> QED BY <1>1, <1>7, <1>9, <1>10

\* What is written for a version whose two orders are one.
Written(p) == IF HasText(p.extra) THEN Core(p.core, p.extra, <<>>) ELSE Core(p.core, <<>>, p.extra)

LEMMA PartsAreWritten ==
  ASSUME NEW v, v.tokens \in Seq(Tokens), OneOrder(v)
  PROVE  ParseLossy(v) = Written(PartsOf(v.tokens))
  <1>1. PICK tokens \in Seq(Tokens) : tokens = v.tokens
    OBVIOUS
  <1>2. PICK p : p = PartsOf(tokens)
    OBVIOUS
  <1>3. CASE Semantic(v)
    <2>1. Len(tokens) >= 3 /\ \A i \in 1..3 : AllDigits(tokens[i])
      BY <1>1, <1>3 DEF Semantic
    <2>2. p.extra = Following(tokens, Len(tokens))
      BY <1>2, <2>1, ThreeNumbers
    <2>3. PICK pluses, last :
            /\ pluses = {i \in 4..Len(tokens) : tokens[i].sep = "+"}
            /\ last = IF pluses = {} THEN Len(tokens) ELSE (CHOOSE i \in pluses : TRUE) - 1
      OBVIOUS
    <2>4. ParseLossy(v) = Core(p.core, Identifiers(tokens, 4, last), Identifiers(tokens, last + 1, Len(tokens)))
      BY <1>1, <1>2, <1>3, <2>3 DEF ParseLossy
    <2>5. Len(tokens) > 3 =>
            /\ tokens[4].sep = "-" <=> \E i \in 4..Len(tokens) : ~AllDigits(tokens[i])
            /\ \A i \in 5..Len(tokens) : tokens[i].sep = "."
      BY <1>1, <1>3 DEF OneOrder
    <2>6. \A i \in 5..Len(tokens) : tokens[i].sep = "."
      BY <2>5
    <2>7. /\ Identifiers(tokens, 4, Len(tokens)) = p.extra
          /\ Identifiers(tokens, 4, 3) = <<>> /\ Identifiers(tokens, Len(tokens) + 1, Len(tokens)) = <<>>
      BY <2>1, <2>2, <2>6, DotsJoinNothing
    <2>8. HasText(p.extra) <=> \E i \in 4..Len(tokens) : ~AllDigits(tokens[i])
      <3>1. PICK len \in Nat : len = Len(tokens) /\ len >= 3
        BY <2>1
      <3>2. DOMAIN p.extra = 1..(len - 3) /\ \A i \in 1..(len - 3) : p.extra[i] = Alone(tokens[i + 3])
        BY <2>2, <3>1 DEF Following
      <3>3. ASSUME NEW i \in 1..(len - 3) PROVE AllDigits(p.extra[i]) <=> AllDigits(tokens[i + 3])
        <4>1. p.extra[i] = Alone(tokens[i + 3])
          BY <3>2
        <4>2. Alone(tokens[i + 3]).n = tokens[i + 3].n /\ Alone(tokens[i + 3]).w = tokens[i + 3].w
          BY DEF Alone
        <4> QED BY <4>1, <4>2, Zenon DEF AllDigits
      <3>4. ASSUME HasText(p.extra) PROVE \E i \in 4..Len(tokens) : ~AllDigits(tokens[i])
        <4>1. PICK i \in 1..(len - 3) : ~AllDigits(tokens[i + 3])
          BY <3>2, <3>3, <3>4 DEF HasText
        <4>2. i + 3 \in 4..Len(tokens)
          BY <3>1
        <4> QED BY <4>1, <4>2
      <3>5. ASSUME NEW i \in 4..Len(tokens), ~AllDigits(tokens[i]) PROVE HasText(p.extra)
        <4>1. i - 3 \in 1..(len - 3) /\ (i - 3) + 3 = i
          BY <3>1
        <4>2. ~AllDigits(p.extra[i - 3])
          BY <3>3, <3>5, <4>1
        <4> QED BY <3>2, <4>1, <4>2 DEF HasText
      <3> QED BY <3>4, <3>5
    <2>9. CASE Len(tokens) = 3
      <3>1. pluses = {} /\ last = 3
        BY <2>3, <2>9
      <3>2. p.extra = <<>> /\ ~HasText(p.extra)
        BY <2>7, <2>8, <2>9
      <3>3. ParseLossy(v) = Core(p.core, <<>>, <<>>)
        BY <2>4, <2>7, <2>9, <3>1
      <3> QED BY <1>1, <1>2, <3>2, <3>3 DEF Written
    <2>10. CASE Len(tokens) > 3 /\ tokens[4].sep = "-"
      <3>1. \A i \in 4..Len(tokens) : tokens[i].sep # "+"
        <4>1. \A i \in 4..Len(tokens) : i = 4 \/ i \in 5..Len(tokens)
          OBVIOUS
        <4> QED BY <2>6, <2>10, <4>1
      <3>2. last = Len(tokens)
        BY <2>3, <3>1
      <3>3. HasText(p.extra)
        BY <2>5, <2>8, <2>10
      <3> QED BY <1>1, <1>2, <2>4, <2>7, <3>2, <3>3 DEF Written
    <2>11. CASE Len(tokens) > 3 /\ tokens[4].sep # "-"
      <3>1. tokens[4].sep = "+"
        BY <1>1, <1>3, <2>11 DEF Semantic
      <3>2. pluses = {4}
        <4>1. 4 \in 4..Len(tokens) /\ \A i \in 4..Len(tokens) : i = 4 \/ i \in 5..Len(tokens)
          BY <2>11
        <4>2. 4 \in pluses
          BY <2>3, <3>1, <4>1
        <4>3. \A i \in pluses : i = 4
          BY <2>3, <2>6, <4>1
        <4> QED BY <4>2, <4>3
      <3>3. last = 3
        BY <2>3, <3>2
      <3>4. ~HasText(p.extra)
        BY <2>5, <2>8, <2>11
      <3>5. ParseLossy(v) = Core(p.core, <<>>, p.extra)
        BY <2>4, <2>7, <3>3
      <3> QED BY <1>1, <1>2, <3>4, <3>5 DEF Written
    <2>12. Len(tokens) = 3 \/ Len(tokens) > 3
      <3>1. PICK len \in Nat : len = Len(tokens) /\ len >= 3
        BY <2>1
      <3> QED BY <3>1
    <2> QED BY <2>9, <2>10, <2>11, <2>12, Zenon
  <1>4. CASE ~Semantic(v)
    BY <1>4 DEF ParseLossy, OneOrder, Written
  <1> QED BY <1>3, <1>4

LEMMA WrittenInOrder ==
  ASSUME NEW p \in Parted, NEW q \in Parted, p = q \/ Older(p, q)
  PROVE  CompareSemver(Written(p), Written(q)) <= 0
  <1>1. /\ p.core \in Seq(Lone) /\ q.core \in Seq(Lone)
        /\ p.extra \in Seq(Lone) /\ q.extra \in Seq(Lone) /\ <<>> \in Seq(Lone)
    BY DEF Parted
  <1>2. PICK a, b : a = Written(p) /\ b = Written(q)
    OBVIOUS
  <1>3. /\ a.core = p.core /\ b.core = q.core
        /\ HasText(p.extra) => a.pre = p.extra /\ a.build = <<>>
        /\ ~HasText(p.extra) => a.pre = <<>> /\ a.build = p.extra
        /\ HasText(q.extra) => b.pre = q.extra /\ b.build = <<>>
        /\ ~HasText(q.extra) => b.pre = <<>> /\ b.build = q.extra
    BY <1>2 DEF Written, Core
  <1>4. ~HasText(<<>>)
    BY DEF HasText
  <1>5. CompareLists(<<>>, <<>>) = 0
    BY <1>1, ListOrder
  <1>6. CASE p = q
    <2>1. CompareSemver(a, b) = CompareLists(a.build, b.build) /\ a.build = b.build
          /\ a.build \in Seq(Lone)
      BY <1>1, <1>2, <1>3, <1>6 DEF CompareSemver
    <2>2. CompareLists(a.build, b.build) = 0
      BY <2>1, ListOrder
    <2> QED BY <1>2, <2>1, <2>2
  <1>7. CASE Before(p.core, q.core)
    <2>1. a.core # b.core
      BY <1>1, <1>3, <1>7, NothingBeforeItself
    <2>2. CompareSemver(a, b) = CompareLists(p.core, q.core)
      BY <1>3, <2>1 DEF CompareSemver
    <2>3. CompareLists(p.core, q.core) < 0 /\ CompareLists(p.core, q.core) \in {-1, 0, 1}
      BY <1>1, <1>7, ListOrder
    <2> QED BY <1>2, <2>2, <2>3
  <1>8. CASE p.core = q.core /\ ExtraRank(p.extra) < ExtraRank(q.extra)
    <2>1. CASE HasText(p.extra)
      <3>1. ~HasText(q.extra) /\ p.extra # <<>>
        BY <1>4, <1>8, <2>1 DEF ExtraRank
      <3>2. CompareSemver(a, b) = -1
        BY <1>3, <1>8, <2>1, <3>1 DEF CompareSemver
      <3> QED BY <1>2, <3>2
    <2>2. CASE ~HasText(p.extra)
      <3>1. p.extra = <<>> /\ q.extra # <<>> /\ ~HasText(q.extra)
        BY <1>8, <2>2 DEF ExtraRank
      <3>2. CompareSemver(a, b) = CompareLists(<<>>, q.extra)
        BY <1>3, <1>8, <2>2, <3>1 DEF CompareSemver
      <3>3. Before(<<>>, q.extra)
        <4>1. 1 \in 1..Len(q.extra) /\ Len(<<>>) = 0
          BY <1>1, <3>1
        <4> QED BY <4>1 DEF Before
      <3>4. CompareLists(<<>>, q.extra) < 0 /\ CompareLists(<<>>, q.extra) \in {-1, 0, 1}
        BY <1>1, <3>3, ListOrder
      <3> QED BY <1>2, <3>2, <3>4
    <2> QED BY <2>1, <2>2
  <1>9. CASE p.core = q.core /\ ExtraRank(p.extra) = ExtraRank(q.extra) /\ Before(p.extra, q.extra)
    <2>1. p.extra # q.extra
      BY <1>1, <1>9, NothingBeforeItself
    <2>2. CompareLists(p.extra, q.extra) < 0 /\ CompareLists(p.extra, q.extra) \in {-1, 0, 1}
      BY <1>1, <1>9, ListOrder
    <2>3. CASE HasText(p.extra)
      <3>1. HasText(q.extra) /\ p.extra # <<>> /\ q.extra # <<>>
        BY <1>4, <1>9, <2>1, <2>3 DEF ExtraRank
      <3>2. CompareSemver(a, b) = CompareLists(p.extra, q.extra)
        BY <1>3, <1>9, <2>1, <2>3, <3>1 DEF CompareSemver
      <3> QED BY <1>2, <2>2, <3>2
    <2>4. CASE ~HasText(p.extra)
      <3>1. ~HasText(q.extra)
        BY <1>4, <1>9, <2>1, <2>4 DEF ExtraRank
      <3>2. CompareSemver(a, b) = CompareLists(p.extra, q.extra)
        BY <1>3, <1>9, <2>4, <3>1 DEF CompareSemver
      <3> QED BY <1>2, <2>2, <3>2
    <2> QED BY <2>3, <2>4
  <1> QED BY <1>6, <1>7, <1>8, <1>9 DEF Older

\* Where two rows are spelled alike, their order in lower case is their own.
LEMMA NotNewerAlike ==
  ASSUME NEW a, NEW b, IndexRow(a), IndexRow(b), NotNewer(a, b), SpelledAlike(a.version, b.version)
  PROVE  \/ PartsOf(a.version.tokens) = PartsOf(b.version.tokens)
         \/ Older(PartsOf(a.version.tokens), PartsOf(b.version.tokens))
  <1>1. PICK s \in Seq(Tokens), t \in Seq(Tokens) : s = a.version.tokens /\ t = b.version.tokens
    BY DEF IndexRow
  <1>2. PICK p \in Parted, q \in Parted : p = PartsOf(s) /\ q = PartsOf(t)
    BY PartsTyped
  <1>3. PICK l \in Parted, r \in Parted :
          /\ l = LowerParts(s) /\ r = LowerParts(t) /\ l.core = p.core /\ r.core = q.core
          /\ l.extra = Small(p.extra) /\ r.extra = Small(q.extra)
    BY <1>2, LowerPartsTyped
  <1>4. /\ p.extra \in Seq(Lone) /\ q.extra \in Seq(Lone)
        /\ p = [core |-> p.core, extra |-> p.extra] /\ q = [core |-> q.core, extra |-> q.extra]
    BY DEF Parted
  <1>5. l = r \/ Older(l, r)
    <2>1. PICK o : o = CompareWingetVersions(a.version, b.version)
      OBVIOUS
    <2>2. (o < 0 <=> Older(l, r)) /\ (o = 0 <=> l = r)
      BY <1>1, <1>3, <2>1, VersionOrder
    <2> QED BY <2>1, <2>2 DEF NotNewer
  <1>6. ExtraRank(l.extra) = ExtraRank(p.extra) /\ ExtraRank(r.extra) = ExtraRank(q.extra)
    <2>1. ASSUME NEW e \in Seq(Lone) PROVE ExtraRank(Small(e)) = ExtraRank(e)
      <3>1. Small(e) \in Seq(Lone) /\ Len(Small(e)) = Len(e) /\ (HasText(Small(e)) <=> HasText(e))
        BY LoweredTyped
      <3>2. Small(e) = <<>> <=> e = <<>>
        BY <3>1
      <3> QED BY <3>1, <3>2 DEF ExtraRank
    <2> QED BY <1>3, <1>4, <2>1
  <1>7. CompareLists(l.extra, r.extra) = CompareLists(p.extra, q.extra)
    <2>1. ASSUME NEW i \in DOMAIN p.extra, NEW j \in DOMAIN q.extra
          PROVE  Sign(ToLower[p.extra[i].w] - ToLower[q.extra[j].w]) = Sign(p.extra[i].w - q.extra[j].w)
      <3>1. PICK m \in DOMAIN s : p.extra[i].w = s[m].w
        BY <1>2, WordsAreTaken
      <3>2. PICK n \in DOMAIN t : q.extra[j].w = t[n].w
        BY <1>2, WordsAreTaken
      <3> QED BY <1>1, <3>1, <3>2 DEF SpelledAlike
    <2> QED BY <1>3, <1>4, <2>1, LoweredAlike
  <1>8. /\ l.extra \in Seq(Lone) /\ r.extra \in Seq(Lone)
        /\ CompareLists(l.extra, r.extra) < 0 <=> Before(l.extra, r.extra)
        /\ CompareLists(l.extra, r.extra) = 0 <=> l.extra = r.extra
    BY ListOrder DEF Parted
  <1>9. /\ CompareLists(p.extra, q.extra) < 0 <=> Before(p.extra, q.extra)
        /\ CompareLists(p.extra, q.extra) = 0 <=> p.extra = q.extra
    BY <1>4, ListOrder
  <1>10. CASE l = r
    BY <1>1, <1>2, <1>3, <1>4, <1>7, <1>8, <1>9, <1>10
  <1>11. CASE Older(l, r)
    BY <1>1, <1>2, <1>3, <1>6, <1>7, <1>8, <1>9, <1>11 DEF Older
  <1> QED BY <1>5, <1>10, <1>11

\* The answer about a listing.
VersionAnswer(l) ==
    [is |-> "version", row |-> LatestRow(l), written |-> ParseLossy(LatestRow(l).version)]

VersionInv ==
    Asked("version") =>
       question.about \in Listings /\ (answer = NoAnswer \/ answer = VersionAnswer(question.about))

LEMMA ListedRows ==
  ASSUME NEW l \in Listings
  PROVE  IndexRows(l) /\ l \in Seq([version : [prefixed : BOOLEAN, tokens : Seq(Tokens)], rowid : Int])
  <1> DEFINE Versioned == [version : [prefixed : BOOLEAN, tokens : Seq(Tokens)], rowid : Int]
             D == {l[n] : n \in DOMAIN l}
  <1>1. l \in Seq(Versioned) /\ l # <<>>
    BY ListingAssumption
  <1>2. \A n \in DOMAIN l : l[n] \in Versioned
    <2> HIDE DEF Versioned
    <2> QED BY <1>1
  <1>3. \A n \in DOMAIN l : IndexRow(l[n])
    BY <1>2 DEF IndexRow
  <1>4. l \in Seq(D)
    <2> HIDE DEF Versioned
    <2>1. Len(l) \in Nat /\ DOMAIN l = 1..Len(l) /\ l = [n \in 1..Len(l) |-> l[n]]
      BY <1>1
    <2>2. \A n \in 1..Len(l) : l[n] \in D
      BY <2>1
    <2> QED BY <2>1, <2>2
  <1> QED BY <1>1, <1>3, <1>4 DEF IndexRows

LEMMA VersionImplies == VersionInv => LatestIsWritten
  <1> SUFFICES ASSUME VersionInv, Asked("version"), answer # NoAnswer, NEW n \in DOMAIN question.about
               PROVE  /\ NotNewer(question.about[n], answer.row)
                      /\ (/\ OneOrder(question.about[n].version) /\ OneOrder(answer.row.version)
                          /\ SpelledAlike(question.about[n].version, answer.row.version)) =>
                           CompareSemver(ParseLossy(question.about[n].version), answer.written) <= 0
    BY DEF LatestIsWritten, NotNewer
  <1>1. PICK l \in Listings : l = question.about /\ answer = VersionAnswer(l)
    BY DEF VersionInv
  <1>2. PICK best : best = LatestRow(l)
    OBVIOUS
  <1>3. answer.row = best /\ answer.written = ParseLossy(best.version)
    BY <1>1, <1>2 DEF VersionAnswer
  <1>4. PICK row : row = l[n]
    OBVIOUS
  <1>5. IndexRows(l) /\ n \in 1..Len(l)
    BY <1>1, ListedRows
  <1>6. BestOf(l, Len(l), best)
    BY <1>2, <1>5, LatestIsBest
  <1>7. PICK k \in 1..Len(l) : best = l[k]
    BY <1>6 DEF BestOf
  <1>8. NotNewer(row, best)
    BY <1>4, <1>5, <1>6 DEF BestOf
  <1>9. IndexRow(row) /\ IndexRow(best)
    BY <1>1, <1>4, <1>5, <1>7, ListedRows DEF IndexRows
  <1>10. ASSUME OneOrder(row.version), OneOrder(best.version), SpelledAlike(row.version, best.version)
         PROVE  CompareSemver(ParseLossy(row.version), ParseLossy(best.version)) <= 0
    <2>1. PICK p, q : p = PartsOf(row.version.tokens) /\ q = PartsOf(best.version.tokens)
      OBVIOUS
    <2>2. p \in Parted /\ q \in Parted
      BY <1>9, <2>1, PartsTyped DEF IndexRow
    <2>3. ParseLossy(row.version) = Written(p)
      BY <1>9, <1>10, <2>1, PartsAreWritten DEF IndexRow
    <2>4. ParseLossy(best.version) = Written(q)
      BY <1>9, <1>10, <2>1, PartsAreWritten DEF IndexRow
    <2>5. p = q \/ Older(p, q)
      BY <1>8, <1>9, <1>10, <2>1, NotNewerAlike
    <2>6. CompareSemver(Written(p), Written(q)) <= 0
      BY <2>2, <2>5, WrittenInOrder
    <2> QED BY <2>3, <2>4, <2>6
  <1> QED BY <1>1, <1>3, <1>4, <1>8, <1>10

LEMMA VersionStays == VersionInv /\ [Next]_vars => VersionInv'
  <1> SUFFICES ASSUME VersionInv, [Next]_vars PROVE VersionInv'
    OBVIOUS
  <1>1. question' = question /\ (UNCHANGED answer \/ ~Asked("version") \/ AnswerVersion)
    BY DEF Next, vars, Try, Scan, Use, AnswerInstaller, AnswerCommands, AnswerVersion,
           AnswerManifest, AnswerSetting, AnswerUninstaller, Asked
  <1>2. ASSUME AnswerVersion PROVE answer' = VersionAnswer(question.about)
    BY <1>2 DEF AnswerVersion, VersionAnswer
  <1> QED BY <1>1, <1>2 DEF VersionInv, Asked

(* The crawler's order of versions is total, so that it takes the same row *)
(* of an id in whatever order the index lists them; and it is the order of *)
(* what the parser writes, where the two orders do not part on a spelling. *)
THEOREM LatestVersionIsWritten == Spec => []LatestIsWritten
  <1>1. Init => VersionInv
    BY DEF Init, VersionInv, Asked
  <1>2. Spec => []VersionInv
    <2>1. VersionInv /\ [Next]_vars => VersionInv'
      BY VersionStays
    <2> QED BY <1>1, <2>1, PTL DEF Spec
  <1> QED BY <1>2, VersionImplies, PTL
--------------------------------------------------------------------------------
(* Executables.  The uninstall registry's lists are read one after the     *)
(* other; the package's own entry is at one place and has the priority.    *)
LEMMA ThreeLists ==
  ASSUME NEW T, NEW a \in Seq(T), NEW b \in Seq(T), NEW c \in Seq(T), NEW all, all = a \o b \o c
  PROVE  /\ all \in Seq(T) /\ Len(all) = Len(a) + Len(b) + Len(c)
         /\ \A j \in 1..Len(a) : all[j] = a[j]
         /\ \A j \in 1..Len(b) : all[Len(a) + j] = b[j]
         /\ \A j \in 1..Len(c) : all[Len(a) + Len(b) + j] = c[j]
  <1>1. PICK ab : ab = a \o b
    OBVIOUS
  <1>2. /\ ab \in Seq(T) /\ Len(ab) = Len(a) + Len(b)
        /\ \A j \in 1..Len(a) : ab[j] = a[j]
        /\ \A j \in 1..Len(b) : ab[Len(a) + j] = b[j]
    BY <1>1
  <1>3. all = ab \o c
    BY <1>1
  <1>4. /\ all \in Seq(T) /\ Len(all) = Len(ab) + Len(c)
        /\ \A j \in 1..Len(ab) : all[j] = ab[j]
        /\ \A j \in 1..Len(c) : all[Len(ab) + j] = c[j]
    <2>1. ab \o c \in Seq(T) /\ Len(ab \o c) = Len(ab) + Len(c)
      BY <1>2
    <2>2. \A j \in 1..Len(ab) : (ab \o c)[j] = ab[j]
      BY <1>2
    <2>3. \A j \in 1..Len(c) : (ab \o c)[Len(ab) + j] = c[j]
      BY <1>2
    <2> QED BY <1>3, <2>1, <2>2, <2>3
  <1>5. \A j \in 1..Len(a) : all[j] = a[j]
    BY <1>2, <1>4
  <1>6. ASSUME NEW j \in 1..Len(b) PROVE all[Len(a) + j] = b[j]
    <2>1. Len(a) + j \in 1..Len(ab)
      BY <1>2
    <2> QED BY <1>2, <1>4, <2>1
  <1>7. \A j \in 1..Len(c) : all[Len(a) + Len(b) + j] = c[j]
    BY <1>2, <1>4
  <1> QED BY <1>2, <1>4, <1>5, <1>6, <1>7

\* The list has one's own entry at a place, and the others elsewhere.
OwnAt(list, k, own, others) ==
    /\ k \in 1..Len(list) /\ list[k] = own
    /\ \A j \in 1..Len(list) : j # k => list[j] \in others

LEMMA OwnInOne ==
  ASSUME NEW others, NEW s \in Seq(others), NEW own
  PROVE  /\ Append(s, own) \in Seq(others \union {own})
         /\ Len(Append(s, own)) = Len(s) + 1
         /\ OwnAt(Append(s, own), Len(s) + 1, own, others)
  <1>1. PICK T : T = others \union {own}
    OBVIOUS
  <1>2. s \in Seq(T) /\ own \in T
    BY <1>1
  <1>3. /\ Append(s, own) \in Seq(T) /\ Len(Append(s, own)) = Len(s) + 1
        /\ \A i \in 1..Len(s) : Append(s, own)[i] = s[i]
        /\ Append(s, own)[Len(s) + 1] = own
    BY <1>2, AppendProperties
  <1>4. \A i \in 1..Len(s) : s[i] \in others
    OBVIOUS
  <1>5. \A j \in 1..(Len(s) + 1) : j # Len(s) + 1 => j \in 1..Len(s)
    OBVIOUS
  <1> QED BY <1>1, <1>3, <1>4, <1>5 DEF OwnAt

LEMMA OwnAmongThree ==
  ASSUME NEW others, NEW own, NEW a, NEW b, NEW c, NEW all,
         a \in Seq(others \union {own}), b \in Seq(others \union {own}), c \in Seq(others \union {own}),
         all = a \o b \o c,
         \/ b \in Seq(others) /\ c \in Seq(others) /\ \E k \in Nat : OwnAt(a, k, own, others)
         \/ a \in Seq(others) /\ c \in Seq(others) /\ \E k \in Nat : OwnAt(b, k, own, others)
         \/ a \in Seq(others) /\ b \in Seq(others) /\ \E k \in Nat : OwnAt(c, k, own, others)
  PROVE  all \in Seq(others \union {own}) /\ \E k \in Nat : OwnAt(all, k, own, others)
  <1>1. /\ all \in Seq(others \union {own}) /\ Len(all) = Len(a) + Len(b) + Len(c)
        /\ \A j \in 1..Len(a) : all[j] = a[j]
        /\ \A j \in 1..Len(b) : all[Len(a) + j] = b[j]
        /\ \A j \in 1..Len(c) : all[Len(a) + Len(b) + j] = c[j]
    BY ThreeLists
  <1>2. Len(a) \in Nat /\ Len(b) \in Nat /\ Len(c) \in Nat
    OBVIOUS
  <1>3. ASSUME NEW j \in 1..Len(all)
        PROVE  \/ j \in 1..Len(a) /\ all[j] = a[j]
               \/ j - Len(a) \in 1..Len(b) /\ all[j] = b[j - Len(a)]
               \/ j - (Len(a) + Len(b)) \in 1..Len(c) /\ all[j] = c[j - (Len(a) + Len(b))]
    <2>1. CASE j <= Len(a)
      BY <1>1, <1>2, <2>1
    <2>2. CASE j > Len(a) /\ j <= Len(a) + Len(b)
      <3>1. j - Len(a) \in 1..Len(b) /\ Len(a) + (j - Len(a)) = j
        BY <1>1, <1>2, <2>2
      <3> QED BY <1>1, <3>1
    <2>3. CASE j > Len(a) + Len(b)
      <3>1. j - (Len(a) + Len(b)) \in 1..Len(c) /\ Len(a) + Len(b) + (j - (Len(a) + Len(b))) = j
        BY <1>1, <1>2, <2>3
      <3> QED BY <1>1, <3>1
    <2> QED BY <1>1, <1>2, <2>1, <2>2, <2>3
  <1>4. CASE b \in Seq(others) /\ c \in Seq(others) /\ \E k \in Nat : OwnAt(a, k, own, others)
    <2>1. PICK k \in Nat : OwnAt(a, k, own, others)
      BY <1>4
    <2>2. k \in 1..Len(all) /\ all[k] = own
      BY <1>1, <1>2, <2>1 DEF OwnAt
    <2>3. ASSUME NEW j \in 1..Len(all), j # k PROVE all[j] \in others
      BY <1>2, <1>3, <1>4, <2>1, <2>3 DEF OwnAt
    <2> QED BY <1>1, <2>2, <2>3 DEF OwnAt
  <1>5. CASE a \in Seq(others) /\ c \in Seq(others) /\ \E k \in Nat : OwnAt(b, k, own, others)
    <2>1. PICK i \in Nat : OwnAt(b, i, own, others)
      BY <1>5
    <2>2. PICK k \in Nat : k = Len(a) + i
      BY <1>2
    <2>3. k \in 1..Len(all) /\ all[k] = own
      BY <1>1, <1>2, <2>1, <2>2 DEF OwnAt
    <2>4. ASSUME NEW j \in 1..Len(all), j # k PROVE all[j] \in others
      <3>1. j - Len(a) # i
        BY <1>2, <2>2, <2>4
      <3>2. ASSUME j - Len(a) \in 1..Len(b) PROVE b[j - Len(a)] \in others
        BY <2>1, <3>1, <3>2 DEF OwnAt
      <3>3. \A n \in 1..Len(a) : a[n] \in others
        BY <1>5
      <3>4. \A n \in 1..Len(c) : c[n] \in others
        BY <1>5
      <3> QED BY <1>3, <3>2, <3>3, <3>4
    <2> QED BY <1>1, <2>3, <2>4 DEF OwnAt
  <1>6. CASE a \in Seq(others) /\ b \in Seq(others) /\ \E k \in Nat : OwnAt(c, k, own, others)
    <2>1. PICK i \in Nat : OwnAt(c, i, own, others)
      BY <1>6
    <2>2. PICK k \in Nat : k = Len(a) + Len(b) + i
      BY <1>2
    <2>3. k \in 1..Len(all) /\ all[k] = own
      BY <1>1, <1>2, <2>1, <2>2 DEF OwnAt
    <2>4. ASSUME NEW j \in 1..Len(all), j # k PROVE all[j] \in others
      <3>1. j - (Len(a) + Len(b)) # i
        BY <1>2, <2>2, <2>4
      <3>2. ASSUME j - (Len(a) + Len(b)) \in 1..Len(c) PROVE c[j - (Len(a) + Len(b))] \in others
        BY <2>1, <3>1, <3>2 DEF OwnAt
      <3>3. \A n \in 1..Len(a) : a[n] \in others
        BY <1>6
      <3>4. \A n \in 1..Len(b) : b[n] \in others
        BY <1>6
      <3> QED BY <1>3, <3>2, <3>3, <3>4
    <2> QED BY <1>1, <2>3, <2>4 DEF OwnAt
  <1> QED BY <1>1, <1>4, <1>5, <1>6

\* The entries that were there before.
Others(registry) == ToSet(registry["machine"]) \union ToSet(registry["wow"]) \union ToSet(registry["user"])

LEMMA OwnIsListed ==
  ASSUME NEW registry, NEW hive \in DOMAIN registry, NEW own, NEW roots,
         DOMAIN registry = {"machine", "wow", "user"},
         \A h \in DOMAIN registry : registry[h] \in Seq(ToSet(registry[h])),
         roots = UninstallRoots([registry EXCEPT ![hive] = Append(@, own)])
  PROVE  /\ roots \in Seq(Others(registry) \union {own})
         /\ Len(roots) = Len(UninstallRoots(registry)) + 1
         /\ \E k \in Nat : OwnAt(roots, k, own, Others(registry))
  <1>1. PICK others, m, w, u : /\ others = Others(registry) /\ m = registry["machine"]
                               /\ w = registry["wow"] /\ u = registry["user"]
    OBVIOUS
  <1>2. m \in Seq(ToSet(m)) /\ w \in Seq(ToSet(w)) /\ u \in Seq(ToSet(u))
    BY <1>1
  <1>3. ToSet(m) \subseteq others /\ ToSet(w) \subseteq others /\ ToSet(u) \subseteq others
    BY <1>1 DEF Others
  <1>4. m \in Seq(others) /\ w \in Seq(others) /\ u \in Seq(others)
    BY <1>2, <1>3
  <1>5. /\ m \in Seq(others \union {own}) /\ w \in Seq(others \union {own}) /\ u \in Seq(others \union {own})
    BY <1>4
  <1>6. UninstallRoots(registry) = m \o w \o u
    BY <1>1 DEF UninstallRoots
  <1>7. Len(UninstallRoots(registry)) = Len(m) + Len(w) + Len(u)
    BY <1>4, <1>6, ThreeLists
  <1>8. PICK after : after = [registry EXCEPT ![hive] = Append(@, own)]
    OBVIOUS
  <1>9. roots = after["machine"] \o after["wow"] \o after["user"]
    BY <1>8 DEF UninstallRoots
  <1>10. Len(m) \in Nat /\ Len(w) \in Nat /\ Len(u) \in Nat
    BY <1>4
  <1>11. PICK T : T = others \union {own}
    OBVIOUS
  <1>12. m \in Seq(T) /\ w \in Seq(T) /\ u \in Seq(T)
    BY <1>5, <1>11
  <1> DEFINE Goal == /\ roots \in Seq(T) /\ Len(roots) = Len(UninstallRoots(registry)) + 1
                     /\ \E k \in Nat : OwnAt(roots, k, own, others)
  <1> SUFFICES Goal
    BY <1>1, <1>11
  <1>13. CASE hive = "machine"
    <2>1. PICK a : a = Append(m, own)
      OBVIOUS
    <2>2. after["machine"] = a /\ after["wow"] = w /\ after["user"] = u
      BY <1>1, <1>8, <1>13, <2>1
    <2>3. a \in Seq(T) /\ Len(a) = Len(m) + 1 /\ OwnAt(a, Len(m) + 1, own, others)
      BY <1>4, <1>11, <2>1, OwnInOne
    <2>4. roots = a \o w \o u
      BY <1>9, <2>2
    <2>5. \E k \in Nat : OwnAt(a, k, own, others)
      <3>1. Len(m) + 1 \in Nat
        BY <1>10
      <3> QED BY <2>3, <3>1
    <2>6. Len(roots) = Len(a) + Len(w) + Len(u)
      <3>1. a \in Seq(T)
        BY <2>3
      <3> QED BY <1>12, <2>4, <3>1, ThreeLists
    <2>7. roots \in Seq(T) /\ \E k \in Nat : OwnAt(roots, k, own, others)
      BY <1>4, <1>11, <1>12, <2>3, <2>4, <2>5, OwnAmongThree
    <2>8. Len(roots) = Len(UninstallRoots(registry)) + 1
      <3>1. Len(a) = Len(m) + 1
        BY <2>3
      <3> QED BY <1>7, <1>10, <2>6, <3>1
    <2> QED BY <2>7, <2>8
  <1>14. CASE hive = "wow"
    <2>1. PICK a : a = Append(w, own)
      OBVIOUS
    <2>2. after["machine"] = m /\ after["wow"] = a /\ after["user"] = u
      BY <1>1, <1>8, <1>14, <2>1
    <2>3. a \in Seq(T) /\ Len(a) = Len(w) + 1 /\ OwnAt(a, Len(w) + 1, own, others)
      BY <1>4, <1>11, <2>1, OwnInOne
    <2>4. roots = m \o a \o u
      BY <1>9, <2>2
    <2>5. \E k \in Nat : OwnAt(a, k, own, others)
      <3>1. Len(w) + 1 \in Nat
        BY <1>10
      <3> QED BY <2>3, <3>1
    <2>6. Len(roots) = Len(m) + Len(a) + Len(u)
      <3>1. a \in Seq(T)
        BY <2>3
      <3> QED BY <1>12, <2>4, <3>1, ThreeLists
    <2>7. roots \in Seq(T) /\ \E k \in Nat : OwnAt(roots, k, own, others)
      BY <1>4, <1>11, <1>12, <2>3, <2>4, <2>5, OwnAmongThree
    <2>8. Len(roots) = Len(UninstallRoots(registry)) + 1
      <3>1. Len(a) = Len(w) + 1
        BY <2>3
      <3> QED BY <1>7, <1>10, <2>6, <3>1
    <2> QED BY <2>7, <2>8
  <1>15. CASE hive = "user"
    <2>1. PICK a : a = Append(u, own)
      OBVIOUS
    <2>2. after["machine"] = m /\ after["wow"] = w /\ after["user"] = a
      BY <1>1, <1>8, <1>15, <2>1
    <2>3. a \in Seq(T) /\ Len(a) = Len(u) + 1 /\ OwnAt(a, Len(u) + 1, own, others)
      BY <1>4, <1>11, <2>1, OwnInOne
    <2>4. roots = m \o w \o a
      BY <1>9, <2>2
    <2>5. \E k \in Nat : OwnAt(a, k, own, others)
      <3>1. Len(u) + 1 \in Nat
        BY <1>10
      <3> QED BY <2>3, <3>1
    <2>6. Len(roots) = Len(m) + Len(w) + Len(a)
      <3>1. a \in Seq(T)
        BY <2>3
      <3> QED BY <1>12, <2>4, <3>1, ThreeLists
    <2>7. roots \in Seq(T) /\ \E k \in Nat : OwnAt(roots, k, own, others)
      BY <1>4, <1>11, <1>12, <2>3, <2>4, <2>5, OwnAmongThree
    <2>8. Len(roots) = Len(UninstallRoots(registry)) + 1
      <3>1. Len(a) = Len(u) + 1
        BY <2>3
      <3> QED BY <1>7, <1>10, <2>6, <3>1
    <2> QED BY <2>7, <2>8
  <1> QED BY <1>13, <1>14, <1>15

\* What the reading has found so far.
Found(T) == [priority : Nat, entry : {<<>>} \union {<<e>> : e \in T}, tie : BOOLEAN]

LEMMA EntryConsidered ==
  ASSUME NEW T, NEW best \in Found(T), NEW e \in T, NEW dir, NEW p, p = NativeExeMetadataPriority(e, dir)
  PROVE  /\ p \in 1..13 /\ (e.location = dir => p > 10) /\ (e.location # dir => p < 4)
         /\ Consider(best, e, dir) \in Found(T)
         /\ p > best.priority =>
              /\ Consider(best, e, dir).priority = p /\ Consider(best, e, dir).entry = <<e>>
              /\ Consider(best, e, dir).tie = best.tie
         /\ ~(p > best.priority) =>
              /\ Consider(best, e, dir).priority = best.priority
              /\ Consider(best, e, dir).entry = best.entry
              /\ Consider(best, e, dir).tie => best.tie \/ p = best.priority
  <1>1. p \in 1..13 /\ (e.location = dir => p > 10) /\ (e.location # dir => p < 4)
    BY DEF NativeExeMetadataPriority
  <1>2. /\ best = [priority |-> best.priority, entry |-> best.entry, tie |-> best.tie]
        /\ best.priority \in Nat /\ best.tie \in BOOLEAN
    BY DEF Found
  <1>3. PICK one : one = <<e>>
    OBVIOUS
  <1>4. CASE p > best.priority
    <2>1. Consider(best, e, dir) = [best EXCEPT !.priority = p, !.entry = one]
      BY <1>3, <1>4 DEF Consider
    <2>2. Consider(best, e, dir) = [priority |-> p, entry |-> one, tie |-> best.tie]
      BY <1>2, <2>1
    <2>3. one \in {<<>>} \union {<<f>> : f \in T}
      BY <1>3
    <2>4. p \in Nat
      BY <1>1
    <2>5. [priority |-> p, entry |-> one, tie |-> best.tie]
            \in [priority : Nat, entry : {<<>>} \union {<<f>> : f \in T}, tie : BOOLEAN]
      BY <1>2, <2>3, <2>4
    <2>6. Consider(best, e, dir) \in Found(T)
      BY <2>2, <2>5 DEF Found
    <2>7. /\ Consider(best, e, dir).priority = p /\ Consider(best, e, dir).entry = one
          /\ Consider(best, e, dir).tie = best.tie
      BY <2>2
    <2> QED BY <1>1, <1>3, <1>4, <2>6, <2>7
  <1>5. CASE ~(p > best.priority)
    <2>1. PICK tie : tie = (best.tie \/ p = best.priority)
      OBVIOUS
    <2>2. Consider(best, e, dir) = [best EXCEPT !.tie = tie]
      BY <1>5, <2>1 DEF Consider
    <2>3. Consider(best, e, dir) = [priority |-> best.priority, entry |-> best.entry, tie |-> tie]
      BY <1>2, <2>2
    <2>6. /\ Consider(best, e, dir).priority = best.priority /\ Consider(best, e, dir).entry = best.entry
          /\ Consider(best, e, dir).tie = tie
      BY <2>3
    <2>4. tie \in BOOLEAN
      BY <2>1
    <2>5. Consider(best, e, dir) \in Found(T)
      BY <1>2, <2>3, <2>4 DEF Found
    <2> QED BY <1>1, <1>5, <2>1, <2>5, <2>6
  <1> QED BY <1>4, <1>5

LEMMA EntriesAreRead ==
  ASSUME NEW T, NEW roots \in Seq(T), NEW app, NEW dir
  PROVE  /\ BestMatches(roots, app, dir)[0] = NoMatch
         /\ \A n \in 1..Len(roots) :
               BestMatches(roots, app, dir)[n] =
                  IF Candidate(roots[n], app, dir)
                  THEN Consider(BestMatches(roots, app, dir)[n - 1], roots[n], dir)
                  ELSE BestMatches(roots, app, dir)[n - 1]
  <1> DEFINE D == Found(T)
             Body(f) == [n \in Nat |-> IF n \notin DOMAIN roots THEN NoMatch
                                       ELSE IF Candidate(roots[n], app, dir) THEN Consider(f[n - 1], roots[n], dir)
                                       ELSE f[n - 1]]
             Step(n, b) == IF n + 1 \notin DOMAIN roots THEN NoMatch
                           ELSE IF Candidate(roots[n + 1], app, dir) THEN Consider(b, roots[n + 1], dir)
                           ELSE b
             step == [n \in Nat |-> [b \in D |-> Step(n, b)]]
  <1>1. NoMatch \in D
    BY DEF NoMatch, Found
  <1>2. ASSUME NEW n \in Nat, NEW b \in D PROVE Step(n, b) \in D
    <2>1. CASE n + 1 \notin DOMAIN roots
      BY <1>1, <2>1
    <2>2. CASE n + 1 \in DOMAIN roots /\ ~Candidate(roots[n + 1], app, dir)
      BY <2>2
    <2>3. CASE n + 1 \in DOMAIN roots /\ Candidate(roots[n + 1], app, dir)
      <3>1. roots[n + 1] \in T
        BY <2>3
      <3>2. Consider(b, roots[n + 1], dir) \in Found(T)
        BY <3>1, EntryConsidered
      <3> QED BY <2>3, <3>2
    <2> QED BY <2>1, <2>2, <2>3
  <1> HIDE DEF Step, D
  <1>3. step \in [Nat -> [D -> D]]
    BY <1>2
  <1>4. \A n \in Nat, b \in D : step[n][b] = Step(n, b)
    OBVIOUS
  <1> HIDE DEF step
  <1>5. PICK f \in [Nat -> D] : f[0] = NoMatch /\ \A n \in Nat : f[n + 1] = step[n][f[n]]
    <2>1. Chains(D, NoMatch, step)
      BY <1>1, <1>3, StepsCompose
    <2> QED BY <2>1 DEF Chains
  <1>6. \A n \in Nat : f[n + 1] = Step(n, f[n])
    BY <1>4, <1>5
  <1> USE DEF Step
  <1>7. f = Body(f)
    <2>1. ASSUME NEW n \in Nat PROVE f[n] = Body(f)[n]
      <3>1. CASE n = 0
        BY <1>5, <3>1
      <3>2. CASE n # 0
        <4>1. n - 1 \in Nat /\ (n - 1) + 1 = n
          BY <3>2
        <4>2. f[n] = Step(n - 1, f[n - 1])
          BY <1>6, <4>1
        <4> QED BY <4>1, <4>2
      <3> QED BY <3>1, <3>2
    <2>2. f = [n \in Nat |-> f[n]]
      OBVIOUS
    <2> QED BY <2>1, <2>2
  <1>8. BestMatches(roots, app, dir) = Body(BestMatches(roots, app, dir))
    BY <1>7, Zenon DEF BestMatches
  <1> DEFINE g == BestMatches(roots, app, dir)
  <1> HIDE DEF g
  <1>9. g = Body(g)
    BY <1>8 DEF g
  <1>10. g[0] = NoMatch
    BY <1>9
  <1>11. ASSUME NEW n \in 1..Len(roots)
         PROVE  g[n] = IF Candidate(roots[n], app, dir) THEN Consider(g[n - 1], roots[n], dir) ELSE g[n - 1]
    <2>1. n \in Nat /\ n \in DOMAIN roots
      OBVIOUS
    <2> QED BY <1>9, <2>1
  <1> QED BY <1>10, <1>11 DEF g

\* One's own entry is the best from its place on, and ties with nothing; before
\* it two others can.
OwnLeads(T, best, n, k, own) ==
    /\ best \in Found(T) /\ (best.priority > 0 => n >= 1)
    /\ n < k => best.priority < 4 /\ (best.tie => n >= 2)
    /\ n >= k => best.priority > 10 /\ best.entry = <<own>> /\ (best.tie => k >= 3)

LEMMA OwnIsFound ==
  ASSUME NEW others, NEW own, NEW app, NEW dir, NEW roots \in Seq(others \union {own}), NEW k \in Nat,
         OwnAt(roots, k, own, others), Candidate(own, app, dir), own.location = dir,
         \A e \in others : e.display = app => e.location # dir
  PROVE  OwnLeads(others \union {own}, BestMatches(roots, app, dir)[Len(roots)], Len(roots), k, own)
  <1> DEFINE g == BestMatches(roots, app, dir)
  <1>1. PICK T : T = others \union {own}
    OBVIOUS
  <1>2. g[0] = NoMatch
    BY EntriesAreRead
  <1>3. \A n \in 1..Len(roots) :
           g[n] = IF Candidate(roots[n], app, dir) THEN Consider(g[n - 1], roots[n], dir) ELSE g[n - 1]
    BY EntriesAreRead
  <1> HIDE DEF g
  <1>4. k \in 1..Len(roots) /\ roots[k] = own /\ \A j \in 1..Len(roots) : j # k => roots[j] \in others
    BY DEF OwnAt
  <1> DEFINE S == {n \in Nat : n <= Len(roots) => OwnLeads(T, g[n], n, k, own)}
  <1>5. 0 \in S
    <2>1. NoMatch \in Found(T) /\ NoMatch.priority = 0 /\ NoMatch.tie = FALSE
      BY DEF NoMatch, Found
    <2>2. 0 < k
      BY <1>4
    <2> QED BY <1>2, <2>1, <2>2 DEF OwnLeads
  <1>6. ASSUME NEW n \in Nat, n \in S PROVE n + 1 \in S
    <2> SUFFICES ASSUME n + 1 <= Len(roots) PROVE OwnLeads(T, g[n + 1], n + 1, k, own)
      OBVIOUS
    <2>1. n + 1 \in 1..Len(roots) /\ (n + 1) - 1 = n
      OBVIOUS
    <2>2. PICK best, e : best = g[n] /\ e = roots[n + 1]
      OBVIOUS
    <2>3. g[n + 1] = IF Candidate(e, app, dir) THEN Consider(best, e, dir) ELSE best
      BY <1>3, <2>1, <2>2
    <2>4. OwnLeads(T, best, n, k, own)
      BY <1>6, <2>2
    <2>5. e \in T
      BY <1>1, <2>1, <2>2
    <2>6. /\ best \in Found(T) /\ best.priority \in Nat /\ best.tie \in BOOLEAN
          /\ (best.priority > 0 => n >= 1)
          /\ n < k => best.priority < 4 /\ (best.tie => n >= 2)
          /\ n >= k => best.priority > 10 /\ best.entry = <<own>> /\ (best.tie => k >= 3)
      BY <2>4 DEF OwnLeads, Found
    <2>7. CASE ~Candidate(e, app, dir)
      <3>1. n + 1 # k
        BY <1>4, <2>2, <2>7
      <3>2. g[n + 1] = best
        BY <2>3, <2>7
      <3>3. n + 1 < k => n < k
        OBVIOUS
      <3>4. n + 1 >= k => n >= k
        BY <3>1
      <3>5. OwnLeads(T, best, n + 1, k, own)
        <4>1. best.priority > 0 => n + 1 >= 1
          OBVIOUS
        <4>2. n + 1 < k => best.priority < 4 /\ (best.tie => n + 1 >= 2)
          BY <2>6, <3>3
        <4>3. n + 1 >= k => best.priority > 10 /\ best.entry = <<own>> /\ (best.tie => k >= 3)
          BY <2>6, <3>4
        <4>4. best \in Found(T)
          BY <2>6
        <4> QED BY <4>1, <4>2, <4>3, <4>4 DEF OwnLeads
      <3> QED BY <3>2, <3>5
    <2>8. CASE Candidate(e, app, dir)
      <3>1. g[n + 1] = Consider(best, e, dir)
        BY <2>3, <2>8
      <3>2. PICK p : p = NativeExeMetadataPriority(e, dir)
        OBVIOUS
      <3>3. PICK new : new = Consider(best, e, dir)
        OBVIOUS
      <3>4. /\ p \in 1..13 /\ (e.location = dir => p > 10) /\ (e.location # dir => p < 4)
            /\ new \in Found(T)
            /\ p > best.priority => new.priority = p /\ new.entry = <<e>> /\ new.tie = best.tie
            /\ ~(p > best.priority) => /\ new.priority = best.priority /\ new.entry = best.entry
                                       /\ new.tie => best.tie \/ p = best.priority
        BY <2>5, <2>6, <3>2, <3>3, EntryConsidered
      <3>5. CASE n + 1 = k
        <4>1. e = own /\ p > 10
          BY <1>4, <2>2, <3>4, <3>5
        <4>2. p > best.priority
          BY <2>6, <3>4, <3>5, <4>1
        <4>3. new.priority > 10 /\ new.entry = <<own>> /\ (new.tie => k >= 3) /\ n + 1 >= 1
          BY <2>6, <3>4, <3>5, <4>1, <4>2
        <4>4. OwnLeads(T, new, n + 1, k, own)
          BY <3>4, <3>5, <4>3 DEF OwnLeads
        <4> QED BY <3>1, <3>3, <4>4
      <3>6. CASE n + 1 # k
        <4>1. e \in others
          BY <1>4, <2>1, <2>2, <3>6
        <4>2. p < 4
          BY <2>8, <3>4, <4>1 DEF Candidate
        <4>3. n + 1 < k => n < k /\ new.priority < 4 /\ (new.tie => n + 1 >= 2)
          BY <2>6, <3>4, <4>2
        <4>4. n + 1 >= k => new.priority > 10 /\ new.entry = <<own>> /\ (new.tie => k >= 3)
          BY <2>6, <3>4, <3>6, <4>2
        <4>5. OwnLeads(T, new, n + 1, k, own)
          BY <3>4, <4>3, <4>4 DEF OwnLeads
        <4> QED BY <3>1, <3>3, <4>5
      <3> QED BY <3>5, <3>6
    <2> QED BY <2>7, <2>8
  <1> HIDE DEF S
  <1>7. Nat \subseteq S
    BY <1>5, <1>6, AllNumbers
  <1>8. Len(roots) \in S /\ Len(roots) <= Len(roots)
    BY <1>7
  <1>9. OwnLeads(T, g[Len(roots)], Len(roots), k, own)
    BY <1>8 DEF S
  <1> QED BY <1>1, <1>9 DEF g

\* What split_switches takes with the program before it, it takes without.
LEMMA RestSplits ==
  ASSUME NEW args, NEW first, NEW rest, rest \in Seq(ToSet(rest)), args = <<first>> \o rest,
         SplitSwitches(FALSE, args)
  PROVE  SplitSwitches(FALSE, rest)
  <1> DEFINE sign(a) == [n \in DOMAIN a |-> SwitchSignature(a[n])]
  <1>1. \A i, j \in DOMAIN args : sign(args)[i] = sign(args)[j] => i = j
    BY DEF SplitSwitches, IsInjective
  <1>2. \A n \in DOMAIN rest : n + 1 \in DOMAIN args /\ args[n + 1] = rest[n] /\ n \in Nat
    OBVIOUS
  <1>3. \A n \in DOMAIN rest : sign(args)[n + 1] = sign(rest)[n]
    BY <1>2
  <1>4. ASSUME NEW i \in DOMAIN rest, NEW j \in DOMAIN rest, sign(rest)[i] = sign(rest)[j]
        PROVE  i = j
    <2>1. i + 1 = j + 1
      BY <1>1, <1>2, <1>3, <1>4
    <2> QED BY <1>2, <2>1
  <1> QED BY <1>4 DEF SplitSwitches, IsInjective

\* The program of a command is what the command begins with.
LEMMA ProgramIsFound ==
  ASSUME NEW files, NEW command, NEW program, Told(command),
         command.words \in Seq(ToSet(command.words)), program \in Seq(ToSet(program)), program # <<>>,
         Len(program) <= Len(command.words), SubSeq(command.words, 1, Len(program)) = program,
         command.quoted \in {0, Len(program)}, program \in files,
         \A n \in DOMAIN command.words : n > Len(program) => SubSeq(command.words, 1, n) \notin files
  PROVE  /\ SplitUninstallCommand(files, command) \in {<<>>, program}
         /\ ReadsWell(command, Len(program)) => SplitUninstallCommand(files, command) = program
  <1>1. PICK words, L : words = command.words /\ L = Len(program)
    OBVIOUS
  <1>2. /\ words \in Seq(ToSet(words)) /\ Len(words) \in Nat /\ DOMAIN words = 1..Len(words)
        /\ L \in Nat /\ L >= 1 /\ L <= Len(words)
    BY <1>1
  <1>3. L \in DOMAIN words
    BY <1>2
  <1>4. SubSeq(words, 1, L) = program
    BY <1>1
  <1>5. PICK I : I = {n \in DOMAIN words : SubSeq(words, 1, n) \in files}
    OBVIOUS
  <1>6. L \in I /\ \A n \in I : n <= L
    <2>1. L \in DOMAIN words /\ SubSeq(words, 1, L) \in files
      BY <1>4, <1>3
    <2>2. ASSUME NEW n \in DOMAIN words, n > L PROVE SubSeq(words, 1, n) \notin files
      BY <1>1, <2>2
    <2>3. ASSUME NEW n \in I PROVE n <= L
      <3>1. n \in DOMAIN words /\ SubSeq(words, 1, n) \in files
        BY <1>5
      <3>2. n \in Nat /\ ~(n > L)
        BY <1>2, <2>2, <3>1
      <3> QED BY <1>2, <3>2
    <2> QED BY <1>5, <2>1, <2>3
  <1>7. Max({0} \union I) = L
    <2>1. I \subseteq 1..Len(words)
      BY <1>2, <1>5
    <2>2. IsFiniteSet(1..Len(words))
      BY <1>2, FS_Interval
    <2>3. IsFiniteSet({0} \union I)
      <3>1. IsFiniteSet(I)
        BY <2>1, <2>2, FS_Subset
      <3>2. IsFiniteSet(I \union {0}) /\ I \union {0} = {0} \union I
        BY <3>1, FS_AddElement
      <3> QED BY <3>2
    <2>4. {0} \union I \in SUBSET Nat /\ {0} \union I # {}
      BY <2>1
    <2>5. Max({0} \union I) \in {0} \union I /\ \A i \in {0} \union I : i <= Max({0} \union I)
      BY <2>3, <2>4, LargestNumber
    <2>6. L <= Max({0} \union I) /\ Max({0} \union I) \in Nat
      BY <1>6, <2>4, <2>5
    <2> QED BY <1>2, <1>6, <2>5, <2>6
  <1>8. LongestExistingFilePrefix(files, words) = L
    BY <1>5, <1>7 DEF LongestExistingFilePrefix
  <1>9. PICK rest, args : rest = Rest(words, L) /\ args = Arguments(words, L)
    OBVIOUS
  <1>10. PICK taken : taken = IF command.quoted > 0 THEN SplitSwitches(1 \in command.open, args)
                              ELSE SplitSwitches(L + 1 \in command.open, rest)
    OBVIOUS
  <1>11. SplitUninstallCommand(files, command) = IF taken THEN program ELSE <<>>
    <2>1. PICK size : size = IF command.quoted > 0 THEN command.quoted
                             ELSE IF LongestExistingFilePrefix(files, words) > 0
                             THEN LongestExistingFilePrefix(files, words) ELSE 1
      OBVIOUS
    <2>2. size = L
      BY <1>1, <1>2, <1>8, <2>1
    <2>3. ~(LongestExistingFilePrefix(files, words) = 0)
      BY <1>2, <1>8
    <2>4. SplitUninstallCommand(files, command) =
             IF /\ Told(command)
                /\ IF command.quoted > 0 \/ LongestExistingFilePrefix(files, words) = 0
                   THEN SplitSwitches(1 \in command.open, Arguments(words, size))
                   ELSE SplitSwitches(size + 1 \in command.open, Rest(words, size))
             THEN SubSeq(words, 1, size) ELSE <<>>
      BY <1>1, <2>1, Zenon DEF SplitUninstallCommand
    <2> QED BY <1>9, <1>10, <1>4, <2>2, <2>3, <2>4
  <1>12. ASSUME ReadsWell(command, Len(program)) PROVE taken
    <2>1. command.open = {} /\ SplitSwitches(FALSE, args)
      BY <1>1, <1>9, <1>12 DEF ReadsWell, SplitSwitches
    <2>2. args = <<program>> \o rest
      BY <1>4, <1>9 DEF Arguments
    <2>3. rest \in Seq(ToSet(rest))
      <3>1. SubSeq(words, L + 1, Len(words)) \in Seq(ToSet(words))
        BY <1>2
      <3>2. PICK m \in Nat : DOMAIN SubSeq(words, L + 1, Len(words)) = 1..m
        BY <3>1
      <3>3. rest = [n \in 1..m |-> <<SubSeq(words, L + 1, Len(words))[n]>>]
        BY <1>9, <3>2 DEF Rest, Singly
      <3>4. rest = [n \in 1..m |-> rest[n]] /\ DOMAIN rest = 1..m
        BY <3>3
      <3>5. \A n \in 1..m : rest[n] \in ToSet(rest)
        BY <3>4 DEF ToSet
      <3> QED BY <3>2, <3>4, <3>5
    <2>4. SplitSwitches(FALSE, rest)
      BY <2>1, <2>2, <2>3, RestSplits
    <2>5. (1 \in command.open) = FALSE /\ (L + 1 \in command.open) = FALSE
      BY <2>1
    <2> QED BY <1>10, <2>1, <2>4, <2>5
  <1> QED BY <1>1, <1>11, <1>12

\* Where the installer says that the application is, its entry, and the answer.
Location(x) ==
    LET args == BuildInstallArgs(x.installer, x.dir)
        told == {a.value : a \in {a \in Range(args) : a.assigned /\ a.name \in Range(DirSwitch)}}
    IN IF ~x.published THEN <<>> ELSE IF told = {} THEN x.place ELSE CHOOSE d \in told : TRUE
OwnEntry(x) ==
    [key |-> x.app, display |-> x.app, location |-> Location(x), quiet |-> x.quiet, plain |-> x.plain]
AfterInstall(x) == [x.registry EXCEPT ![x.hive] = Append(@, OwnEntry(x))]
Runs(x) == RunUninstallCommand(x.files, CaptureNativeExeMetadata(AfterInstall(x), x.app, x.dir))
RemovalRefused(x) == ~ValidInstallDir(x.dir) \/ ~ValidPackageName(x.app) \/ ArgsRefused(x.installer)
RemovalAnswer(x) ==
    IF RemovalRefused(x) THEN [is |-> "refused"]
    ELSE [is |-> "uninstaller", location |-> Location(x), runs |-> Runs(x)]

LEMMA OwnRuns ==
  ASSUME NEW x \in Executables, Location(x) = x.dir, Told(x.quiet) \/ Told(x.plain),
         x.program \in x.files
  PROVE  /\ Runs(x) \in {<<>>, x.program}
         /\ Len(UninstallRoots(x.registry)) < 2 /\ ReadsWell(UninstallCommand(x), Len(x.program)) =>
               Runs(x) = x.program
  <1>1. PICK own, others, registry, hive, app, dir :
           /\ own = OwnEntry(x) /\ others = Others(registry) /\ registry = x.registry
           /\ hive = x.hive /\ app = x.app /\ dir = x.dir
    OBVIOUS
  <1>2. /\ DOMAIN registry = {"machine", "wow", "user"} /\ hive \in DOMAIN registry
        /\ \A h \in DOMAIN registry :
              /\ registry[h] \in Seq(ToSet(registry[h]))
              /\ \A e \in ToSet(registry[h]) : e.display = app => e.location # dir
        /\ app \in Seq(ToSet(app))
    BY <1>1, ExecutableAssumption
  <1>3. \A e \in others : e.display = app => e.location # dir
    BY <1>1, <1>2 DEF Others
  <1>4. PICK roots : roots = UninstallRoots([registry EXCEPT ![hive] = Append(@, own)])
    OBVIOUS
  <1>5. /\ roots \in Seq(others \union {own}) /\ Len(roots) = Len(UninstallRoots(registry)) + 1
        /\ \E k \in Nat : OwnAt(roots, k, own, others)
    <2>1. /\ DOMAIN registry = {"machine", "wow", "user"} /\ hive \in DOMAIN registry
          /\ \A h \in DOMAIN registry : registry[h] \in Seq(ToSet(registry[h]))
      BY <1>2
    <2>2. /\ roots \in Seq(Others(registry) \union {own})
          /\ Len(roots) = Len(UninstallRoots(registry)) + 1
          /\ \E k \in Nat : OwnAt(roots, k, own, Others(registry))
      BY <1>4, <2>1, OwnIsListed
    <2> QED BY <1>1, <2>2
  <1>6. PICK k \in Nat : OwnAt(roots, k, own, others)
    BY <1>5
  <1>7. own.display = app /\ own.location = dir /\ own.quiet = x.quiet /\ own.plain = x.plain
    BY <1>1 DEF OwnEntry
  <1>8. Candidate(own, app, dir)
    <2>1. SubSeq(app, 0 + 1, 0 + Len(app)) = app /\ 0 \in 0..Len(app)
      BY <1>2
    <2>2. UninstallEntryMatches(own, app)
      BY <1>7, <2>1 DEF UninstallEntryMatches
    <2> QED BY <1>7, <2>2 DEF Candidate
  <1>9. PICK best : best = BestMatches(roots, app, dir)[Len(roots)]
    OBVIOUS
  <1>10. OwnLeads(others \union {own}, best, Len(roots), k, own)
    BY <1>3, <1>5, <1>6, <1>7, <1>8, <1>9, OwnIsFound
  <1>11. k \in 1..Len(roots) /\ Len(roots) \in Nat
    BY <1>5, <1>6 DEF OwnAt
  <1>12. best.entry = <<own>> /\ (best.tie => k >= 3)
    BY <1>10, <1>11 DEF OwnLeads
  <1>13. PICK command : command = UninstallCommand(x)
    OBVIOUS
  <1>14. command \in {x.quiet, x.plain} /\ Told(command) /\ UninstallCommand(own) = command
    BY <1>7, <1>13 DEF UninstallCommand
  <1>15. PICK split : split = SplitUninstallCommand(x.files, command)
    OBVIOUS
  <1>16. split \in {<<>>, x.program} /\ (ReadsWell(command, Len(x.program)) => split = x.program)
    <2>1. /\ x.program \in Seq(ToSet(x.program)) /\ x.program # <<>>
          /\ command.words \in Seq(ToSet(command.words))
          /\ Len(x.program) <= Len(command.words) /\ SubSeq(command.words, 1, Len(x.program)) = x.program
          /\ command.quoted \in {0, Len(x.program)}
          /\ \A n \in DOMAIN command.words : n > Len(x.program) => SubSeq(command.words, 1, n) \notin x.files
      BY <1>14, ExecutableAssumption
    <2> QED BY <1>14, <1>15, <2>1, ProgramIsFound
  <1>17. Runs(x) = IF best.tie THEN <<>> ELSE split
    <2>1. AfterInstall(x) = [registry EXCEPT ![hive] = Append(@, own)]
      BY <1>1 DEF AfterInstall
    <2>2. CaptureNativeExeMetadata(AfterInstall(x), app, dir) = IF best.tie THEN <<>> ELSE <<own>>
      BY <1>4, <1>9, <1>12, <2>1 DEF CaptureNativeExeMetadata
    <2>3. Runs(x) = RunUninstallCommand(x.files, IF best.tie THEN <<>> ELSE <<own>>)
      BY <1>1, <2>2 DEF Runs
    <2>4. CASE best.tie
      <3>1. Runs(x) = RunUninstallCommand(x.files, <<>>)
        BY <2>3, <2>4
      <3>2. Runs(x) = <<>>
        BY <3>1 DEF RunUninstallCommand
      <3> QED BY <2>4, <3>2
    <2>5. CASE ~best.tie
      <3>1. Runs(x) = RunUninstallCommand(x.files, <<own>>)
        BY <2>3, <2>5
      <3>2. <<own>> # <<>> /\ Head(<<own>>) = own
        OBVIOUS
      <3>3. Runs(x) = split
        BY <1>14, <1>15, <3>1, <3>2 DEF RunUninstallCommand
      <3> QED BY <2>5, <3>3
    <2> QED BY <2>4, <2>5
  <1>18. Len(UninstallRoots(registry)) < 2 => ~best.tie
    BY <1>5, <1>11, <1>12
  <1> QED BY <1>1, <1>13, <1>16, <1>17, <1>18

RemovalInv ==
    Asked("uninstaller") =>
       question.about \in Executables /\ (answer = NoAnswer \/ answer = RemovalAnswer(question.about))

LEMMA RemovalImplies == RemovalInv => OwnCommandRuns
  <1> SUFFICES ASSUME RemovalInv, Asked("uninstaller"), answer # NoAnswer,
                      answer.is = "uninstaller", answer.location = question.about.dir,
                      Told(question.about.quiet) \/ Told(question.about.plain),
                      question.about.program \in question.about.files
               PROVE  /\ answer.runs \in {<<>>, question.about.program}
                      /\ Len(UninstallRoots(question.about.registry)) < 2
                           /\ ReadsWell(UninstallCommand(question.about), Len(question.about.program)) =>
                            answer.runs = question.about.program
    BY DEF OwnCommandRuns
  <1>1. PICK x \in Executables : x = question.about /\ answer = RemovalAnswer(x)
    BY DEF RemovalInv
  <1>2. ~RemovalRefused(x)
    BY <1>1 DEF RemovalAnswer
  <1>3. answer.location = Location(x) /\ answer.runs = Runs(x)
    BY <1>1, <1>2 DEF RemovalAnswer
  <1> QED BY <1>1, <1>3, OwnRuns

LEMMA RemovalStays == RemovalInv /\ [Next]_vars => RemovalInv'
  <1> SUFFICES ASSUME RemovalInv, [Next]_vars PROVE RemovalInv'
    OBVIOUS
  <1>1. question' = question /\ (UNCHANGED answer \/ ~Asked("uninstaller") \/ AnswerUninstaller)
    BY DEF Next, vars, Try, Scan, Use, AnswerInstaller, AnswerCommands, AnswerVersion,
           AnswerManifest, AnswerSetting, AnswerUninstaller, Asked
  <1>2. ASSUME AnswerUninstaller PROVE answer' = RemovalAnswer(question.about)
    BY <1>2, Zenon DEF AnswerUninstaller, RemovalAnswer, RemovalRefused, Runs, AfterInstall, OwnEntry, Location
  <1> QED BY <1>1, <1>2 DEF RemovalInv, Asked

(* The entry that an installer publishes for the directory it was told to  *)
(* use outranks every other entry of its name, so that the program that is *)
(* run at the removal is the one of its command, or none.                  *)
THEOREM OwnCommandIsRun == Spec => []OwnCommandRuns
  <1>1. Init => RemovalInv
    BY DEF Init, RemovalInv, Asked
  <1>2. Spec => []RemovalInv
    <2>1. RemovalInv /\ [Next]_vars => RemovalInv'
      BY RemovalStays
    <2> QED BY <1>1, <2>1, PTL DEF Spec
  <1> QED BY <1>2, RemovalImplies, PTL
================================================================================
