------------------------------ MODULE DriftProofs ------------------------------
(***************************************************************************)
(* For any names, catalog entries, files, versions and changes: repair     *)
(* works on what its report named or that name may be taken for, with the  *)
(* user's consent, no package gets files of a version that its row does    *)
(* not say or of an entry that its name cannot be taken for, and a repair  *)
(* that ran to its end leaves nothing for the next but the incurable.      *)
(***************************************************************************)
EXTENDS Drift, TLAPS

OnTarget == {"resolve", "fallback", "fetch", "copy", "find", "uninstall", "install"}
States == {"idle", "orphans", "clean", "unclean", "restores", "reinstalls", "done", "failed"}
            \union OnTarget
Jobs == [state : States, mode : Modes, orphans : SUBSET Packages, restores : SUBSET Packages,
         reinstalls : SUBSET Packages, reported : SUBSET Packages,
         lost : [Packages -> SUBSET Files], target : Packages \union {None},
         pick : Entries \union {None}, version : Versions \union {None}, stage : Trees,
         left : SUBSET Files, agreed : BOOLEAN, declined : BOOLEAN]

StoreType ==
  /\ catalog \in [Entries -> Versions \union {None}]
  /\ row \in [Packages -> Rows \union {None}]
  /\ tree \in [Packages -> [Homes -> Trees]]
  /\ snapshot \subseteq Installed
  /\ changes \in 0..MaxChanges

(* The plan names packages of the report, each in one group.               *)
PlanGood ==
  /\ job.restores \intersect job.reinstalls = {}
  /\ job.orphans \union job.restores \union job.reinstalls \subseteq job.reported

(* The package that repair is at: from the report, agreed to, found in the  *)
(* catalog under a name that may stand for it, and, where files are         *)
(* restored, in the version of its row.                                     *)
TargetGood ==
  /\ job.state \in OnTarget =>
       job.target \in job.reported \ (job.restores \union job.reinstalls)
  /\ job.state \in OnTarget \ {"fallback"} => job.agreed = TRUE
  /\ job.state \in OnTarget \ {"resolve", "find"} => job.pick \in Candidates(job.target)
  /\ job.state \in {"fetch", "copy"} =>
       job.target \in Installed /\ job.version = row[job.target].version
  /\ job.state = "copy" => job.stage \in {WholeTree(job.pick, job.version), EmptyTree}

Published == \A e \in Entries \ Withdrawable : catalog[e] # None

Inv == StoreType /\ job \in Jobs /\ PlanGood /\ TargetGood /\ Published /\ FilesAreTheirRows

LEMMA InvTypes == Inv => TypeOK
  BY DEF Inv, StoreType, Jobs, PlanGood, TypeOK, Rows
--------------------------------------------------------------------------------
(* What repair does next, and how it ends, keep the plan and the report.   *)
LEMMA OnwardsJob ==
  ASSUME NEW j \in Jobs
  PROVE  /\ Onwards(j) \in Jobs
         /\ Onwards(j).state \in {"orphans", "restores", "reinstalls", "done"}
         /\ Onwards(j).orphans = j.orphans /\ Onwards(j).restores = j.restores
         /\ Onwards(j).reinstalls = j.reinstalls /\ Onwards(j).reported = j.reported
  <1> DEFINE s == IF j.orphans # {} THEN "orphans"
                  ELSE IF j.restores # {} THEN "restores"
                  ELSE IF j.reinstalls # {} THEN "reinstalls" ELSE "done"
  <1>1. s \in {"orphans", "restores", "reinstalls", "done"}
    OBVIOUS
  <1> HIDE DEF s
  <1>2. Onwards(j) = [j EXCEPT !.state = s, !.target = None, !.pick = None, !.version = None,
                              !.stage = None, !.left = {}, !.agreed = FALSE]
    BY DEF Onwards, s
  <1>3. s \in States /\ None \in Trees
    BY <1>1 DEF States, Trees
  <1> QED BY <1>1, <1>2, <1>3 DEF Jobs

LEMMA FailedJob ==
  ASSUME NEW j \in Jobs
  PROVE  /\ Failed(j) \in Jobs /\ Failed(j).state = "failed"
         /\ Failed(j).orphans = j.orphans /\ Failed(j).restores = j.restores
         /\ Failed(j).reinstalls = j.reinstalls /\ Failed(j).reported = j.reported
  BY DEF Failed, Jobs, States, Trees

LEMMA IdleJob == Idle \in Jobs
  BY DEF Idle, Jobs, States, Modes, Trees

(* A step that leaves the store alone has only the job to answer for.      *)
LEMMA StoreUntouched ==
  ASSUME Inv, UNCHANGED store
  PROVE  StoreType' /\ Published' /\ FilesAreTheirRows' /\ Installed' = Installed
  BY DEF Inv, store, StoreType, Published, FilesAreTheirRows, Legitimate, Installed

(* Between packages only the plan matters.                                 *)
LEMMA PlanOnly ==
  ASSUME Inv, UNCHANGED store, job' \in Jobs, job'.state \notin OnTarget,
         job'.restores \subseteq job.restores, job'.reinstalls \subseteq job.reinstalls,
         job'.orphans \subseteq job.orphans, job'.reported = job.reported
  PROVE  Inv'
  <1>1. PlanGood'
    BY StoreUntouched DEF Inv, PlanGood
  <1>2. TargetGood'
    BY DEF TargetGood, OnTarget
  <1> QED BY <1>1, <1>2, StoreUntouched DEF Inv

(* So it is when the step ends in Onwards or Failed.                       *)
LEMMA PlanOnwards ==
  ASSUME Inv, UNCHANGED store, NEW j \in Jobs, job' \in {Onwards(j), Failed(j)},
         j.restores \subseteq job.restores, j.reinstalls \subseteq job.reinstalls,
         j.orphans \subseteq job.orphans, j.reported = job.reported
  PROVE  Inv'
  BY PlanOnly, OnwardsJob, FailedJob DEF OnTarget

LEMMA IdleGood == ASSUME Inv, UNCHANGED store, job' = Idle PROVE Inv'
  BY PlanOnly, IdleJob, StoreUntouched DEF Idle, Inv, PlanGood, TargetGood, OnTarget
--------------------------------------------------------------------------------
LEMMA HomeType == ASSUME NEW p, NEW e PROVE HomeOf(p, e) \in Homes
  BY DEF HomeOf, Homes

LEMMA NewRowType ==
  ASSUME NEW p, NEW v \in Versions, NEW e \in EngineKinds
  PROVE  NewRow(p, v, e) \in Rows /\ NewRow(p, v, e).version = v /\ NewRow(p, v, e) # None
  BY HomeType, NoneAssumption DEF NewRow, Rows

(* A new install has its own files, and no others.                         *)
LEMMA NewTrees ==
  ASSUME NEW p \in Entries, NEW v \in Versions, NEW e
  PROVE  /\ TreesOf(p, v, e) \in [Homes -> Trees]
         /\ \A home \in Homes : TreesOf(p, v, e)[home] # None =>
              \A f \in Files : TreesOf(p, v, e)[home][f] \in {None, Cut, <<p, v>>}
  <1>1. WholeTree(p, v) \in Trees /\ EmptyTree \in Trees /\ None \in Trees
    BY DEF WholeTree, EmptyTree, Trees, Contents
  <1>2. /\ \A f \in Files : WholeTree(p, v)[f] = <<p, v>>
        /\ \A f \in Files : EmptyTree[f] = None
    BY DEF WholeTree, EmptyTree
  <1>3. \E a, b \in {None, EmptyTree, WholeTree(p, v)} : TreesOf(p, v, e) = [here |-> a, away |-> b]
    BY DEF TreesOf
  <1>4. PICK a, b \in {None, EmptyTree, WholeTree(p, v)} :
           TreesOf(p, v, e) = [here |-> a, away |-> b]
    BY <1>3
  <1>5. a \in Trees /\ b \in Trees
    BY <1>1
  <1>6. TreesOf(p, v, e) \in [Homes -> Trees]
    BY <1>4, <1>5 DEF Homes
  <1>7. ASSUME NEW tr \in {None, EmptyTree, WholeTree(p, v)}, tr # None, NEW f \in Files
        PROVE  tr[f] \in {None, Cut, <<p, v>>}
    BY <1>2, <1>7
  <1>8. ASSUME NEW home \in Homes
        PROVE  TreesOf(p, v, e)[home] \in {a, b}
    BY <1>4 DEF Homes
  <1> QED BY <1>4, <1>6, <1>7, <1>8

LEMMA InitGood == Init => Inv
  <1> SUFFICES ASSUME Init PROVE Inv
    OBVIOUS
  <1>1. PICK first \in [Packages -> {None} \union (Entries \X Versions \X EngineKinds)] :
           /\ \A p \in Packages : first[p] # None => first[p][1] \in Own(p)
           /\ row = [p \in Packages |->
                       IF first[p] = None THEN None
                       ELSE NewRow(first[p][1], first[p][2], first[p][3])]
           /\ \E stray \in SUBSET {p \in Packages : first[p] = None} :
                tree = [p \in Packages |->
                          IF first[p] # None THEN TreesOf(first[p][1], first[p][2], first[p][3])
                          ELSE [here |-> IF p \in stray THEN EmptyTree ELSE None, away |-> None]]
           /\ snapshot = {p \in Packages : first[p] # None /\ first[p][3] = "msi"}
    BY DEF Init
  <1>2. PICK stray \in SUBSET {p \in Packages : first[p] = None} :
                tree = [p \in Packages |->
                          IF first[p] # None THEN TreesOf(first[p][1], first[p][2], first[p][3])
                          ELSE [here |-> IF p \in stray THEN EmptyTree ELSE None, away |-> None]]
    BY <1>1
  <1>3. ASSUME NEW p \in Packages, first[p] # None
        PROVE  /\ first[p][1] \in Entries /\ first[p][2] \in Versions /\ first[p][3] \in EngineKinds
               /\ first[p][1] \in Candidates(p)
    BY <1>1, <1>3 DEF Candidates
  <1>4. row \in [Packages -> Rows \union {None}]
    BY <1>1, <1>3, NewRowType
  <1>5. ASSUME NEW p \in Packages
        PROVE  tree[p] \in [Homes -> Trees]
    <2>1. CASE first[p] # None
      BY <1>2, <1>3, <2>1, NewTrees
    <2>2. CASE first[p] = None
      <3>1. EmptyTree \in Trees /\ None \in Trees
        BY DEF EmptyTree, Trees
      <3> QED BY <1>2, <2>2, <3>1 DEF Homes
    <2> QED BY <2>1, <2>2
  <1>6. tree \in [Packages -> [Homes -> Trees]]
    BY <1>2, <1>5
  <1>7. snapshot \subseteq Installed
    BY <1>1, <1>3, NewRowType DEF Installed
  <1>8. FilesAreTheirRows
    <2> SUFFICES ASSUME NEW p \in Installed, NEW home \in Homes, tree[p][home] # None,
                        NEW f \in Files
                 PROVE  tree[p][home][f] \in Legitimate(p)
      BY DEF FilesAreTheirRows
    <2>1. p \in Packages /\ first[p] # None
      BY <1>1 DEF Installed
    <2>2. /\ tree[p] = TreesOf(first[p][1], first[p][2], first[p][3])
          /\ row[p].version = first[p][2]
      BY <1>1, <1>2, <1>3, <2>1, NewRowType
    <2>3. tree[p][home][f] \in {None, Cut, <<first[p][1], first[p][2]>>}
      BY <1>3, <2>1, <2>2, NewTrees
    <2> QED BY <1>3, <2>1, <2>2, <2>3 DEF Legitimate
  <1>9. catalog \in [Entries -> Versions \union {None}] /\ Published /\ changes \in 0..MaxChanges
    BY NoneAssumption, DriftAssumption DEF Init, Published
  <1>10. job \in Jobs /\ PlanGood /\ TargetGood
    BY IdleJob DEF Init, Idle, PlanGood, TargetGood, OnTarget
  <1> QED BY <1>4, <1>6, <1>7, <1>8, <1>9, <1>10 DEF Inv, StoreType
--------------------------------------------------------------------------------
(* The groups and their prompts.                                           *)
LEMMA StartGood == ASSUME Inv, StartRepair PROVE Inv'
  <1>1. UNCHANGED store
    BY DEF StartRepair
  <1>2. OrphanDirs \subseteq Packages /\ Restores \subseteq Installed
        /\ Reinstalls \subseteq Installed \ Restores /\ Installed \subseteq Packages
        /\ [p \in Packages |-> LostFiles(p)] \in [Packages -> SUBSET Files]
    BY DEF OrphanDirs, Restores, Reinstalls, Installed, LostFiles
  <1>3. PICK mode \in Modes :
          job' = Onwards([Idle EXCEPT !.mode = mode, !.orphans = OrphanDirs,
                            !.restores = Restores, !.reinstalls = Reinstalls,
                            !.reported = OrphanDirs \union Restores \union Reinstalls,
                            !.lost = [p \in Packages |-> LostFiles(p)]])
    BY DEF StartRepair
  <1> DEFINE j == [Idle EXCEPT !.mode = mode, !.orphans = OrphanDirs,
                      !.restores = Restores, !.reinstalls = Reinstalls,
                      !.reported = OrphanDirs \union Restores \union Reinstalls,
                      !.lost = [p \in Packages |-> LostFiles(p)]]
  <1>4. /\ j \in Jobs /\ j.orphans = OrphanDirs /\ j.restores = Restores
        /\ j.reinstalls = Reinstalls /\ j.reported = OrphanDirs \union Restores \union Reinstalls
    BY <1>2, IdleJob DEF Jobs, Idle
  <1> HIDE DEF j
  <1>5. job' = Onwards(j)
    BY <1>3 DEF j
  <1>6. PlanGood' /\ TargetGood' /\ job' \in Jobs
    BY <1>1, <1>2, <1>4, <1>5, OnwardsJob, StoreUntouched DEF PlanGood, TargetGood, OnTarget
  <1> QED BY <1>1, <1>6, StoreUntouched DEF Inv

(* Only the low risk is approved without the user's word.                  *)
LEMMA Asked ==
  ASSUME NEW group, NEW agree, NEW decline, Ask(group, agree, decline)
  PROVE  \/ job' = decline \/ job' = [agree EXCEPT !.agreed = TRUE]
         \/ group = LowRisk /\ job' = [agree EXCEPT !.agreed = FALSE]
  BY DEF Ask, Approved

LEMMA AskOrphansGood == ASSUME Inv, AskOrphans PROVE Inv'
  <1> DEFINE a == [job EXCEPT !.state = "clean"]
             d == [job EXCEPT !.orphans = {}, !.declined = TRUE]
  <1>1. UNCHANGED store /\ Ask("orphans", a, Onwards(d))
    BY DEF AskOrphans
  <1>2. job \in Jobs
    BY DEF Inv
  <1>3. CASE job' = Onwards(d)
    <2>1. d \in Jobs /\ d.orphans = {} /\ d.restores = job.restores
          /\ d.reinstalls = job.reinstalls /\ d.reported = job.reported
      BY <1>2 DEF Jobs
    <2> HIDE DEF d
    <2> QED BY <1>1, <1>3, <2>1, PlanOnwards
  <1>4. CASE \E b \in BOOLEAN : job' = [a EXCEPT !.agreed = b]
    <2>1. PICK b \in BOOLEAN : job' = [a EXCEPT !.agreed = b]
      BY <1>4
    <2>2. /\ job' \in Jobs /\ job'.state = "clean" /\ job'.restores = job.restores
          /\ job'.reinstalls = job.reinstalls /\ job'.orphans = job.orphans
          /\ job'.reported = job.reported
      BY <1>2, <2>1 DEF Jobs, States
    <2> QED BY <1>1, <2>2, PlanOnly DEF OnTarget
  <1> QED BY <1>1, <1>3, <1>4, Asked

(* A step that changes the tree of one package in one home.                *)
LEMMA TreeStep ==
  ASSUME Inv, NEW p \in Packages, NEW home \in Homes, NEW t \in Trees,
         tree' = [tree EXCEPT ![p][home] = t]
  PROVE  /\ tree' \in [Packages -> [Homes -> Trees]]
         /\ \A q \in Packages : \A h \in Homes :
               tree'[q][h] = IF q = p /\ h = home THEN t ELSE tree[q][h]
  <1>1. tree \in [Packages -> [Homes -> Trees]]
    BY DEF Inv, StoreType
  <1>2. tree[p] \in [Homes -> Trees]
    BY <1>1
  <1>3. [tree[p] EXCEPT ![home] = t] \in [Homes -> Trees]
    BY <1>2
  <1>4. tree'[p] = [tree[p] EXCEPT ![home] = t]
    BY <1>1
  <1>5. \A q \in Packages \ {p} : tree'[q] = tree[q]
    BY <1>1
  <1>6. DOMAIN tree' = Packages /\ tree' = [q \in Packages |-> tree'[q]]
    BY <1>1
  <1>7. tree' \in [Packages -> [Homes -> Trees]]
    BY <1>1, <1>3, <1>4, <1>5, <1>6
  <1> QED BY <1>2, <1>4, <1>5, <1>7

LEMMA HereStep ==
  ASSUME Inv, NEW p \in Packages, NEW t \in Trees, tree' = [tree EXCEPT ![p].here = t]
  PROVE  /\ tree' \in [Packages -> [Homes -> Trees]]
         /\ tree'[p]["here"] = t
         /\ \A h \in Homes \ {"here"} : tree'[p][h] = tree[p][h]
         /\ \A q \in Packages \ {p} : tree'[q] = tree[q]
  <1>1. tree \in [Packages -> [Homes -> Trees]] /\ tree[p] \in [Homes -> Trees]
        /\ "here" \in Homes
    BY DEF Inv, StoreType, Homes
  <1>2. tree'[p] = [tree[p] EXCEPT !["here"] = t]
    BY <1>1
  <1>3. tree'[p] \in [Homes -> Trees] /\ tree'[p]["here"] = t
        /\ \A h \in Homes \ {"here"} : tree'[p][h] = tree[p][h]
    BY <1>1, <1>2
  <1>4. \A q \in Packages \ {p} : tree'[q] = tree[q]
    BY <1>1
  <1>5. tree' = [q \in Packages |-> tree'[q]]
    BY <1>1
  <1> QED BY <1>1, <1>3, <1>4, <1>5

LEMMA CleanOrphanGood == ASSUME Inv, CleanOrphan PROVE Inv'
  <1>1. PICK p \in job.orphans :
          /\ tree' = [tree EXCEPT ![p].here = None] \/ UNCHANGED tree
          /\ job' \in {[job EXCEPT !.orphans = @ \ {p}],
                       [job EXCEPT !.orphans = @ \ {p}, !.state = "unclean"]}
    BY DEF CleanOrphan
  <1>2. UNCHANGED <<catalog, row, snapshot, changes>> /\ job.state \in {"clean", "unclean"}
    BY DEF CleanOrphan
  <1>3. job \in Jobs /\ p \in Packages
    BY DEF Inv, Jobs
  <1>4. /\ job' \in Jobs /\ job'.state \in {"clean", "unclean"}
        /\ job'.restores = job.restores /\ job'.reinstalls = job.reinstalls
        /\ job'.orphans \subseteq job.orphans /\ job'.reported = job.reported
    <2>1. CASE job' = [job EXCEPT !.orphans = @ \ {p}]
      BY <1>2, <1>3, <2>1 DEF Jobs
    <2>2. CASE job' = [job EXCEPT !.orphans = @ \ {p}, !.state = "unclean"]
      BY <1>3, <2>2 DEF Jobs, States
    <2> QED BY <1>1, <2>1, <2>2
  <1>5. /\ tree' \in [Packages -> [Homes -> Trees]]
        /\ \A q \in Packages : \A home \in Homes : tree'[q][home] \in {tree[q][home], None}
    <2>1. CASE UNCHANGED tree
      BY <2>1 DEF Inv, StoreType
    <2>2. CASE tree' = [tree EXCEPT ![p].here = None]
      <3> QED BY <1>3, <2>2, HereStep DEF Trees
    <2> QED BY <1>1, <2>1, <2>2
  <1>7. FilesAreTheirRows'
    BY <1>2, <1>5 DEF Inv, FilesAreTheirRows, Legitimate, Installed
  <1>8. StoreType' /\ Published' /\ PlanGood'
    BY <1>2, <1>4, <1>5 DEF Inv, StoreType, Published, PlanGood, Installed
  <1>9. TargetGood'
    BY <1>4 DEF TargetGood, OnTarget
  <1> QED BY <1>4, <1>7, <1>8, <1>9 DEF Inv

LEMMA EndOrphansGood == ASSUME Inv, EndOrphans PROVE Inv'
  BY PlanOnwards DEF EndOrphans, Inv

(* A package leaves its group when its turn comes.                         *)
LEMMA TurnGood ==
  ASSUME Inv, UNCHANGED store, NEW p \in job.reported, p \in Packages,
         NEW state \in {"resolve", "find"},
         job' \in Jobs, job'.state = state, job'.target = p, job'.agreed = TRUE,
         job'.restores \subseteq job.restores \ {p},
         job'.reinstalls \subseteq job.reinstalls \ {p},
         job'.orphans = job.orphans, job'.reported = job.reported
  PROVE  Inv'
  <1>1. PlanGood'
    BY StoreUntouched DEF Inv, PlanGood
  <1>2. TargetGood'
    BY StoreUntouched DEF TargetGood, OnTarget
  <1> QED BY <1>1, <1>2, StoreUntouched DEF Inv

LEMMA AskRestoreGood == ASSUME Inv, AskRestore PROVE Inv'
  <1>1. PICK p \in job.restores :
          Ask("restores",
              [job EXCEPT !.state = "resolve", !.target = p, !.restores = @ \ {p}],
              Onwards([job EXCEPT !.restores = @ \ {p}, !.declined = TRUE]))
    BY DEF AskRestore
  <1> DEFINE a == [job EXCEPT !.state = "resolve", !.target = p, !.restores = @ \ {p}]
             d == [job EXCEPT !.restores = @ \ {p}, !.declined = TRUE]
  <1>2. /\ UNCHANGED store /\ job \in Jobs /\ p \in job.reported
        /\ p \notin job.reinstalls /\ p \in Packages
    BY DEF AskRestore, Inv, PlanGood, Jobs
  <1>3. CASE job' = Onwards(d)
    <2>1. d \in Jobs /\ d.restores \subseteq job.restores /\ d.orphans = job.orphans
          /\ d.reinstalls = job.reinstalls /\ d.reported = job.reported
      BY <1>2 DEF Jobs
    <2> HIDE DEF d
    <2> QED BY <1>2, <1>3, <2>1, PlanOnwards
  <1>4. CASE job' = [a EXCEPT !.agreed = TRUE]
    <2>1. /\ job' \in Jobs /\ job'.state = "resolve" /\ job'.restores = job.restores \ {p}
          /\ job'.reinstalls = job.reinstalls /\ job'.orphans = job.orphans
          /\ job'.reported = job.reported /\ job'.target = p /\ job'.agreed = TRUE
      BY <1>2, <1>4 DEF Jobs, States, OnTarget
    <2> QED BY <1>2, <2>1, TurnGood
  <1> QED BY <1>1, <1>3, <1>4, Asked DEF LowRisk

LEMMA AskReinstallGood == ASSUME Inv, AskReinstall PROVE Inv'
  <1>1. PICK p \in job.reinstalls :
          Ask("reinstalls",
              [job EXCEPT !.state = "find", !.target = p, !.reinstalls = @ \ {p}],
              Onwards([job EXCEPT !.reinstalls = @ \ {p}, !.declined = TRUE]))
    BY DEF AskReinstall
  <1> DEFINE a == [job EXCEPT !.state = "find", !.target = p, !.reinstalls = @ \ {p}]
             d == [job EXCEPT !.reinstalls = @ \ {p}, !.declined = TRUE]
  <1>2. /\ UNCHANGED store /\ job \in Jobs /\ p \in job.reported
        /\ p \notin job.restores /\ p \in Packages
    BY DEF AskReinstall, Inv, PlanGood, Jobs
  <1>3. CASE job' = Onwards(d)
    <2>1. d \in Jobs /\ d.reinstalls \subseteq job.reinstalls /\ d.orphans = job.orphans
          /\ d.restores = job.restores /\ d.reported = job.reported
      BY <1>2 DEF Jobs
    <2> HIDE DEF d
    <2> QED BY <1>2, <1>3, <2>1, PlanOnwards
  <1>4. CASE job' = [a EXCEPT !.agreed = TRUE]
    <2>1. /\ job' \in Jobs /\ job'.state = "find" /\ job'.reinstalls = job.reinstalls \ {p}
          /\ job'.restores = job.restores /\ job'.orphans = job.orphans
          /\ job'.reported = job.reported /\ job'.target = p /\ job'.agreed = TRUE
      BY <1>2, <1>4 DEF Jobs, States, OnTarget
    <2> QED BY <1>2, <2>1, TurnGood
  <1> QED BY <1>1, <1>3, <1>4, Asked DEF LowRisk
--------------------------------------------------------------------------------
(* The package that repair is at.                                          *)
LEMMA FoundIsCandidate ==
  ASSUME Inv, NEW p, NEW e \in Resolutions(p)
  PROVE  e \in Candidates(p) /\ catalog[e] # None
  <1>1. e \in Matches(p) /\ catalog[e] # None
    BY DEF Resolutions, Matches
  <1>2. CASE Own(p) \subseteq Withdrawable
    BY <1>1, <1>2 DEF Matches, Candidates
  <1>3. CASE ~(Own(p) \subseteq Withdrawable)
    <2>1. PICK known \in Own(p) : known \notin Withdrawable
      BY <1>3
    <2>2. known \in Matches(p) \intersect Own(p)
      BY <2>1 DEF Inv, Published, Matches, Own
    <2>3. Resolutions(p) = Matches(p) \intersect Own(p)
      BY <2>2 DEF Resolutions
    <2> QED BY <1>1, <2>3 DEF Candidates
  <1> QED BY <1>2, <1>3

LEMMA CandidatesType == ASSUME NEW p \in Packages PROVE Candidates(p) \subseteq Entries
  BY DriftAssumption DEF Candidates, Own

(* A step that stays with its package and leaves the store alone.          *)
LEMMA StaysGood ==
  ASSUME Inv, UNCHANGED store, job.state \in OnTarget, job' \in Jobs,
         job'.restores = job.restores, job'.reinstalls = job.reinstalls,
         job'.orphans = job.orphans, job'.reported = job.reported,
         job'.target = job.target, job'.agreed \in {job.agreed, TRUE},
         job'.state \in OnTarget \ {"resolve", "find"}, job'.pick \in Candidates(job.target),
         job.state = "fallback" /\ job'.state # "fallback" => job'.agreed = TRUE,
         job'.state \in {"fetch", "copy"} =>
            job.target \in Installed /\ job'.version = row[job.target].version,
         job'.state = "copy" => job'.stage \in {WholeTree(job'.pick, job'.version), EmptyTree}
  PROVE  Inv'
  <1>1. PlanGood'
    BY StoreUntouched DEF Inv, PlanGood
  <1>2. row' = row
    BY DEF store
  <1>3. TargetGood'
    BY <1>2, StoreUntouched DEF Inv, TargetGood, OnTarget, WholeTree, EmptyTree
  <1> QED BY <1>1, <1>3, StoreUntouched DEF Inv

LEMMA FindReplacementGood == ASSUME Inv, FindReplacement PROVE Inv'
  <1>1. UNCHANGED store /\ job.state = "find" /\ job \in Jobs
    BY DEF FindReplacement, Inv
  <1>2. job.target \in Packages
    BY <1>1 DEF Inv, TargetGood, OnTarget, Jobs
  <1>3. CASE job' = Failed(job)
    BY <1>1, <1>3, PlanOnwards
  <1>4. CASE \E e \in Resolutions(job.target) :
                job' = [job EXCEPT !.state = "uninstall", !.pick = e]
    <2>1. PICK e \in Resolutions(job.target) :
                job' = [job EXCEPT !.state = "uninstall", !.pick = e]
      BY <1>4
    <2>2. e \in Candidates(job.target) /\ e \in Entries
      BY <1>2, FoundIsCandidate, CandidatesType
    <2>3. /\ job' \in Jobs /\ job'.state = "uninstall" /\ job'.pick = e
          /\ job'.restores = job.restores /\ job'.reinstalls = job.reinstalls
          /\ job'.orphans = job.orphans /\ job'.reported = job.reported
          /\ job'.target = job.target /\ job'.agreed = job.agreed
      BY <1>1, <2>1, <2>2 DEF Jobs, States, OnTarget
    <2> QED BY <1>1, <2>2, <2>3, StaysGood DEF OnTarget
  <1> QED BY <1>3, <1>4 DEF FindReplacement

LEMMA ResolveRestoreGood == ASSUME Inv, ResolveRestore PROVE Inv'
  <1>1. UNCHANGED store /\ job.state = "resolve" /\ job \in Jobs
    BY DEF ResolveRestore, Inv
  <1>2. job.target \in Packages
    BY <1>1 DEF Inv, TargetGood, OnTarget, Jobs
  <1> DEFINE t == job.target
  <1>3. CASE job' = Failed(job)
    BY <1>1, <1>3, PlanOnwards
  <1>4. ASSUME NEW e \in Resolutions(t), SameVersion(t, e), job' = Restore(e), t \in Installed
        PROVE  Inv'
    <2>1. e \in Candidates(t) /\ e \in Entries /\ catalog[e] = row[t].version
      BY <1>2, <1>4, FoundIsCandidate, CandidatesType DEF SameVersion
    <2>2. catalog[e] \in Versions \union {None}
      BY <2>1 DEF Inv, StoreType
    <2>3. /\ job' \in Jobs /\ job'.state = "fetch" /\ job'.pick = e /\ job'.version = catalog[e]
          /\ job'.restores = job.restores /\ job'.reinstalls = job.reinstalls
          /\ job'.orphans = job.orphans /\ job'.reported = job.reported
          /\ job'.target = t /\ job'.agreed = job.agreed
      BY <1>1, <1>4, <2>1, <2>2 DEF Restore, Jobs, States, OnTarget
    <2> QED BY <1>1, <1>4, <2>1, <2>3, StaysGood DEF OnTarget
  <1>5. ASSUME NEW e \in Resolutions(t), job' = Replace(e)
        PROVE  Inv'
    <2>1. e \in Candidates(t) /\ e \in Entries
      BY <1>2, <1>5, FoundIsCandidate, CandidatesType
    <2>2. /\ job' \in Jobs /\ job'.state = "fallback" /\ job'.pick = e
          /\ job'.restores = job.restores /\ job'.reinstalls = job.reinstalls
          /\ job'.orphans = job.orphans /\ job'.reported = job.reported
          /\ job'.target = t /\ job'.agreed = job.agreed
      BY <1>1, <1>5, <2>1 DEF Replace, Jobs, States, OnTarget
    <2> QED BY <1>1, <2>1, <2>2, StaysGood DEF OnTarget
  <1>6. \/ job' = Failed(job)
        \/ /\ t \in Installed
           /\ \E e \in Resolutions(t) :
                job' = Replace(e) \/ (SameVersion(t, e) /\ job' = Restore(e))
    BY DEF ResolveRestore
  <1> QED BY <1>3, <1>4, <1>5, <1>6

LEMMA AskFallbackGood == ASSUME Inv, AskFallback PROVE Inv'
  <1> DEFINE d == [job EXCEPT !.declined = TRUE]
  <1>1. /\ UNCHANGED store /\ job.state = "fallback" /\ job \in Jobs
        /\ Ask("fallback", [job EXCEPT !.state = "uninstall"], Onwards(d))
        /\ job.pick \in Candidates(job.target)
    BY DEF AskFallback, Inv, TargetGood, OnTarget
  <1>2. CASE job' = Onwards(d)
    <2>1. d \in Jobs /\ d.reinstalls = job.reinstalls /\ d.orphans = job.orphans
          /\ d.restores = job.restores /\ d.reported = job.reported
      BY <1>1 DEF Jobs
    <2> HIDE DEF d
    <2> QED BY <1>1, <1>2, <2>1, PlanOnwards
  <1>3. CASE job' = [[job EXCEPT !.state = "uninstall"] EXCEPT !.agreed = TRUE]
    <2>1. /\ job' \in Jobs /\ job'.state = "uninstall" /\ job'.pick = job.pick
          /\ job'.restores = job.restores /\ job'.reinstalls = job.reinstalls
          /\ job'.orphans = job.orphans /\ job'.reported = job.reported
          /\ job'.target = job.target /\ job'.agreed = TRUE
      BY <1>1, <1>3 DEF Jobs, States, OnTarget
    <2> QED BY <1>1, <2>1, StaysGood DEF OnTarget
  <1> QED BY <1>1, <1>2, <1>3, Asked DEF LowRisk

LEMMA StagePackageGood == ASSUME Inv, StagePackage PROVE Inv'
  <1>1. /\ UNCHANGED store /\ job.state = "fetch" /\ job \in Jobs
        /\ job.pick \in Candidates(job.target) /\ job.target \in Installed
        /\ job.version = row[job.target].version /\ job.target \in Packages
    BY DEF StagePackage, Inv, TargetGood, OnTarget, Installed
  <1>2. CASE job' = Failed(job)
    BY <1>1, <1>2, PlanOnwards
  <1>3. CASE \E stage \in {WholeTree(job.pick, job.version), EmptyTree} :
               job' = [job EXCEPT !.state = "copy", !.stage = stage,
                                  !.left = job.lost[job.target]]
    <2>1. PICK stage \in {WholeTree(job.pick, job.version), EmptyTree} :
               job' = [job EXCEPT !.state = "copy", !.stage = stage,
                                  !.left = job.lost[job.target]]
      BY <1>3
    <2>2. row[job.target] \in Rows /\ job.version \in Versions
      BY <1>1 DEF Inv, StoreType, Installed, Rows
    <2>3. stage \in Trees /\ job.lost[job.target] \in SUBSET Files
      BY <1>1, <2>2, CandidatesType DEF Trees, WholeTree, EmptyTree, Contents, Jobs
    <2>4. /\ job' \in Jobs /\ job'.state = "copy" /\ job'.pick = job.pick
          /\ job'.restores = job.restores /\ job'.reinstalls = job.reinstalls
          /\ job'.orphans = job.orphans /\ job'.reported = job.reported
          /\ job'.target = job.target /\ job'.agreed = job.agreed
          /\ job'.version = job.version /\ job'.stage = stage
      BY <1>1, <2>1, <2>3 DEF Jobs, States, OnTarget
    <2> QED BY <1>1, <2>1, <2>4, StaysGood DEF OnTarget
  <1> QED BY <1>2, <1>3 DEF StagePackage

LEMMA EndRestoreGood == ASSUME Inv, EndRestore PROVE Inv'
  BY PlanOnwards DEF EndRestore, Inv

LEMMA EndRepairGood == ASSUME Inv, EndRepair PROVE Inv'
  BY IdleGood DEF EndRepair
--------------------------------------------------------------------------------
(* The steps that change the files or the row of a package.                *)

LEMMA LegitimateType ==
  ASSUME Inv, NEW p \in Installed
  PROVE  Legitimate(p) \subseteq Contents \union {Cut, None}
  <1>1. p \in Packages /\ row[p] \in Rows
    BY DEF Installed, Inv, StoreType
  <1> QED BY <1>1, CandidatesType DEF Legitimate, Contents, Rows

(* A restored file is one that the package may have.                       *)
LEMMA WithFileGood ==
  ASSUME Inv, NEW p \in Installed, NEW f \in Files, NEW content \in Legitimate(p),
         tree' = WithFile(p, f, content), UNCHANGED <<catalog, row, snapshot, changes>>
  PROVE  StoreType' /\ Published' /\ FilesAreTheirRows' /\ Installed' = Installed
  <1> DEFINE base == IF tree[p].here = None THEN EmptyTree ELSE tree[p].here
             t == [base EXCEPT ![f] = content]
  <1>1. p \in Packages /\ row[p] \in Rows
    BY DEF Installed, Inv, StoreType
  <1>2. content \in Contents \union {Cut, None}
    BY LegitimateType
  <1>3. "here" \in Homes /\ tree[p].here \in Trees
    BY <1>1 DEF Inv, StoreType, Homes
  <1>4. base \in [Files -> Contents \union {Cut, None}]
    BY <1>3 DEF Trees, EmptyTree
  <1>5. \A g \in Files : base[g] \in Legitimate(p)
    BY <1>3 DEF EmptyTree, Inv, FilesAreTheirRows, Legitimate
  <1> HIDE DEF base
  <1>6. t \in Trees
    BY <1>2, <1>4 DEF Trees
  <1>7. \A g \in Files : t[g] \in Legitimate(p)
    BY <1>4, <1>5
  <1>8. tree' = [tree EXCEPT ![p].here = t]
    BY <1>1 DEF WithFile, base, Inv, StoreType
  <1> HIDE DEF t
  <1>9. /\ tree' \in [Packages -> [Homes -> Trees]]
        /\ tree'[p]["here"] = t
        /\ \A h \in Homes \ {"here"} : tree'[p][h] = tree[p][h]
        /\ \A q \in Packages \ {p} : tree'[q] = tree[q]
    BY <1>1, <1>6, <1>8, HereStep
  <1>10. Installed' = Installed
    BY DEF Installed
  <1>11. FilesAreTheirRows'
    <2> SUFFICES ASSUME NEW q \in Installed, NEW h \in Homes, tree'[q][h] # None,
                        NEW g \in Files
                 PROVE  tree'[q][h][g] \in Legitimate(q)
      BY <1>10 DEF FilesAreTheirRows, Legitimate
    <2>1. q \in Packages
      BY DEF Installed
    <2>2. CASE q = p /\ h = "here"
      BY <1>7, <1>9, <2>1, <2>2
    <2>3. CASE ~(q = p /\ h = "here")
      <3>1. tree'[q][h] = tree[q][h]
        BY <1>9, <2>1, <2>3
      <3> QED BY <3>1 DEF Inv, FilesAreTheirRows
    <2> QED BY <2>2, <2>3
  <1>12. StoreType' /\ Published'
    BY <1>9, <1>10 DEF Inv, StoreType, Published
  <1> QED BY <1>10, <1>11, <1>12

(* The plan survives every step that only takes packages out of it.        *)
LEMMA PlanKept ==
  ASSUME Inv, job' \in Jobs, job'.state \notin OnTarget,
         StoreType', Published', FilesAreTheirRows',
         job'.restores \subseteq job.restores, job'.reinstalls \subseteq job.reinstalls,
         job'.orphans \subseteq job.orphans, job'.reported = job.reported
  PROVE  Inv'
  BY DEF Inv, PlanGood, TargetGood, OnTarget

LEMMA RestoreFileGood == ASSUME Inv, RestoreFile PROVE Inv'
  <1>1. PICK f \in job.left :
          /\ Restorable(f) /\ tree' = WithFile(job.target, f, job.stage[f])
          /\ job' = [job EXCEPT !.left = @ \ {f}]
    BY DEF RestoreFile
  <1>2. /\ UNCHANGED <<catalog, row, snapshot, changes>> /\ job.state = "copy" /\ job \in Jobs
        /\ job.target \in Installed /\ job.version = row[job.target].version
        /\ job.stage \in {WholeTree(job.pick, job.version), EmptyTree}
        /\ job.pick \in Candidates(job.target)
    BY DEF RestoreFile, Inv, TargetGood, OnTarget
  <1>3. f \in Files /\ job.stage[f] \in Legitimate(job.target)
    BY <1>1, <1>2 DEF Jobs, WholeTree, EmptyTree, Legitimate
  <1>4. StoreType' /\ Published' /\ FilesAreTheirRows' /\ Installed' = Installed
    BY <1>1, <1>2, <1>3, WithFileGood
  <1>5. /\ job' \in Jobs /\ job'.state = "copy" /\ job'.pick = job.pick
        /\ job'.restores = job.restores /\ job'.reinstalls = job.reinstalls
        /\ job'.orphans = job.orphans /\ job'.reported = job.reported
        /\ job'.target = job.target /\ job'.agreed = job.agreed
        /\ job'.version = job.version /\ job'.stage = job.stage
    BY <1>1, <1>2 DEF Jobs
  <1>6. PlanGood'
    BY <1>4, <1>5 DEF Inv, PlanGood
  <1>7. TargetGood'
    BY <1>2, <1>4, <1>5 DEF Inv, TargetGood, OnTarget, WholeTree, EmptyTree
  <1> QED BY <1>4, <1>5, <1>6, <1>7 DEF Inv

(* A copy that was cut short, by an error or by the end of the process.    *)
LEMMA CutShort ==
  ASSUME Inv, job.state = "copy", UNCHANGED <<catalog, row, snapshot, changes>>,
         \/ UNCHANGED tree
         \/ \E f \in job.left : tree' = WithFile(job.target, f, Cut)
  PROVE  StoreType' /\ Published' /\ FilesAreTheirRows' /\ Installed' = Installed
  <1>1. CASE UNCHANGED tree
    BY <1>1, StoreUntouched DEF store
  <1>2. CASE \E f \in job.left : tree' = WithFile(job.target, f, Cut)
    <2>1. PICK f \in job.left : tree' = WithFile(job.target, f, Cut)
      BY <1>2
    <2>2. f \in Files /\ job.target \in Installed
      BY DEF Inv, Jobs, TargetGood
    <2> QED BY <2>1, <2>2, WithFileGood DEF Legitimate
  <1> QED BY <1>1, <1>2

LEMMA RestoreFailsGood == ASSUME Inv, RestoreFails PROVE Inv'
  <1>1. job.state = "copy" /\ job' = Failed(job) /\ job \in Jobs
    BY DEF RestoreFails, Inv
  <1>2. StoreType' /\ Published' /\ FilesAreTheirRows' /\ Installed' = Installed
    BY <1>1, CutShort DEF RestoreFails
  <1> QED BY <1>1, <1>2, FailedJob, PlanKept DEF OnTarget

LEMMA KilledGood == ASSUME Inv, Killed PROVE Inv'
  <1>1. StoreType' /\ Published' /\ FilesAreTheirRows' /\ Installed' = Installed
    <2>1. CASE UNCHANGED tree
      BY <2>1, StoreUntouched DEF Killed, store
    <2>2. CASE ~UNCHANGED tree
      BY <2>2, CutShort DEF Killed
    <2> QED BY <2>1, <2>2
  <1> QED BY <1>1, IdleJob DEF Killed, Idle, Inv, PlanGood, TargetGood, OnTarget

LEMMA UninstalledTrees ==
  ASSUME Inv, NEW p \in Installed, tree' = Uninstalled(p) \/ UNCHANGED tree
  PROVE  /\ tree' \in [Packages -> [Homes -> Trees]]
         /\ \A q \in Packages : \A home \in Homes : tree'[q][home] \in {tree[q][home], None}
         /\ \A q \in Packages \ {p} : tree'[q] = tree[q]
  <1>1. p \in Packages /\ row[p].home \in Homes /\ None \in Trees
    BY DEF Installed, Inv, StoreType, Rows, Trees
  <1>2. CASE tree' = Uninstalled(p)
    <2>1. \A q \in Packages \ {p} : tree'[q] = tree[q]
      BY <1>2 DEF Uninstalled, Inv, StoreType
    <2>2. tree' = [tree EXCEPT ![p][row[p].home] = None]
      BY <1>2 DEF Uninstalled
    <2> QED BY <1>1, <2>1, <2>2, TreeStep
  <1>3. CASE UNCHANGED tree
    BY <1>3 DEF Inv, StoreType
  <1> QED BY <1>2, <1>3

LEMMA UninstallGood == ASSUME Inv, Uninstall PROVE Inv'
  <1> DEFINE p == Name[job.pick]
  <1>1. /\ job.state = "uninstall" /\ job \in Jobs /\ job.pick \in Candidates(job.target)
        /\ job.target \in job.reported \ (job.restores \union job.reinstalls)
        /\ job.target \in Packages /\ job.agreed = TRUE /\ UNCHANGED <<catalog, changes>>
        /\ Installed \subseteq Packages
    BY DEF Uninstall, Inv, TargetGood, OnTarget, Jobs, Installed
  <1>0. job.pick \in Entries /\ p \in Packages
    BY <1>1, CandidatesType, DriftAssumption
  <1>2. ASSUME job' = [job EXCEPT !.state = "install"]
        PROVE  /\ job' \in Jobs /\ job'.state = "install" /\ job'.pick = job.pick
               /\ job'.restores = job.restores /\ job'.reinstalls = job.reinstalls
               /\ job'.orphans = job.orphans /\ job'.reported = job.reported
               /\ job'.target = job.target /\ job'.agreed = TRUE
    BY <1>1, <1>2 DEF Jobs, States, OnTarget
  <1>3. CASE p \notin Installed
    <2>1. UNCHANGED store /\ job' = [job EXCEPT !.state = "install"]
      BY <1>3 DEF Uninstall, store
    <2> QED BY <1>1, <1>2, <2>1, StaysGood DEF OnTarget
  <1>4. CASE /\ p \in Installed /\ row' = [row EXCEPT ![p] = None]
             /\ snapshot' = snapshot \ {p}
             /\ tree' = Uninstalled(p) \/ UNCHANGED tree
             /\ job' = [job EXCEPT !.state = "install"]
    <2>1. /\ tree' \in [Packages -> [Homes -> Trees]]
          /\ \A q \in Packages : \A home \in Homes : tree'[q][home] \in {tree[q][home], None}
      BY <1>4, UninstalledTrees
    <2>2. row' \in [Packages -> Rows \union {None}] /\ Installed' = Installed \ {p}
          /\ \A q \in Installed' : row'[q] = row[q]
      BY <1>0, <1>1, <1>4 DEF Inv, StoreType, Installed
    <2>3. StoreType' /\ Published'
      BY <1>1, <1>4, <2>1, <2>2 DEF Inv, StoreType, Published
    <2>4. FilesAreTheirRows'
      BY <1>1, <2>1, <2>2 DEF Inv, FilesAreTheirRows, Legitimate
    <2>5. PlanGood'
      BY <1>2, <1>4 DEF Inv, PlanGood
    <2>6. TargetGood'
      BY <1>1, <1>2, <1>4 DEF TargetGood, OnTarget
    <2> QED BY <1>2, <1>4, <2>3, <2>4, <2>5, <2>6 DEF Inv
  <1>5. CASE /\ p \in Installed /\ job' = Failed(job) /\ UNCHANGED <<row, snapshot>>
             /\ tree' = Uninstalled(p) \/ UNCHANGED tree
    <2>1. /\ tree' \in [Packages -> [Homes -> Trees]]
          /\ \A q \in Packages : \A home \in Homes : tree'[q][home] \in {tree[q][home], None}
      BY <1>5, UninstalledTrees
    <2>2. Installed' = Installed
      BY <1>5 DEF Installed
    <2>3. StoreType' /\ Published' /\ FilesAreTheirRows'
      BY <1>1, <1>5, <2>1, <2>2 DEF Inv, StoreType, Published, FilesAreTheirRows, Legitimate
    <2> QED BY <1>1, <1>5, <2>2, <2>3, FailedJob, PlanKept DEF OnTarget
  <1> QED BY <1>3, <1>4, <1>5 DEF Uninstall, InventoryWithout

LEMMA ReinstallGood == ASSUME Inv, Reinstall PROVE Inv'
  <1> DEFINE e == job.pick
             p == Name[e]
  <1>1. /\ job.state = "install" /\ job \in Jobs /\ UNCHANGED <<catalog, changes>>
        /\ e \in Candidates(job.target) /\ job.target \in Packages
        /\ Installed \subseteq Packages
    BY DEF Reinstall, Inv, TargetGood, OnTarget, Jobs, Installed
  <1>0. e \in Entries /\ p \in Packages /\ Engines[e] \subseteq EngineKinds /\ e \in Own(p)
    BY <1>1, CandidatesType, DriftAssumption DEF Own
  <1>2. CASE /\ job' = Failed(job) /\ UNCHANGED <<row, snapshot>>
             /\ tree' = [tree EXCEPT ![p].here = None] \/ UNCHANGED tree
    <2>1. /\ tree' \in [Packages -> [Homes -> Trees]]
          /\ \A q \in Packages : \A home \in Homes : tree'[q][home] \in {tree[q][home], None}
      <3>1. CASE UNCHANGED tree
        BY <3>1 DEF Inv, StoreType
      <3>2. CASE tree' = [tree EXCEPT ![p].here = None]
        <4> HIDE DEF p
        <4> QED BY <1>0, <3>2, HereStep DEF Trees
      <3> QED BY <1>2, <3>1, <3>2
    <2>2. Installed' = Installed
      BY <1>2 DEF Installed
    <2>3. StoreType' /\ Published' /\ FilesAreTheirRows'
      BY <1>1, <1>2, <2>1, <2>2 DEF Inv, StoreType, Published, FilesAreTheirRows, Legitimate
    <2> QED BY <1>1, <1>2, <2>2, <2>3, FailedJob, PlanKept DEF OnTarget
  <1>3. CASE \E engine \in Engines[e] :
               /\ catalog[e] # None
               /\ row' = [row EXCEPT ![p] = NewRow(e, catalog[e], engine)]
               /\ tree' = [tree EXCEPT ![p] = TreesOf(e, catalog[e], engine)]
               /\ snapshot' = IF engine = "msi" THEN InventoryWith(p) ELSE InventoryWithout(p)
               /\ job' = Onwards(job)
    <2>1. PICK engine \in Engines[e] :
               /\ catalog[e] # None
               /\ row' = [row EXCEPT ![p] = NewRow(e, catalog[e], engine)]
               /\ tree' = [tree EXCEPT ![p] = TreesOf(e, catalog[e], engine)]
               /\ snapshot' = IF engine = "msi" THEN InventoryWith(p) ELSE InventoryWithout(p)
               /\ job' = Onwards(job)
      BY <1>3
    <2> DEFINE v == catalog[e]
    <2>2. v \in Versions /\ engine \in EngineKinds
      BY <1>0, <2>1 DEF Inv, StoreType
    <2>3. /\ row' \in [Packages -> Rows \union {None}] /\ row'[p].version = v
          /\ \A q \in Packages \ {p} : row'[q] = row[q]
          /\ Installed' = Installed \union {p}
      BY <1>0, <2>1, <2>2, NewRowType DEF Inv, StoreType, Installed
    <2>4. /\ tree' \in [Packages -> [Homes -> Trees]] /\ tree'[p] = TreesOf(e, v, engine)
          /\ \A q \in Packages \ {p} : tree'[q] = tree[q]
      BY <1>0, <2>1, <2>2, NewTrees DEF Inv, StoreType
    <2>5. FilesAreTheirRows'
      <3> SUFFICES ASSUME NEW q \in Installed', NEW h \in Homes, tree'[q][h] # None,
                          NEW g \in Files
                   PROVE  tree'[q][h][g] \in Legitimate(q)'
        BY DEF FilesAreTheirRows
      <3>1. CASE q = p
        <4>1. tree'[q][h][g] \in {None, Cut, <<e, v>>}
          BY <1>0, <2>2, <2>4, <3>1, NewTrees
        <4>2. e \in Candidates(q) /\ row'[q].version = v
          BY <1>0, <2>3, <3>1 DEF Candidates
        <4> QED BY <4>1, <4>2 DEF Legitimate
      <3>2. CASE q # p
        <4>1. q \in Installed /\ q \in Packages
          BY <2>3, <3>2 DEF Installed
        <4>2. tree'[q] = tree[q] /\ row'[q] = row[q]
          BY <2>3, <2>4, <3>2, <4>1
        <4> QED BY <4>1, <4>2 DEF Inv, FilesAreTheirRows, Legitimate
      <3> QED BY <3>1, <3>2
    <2>6. StoreType' /\ Published'
      BY <1>0, <1>1, <2>1, <2>3, <2>4 DEF Inv, StoreType, Published, InventoryWithout, InventoryWith
    <2> QED BY <1>1, <2>1, <2>3, <2>5, <2>6, OnwardsJob, PlanKept DEF OnTarget
  <1> QED BY <1>2, <1>3 DEF Reinstall
--------------------------------------------------------------------------------
(* The world: files get lost, the catalog moves.                           *)
LEMMA LoseFilesGood == ASSUME Inv, LoseFiles PROVE Inv'
  <1>1. PICK p \in Installed :
          /\ tree[p][row[p].home] # None
          /\ \/ tree' = [tree EXCEPT ![p][row[p].home] = None]
             \/ \E f \in Files : tree' = [tree EXCEPT ![p][row[p].home][f] = None]
    BY DEF LoseFiles
  <1> DEFINE home == row[p].home
             old  == tree[p][home]
  <1>2. /\ UNCHANGED <<catalog, row, snapshot, job>> /\ Installed' = Installed
        /\ p \in Packages /\ home \in Homes /\ old \in Trees /\ old # None
        /\ changes' = changes + 1 /\ changes < MaxChanges
    BY <1>1 DEF LoseFiles, Installed, Inv, StoreType, Rows
  <1>3. \E t \in Trees :
           /\ tree' = [tree EXCEPT ![p][home] = t]
           /\ t # None => \A f \in Files : t[f] \in {None, old[f]}
    <2>1. CASE tree' = [tree EXCEPT ![p][home] = None]
      BY <2>1 DEF Trees
    <2>2. ASSUME NEW f \in Files,
                 tree' = [tree EXCEPT ![p][home][f] = None]
          PROVE  \E t \in Trees :
                    /\ tree' = [tree EXCEPT ![p][home] = t]
                    /\ t # None => \A g \in Files : t[g] \in {None, old[g]}
      <3>1. tree[p] \in [Homes -> Trees] /\ tree \in [Packages -> [Homes -> Trees]]
        BY <1>2 DEF Inv, StoreType
      <3>2. tree' = [tree EXCEPT ![p][home] = [old EXCEPT ![f] = None]]
        BY <1>2, <2>2, <3>1
      <3>3. old \in [Files -> Contents \union {Cut, None}]
        BY <1>2 DEF Trees
      <3>4. [old EXCEPT ![f] = None] \in Trees
            /\ \A g \in Files : [old EXCEPT ![f] = None][g] \in {None, old[g]}
        BY <3>3 DEF Trees
      <3> QED BY <3>2, <3>4
    <2> QED BY <1>1, <2>1, <2>2
  <1>4. PICK t \in Trees :
           /\ tree' = [tree EXCEPT ![p][home] = t]
           /\ t # None => \A f \in Files : t[f] \in {None, old[f]}
    BY <1>3
  <1>5. /\ tree' \in [Packages -> [Homes -> Trees]]
        /\ \A q \in Packages : \A h \in Homes :
              tree'[q][h] = IF q = p /\ h = home THEN t ELSE tree[q][h]
    BY <1>2, <1>4, TreeStep
  <1>6. FilesAreTheirRows'
    <2> SUFFICES ASSUME NEW q \in Installed, NEW h \in Homes, tree'[q][h] # None, NEW f \in Files
                 PROVE  tree'[q][h][f] \in Legitimate(q)
      BY <1>2 DEF FilesAreTheirRows, Legitimate
    <2>1. q \in Packages
      BY DEF Installed
    <2>2. CASE q = p /\ h = home
      <3>1. old[f] \in Legitimate(p) /\ None \in Legitimate(p)
        BY <1>2 DEF Inv, FilesAreTheirRows, Legitimate
      <3> QED BY <1>4, <1>5, <2>1, <2>2, <3>1
    <2>3. CASE ~(q = p /\ h = home)
      <3>1. tree'[q][h] = tree[q][h]
        BY <1>5, <2>1, <2>3
      <3> QED BY <3>1 DEF Inv, FilesAreTheirRows
    <2> QED BY <2>2, <2>3
  <1>7. changes' \in 0..MaxChanges
    BY <1>2, DriftAssumption DEF Inv, StoreType
  <1>8. StoreType' /\ Published'
    BY <1>2, <1>5, <1>7 DEF Inv, StoreType, Published
  <1>9. PlanGood' /\ TargetGood' /\ job' \in Jobs
    BY <1>2 DEF Inv, PlanGood, TargetGood, WholeTree, EmptyTree
  <1> QED BY <1>6, <1>8, <1>9 DEF Inv

LEMMA CatalogMovesGood == ASSUME Inv, CatalogMoves PROVE Inv'
  <1>1. /\ UNCHANGED <<row, tree, snapshot, job>> /\ Installed' = Installed
        /\ changes' = changes + 1 /\ changes < MaxChanges
    BY DEF CatalogMoves, Installed
  <1>2. changes' \in 0..MaxChanges
    BY <1>1, DriftAssumption DEF Inv, StoreType
  <1>3. catalog' \in [Entries -> Versions \union {None}] /\ Published'
    BY NoneAssumption DEF CatalogMoves, Inv, StoreType, Published
  <1>4. StoreType' /\ FilesAreTheirRows' /\ PlanGood' /\ TargetGood' /\ job' \in Jobs
    BY <1>1, <1>2, <1>3 DEF Inv, StoreType, FilesAreTheirRows, Legitimate, PlanGood,
                            TargetGood, WholeTree, EmptyTree
  <1> QED BY <1>3, <1>4 DEF Inv

LEMMA StutterGood == ASSUME Inv, UNCHANGED vars PROVE Inv'
  <1>1. UNCHANGED store /\ job' = job
    BY DEF vars
  <1>2. PlanGood' /\ TargetGood' /\ job' \in Jobs
    BY <1>1, StoreUntouched DEF Inv, PlanGood, TargetGood, WholeTree, EmptyTree, store
  <1> QED BY <1>1, <1>2, StoreUntouched DEF Inv

LEMMA StepGood == ASSUME Inv, [Next]_vars PROVE Inv'
  BY StartGood, AskOrphansGood, CleanOrphanGood, EndOrphansGood, AskRestoreGood,
     ResolveRestoreGood, AskFallbackGood, StagePackageGood, RestoreFileGood, RestoreFailsGood,
     EndRestoreGood, AskReinstallGood, FindReplacementGood, UninstallGood, ReinstallGood,
     EndRepairGood, KilledGood, LoseFilesGood, CatalogMovesGood, StutterGood
  DEF Next, RepairStep

(* The invariant holds of every behaviour.                                 *)
LEMMA DriftInvariant == Spec => []Inv
  BY InitGood, StepGood, PTL DEF Spec
--------------------------------------------------------------------------------
(* The variables keep their types, and an inventory belongs to a package   *)
(* that is installed.                                                      *)
THEOREM TypesHold == Spec => []TypeOK
  BY DriftInvariant, InvTypes, PTL

(* No package ever has files of another version than its row says, or of   *)
(* an entry that its name cannot be taken for, whatever is lost, restored  *)
(* or reinstalled: while one entry of the name stays in the catalog no     *)
(* lookalike counts, but any entry of the name does.                       *)
THEOREM RestoresOwnFiles == Spec => []FilesAreTheirRows
  BY DriftInvariant, PTL DEF Inv

(* Which packages a step of a running repair changes.                      *)
LEMMA ChangesTarget ==
  ASSUME Inv, [Next]_vars, job.state # "idle", NEW p \in Packages \ Affected(job.reported)
  PROVE  row'[p] = row[p] /\ tree'[p] = tree[p]
  <1>0. /\ p \notin job.reported
        /\ \A q \in job.reported : \A e \in Candidates(q) : Name[e] # p
    BY DEF Affected
  <1>1. CASE UNCHANGED <<row, tree>>
    BY <1>1
  <1>2. CASE CleanOrphan
    <2>1. PICK q \in job.orphans : tree' = [tree EXCEPT ![q].here = None] \/ UNCHANGED tree
      BY <1>2 DEF CleanOrphan
    <2>2. row' = row /\ q # p
      BY <1>0, <1>2 DEF CleanOrphan, Inv, PlanGood
    <2> QED BY <2>1, <2>2 DEF Inv, StoreType
  <1>3. CASE RestoreFile \/ RestoreFails \/ Killed
    <2>1. row' = row
      BY <1>3 DEF RestoreFile, RestoreFails, Killed
    <2>2. UNCHANGED tree \/ /\ job.state = "copy"
                            /\ \E f \in Files : \E c : tree' = WithFile(job.target, f, c)
      BY <1>3 DEF RestoreFile, RestoreFails, Killed, Inv, Jobs
    <2>3. job.state = "copy" => job.target # p
      BY <1>0 DEF Inv, TargetGood, OnTarget
    <2> QED BY <2>1, <2>2, <2>3 DEF WithFile, Inv, StoreType
  <1>4. CASE Uninstall
    <2>1. Name[job.pick] # p
      BY <1>0, <1>4 DEF Uninstall, Inv, TargetGood, OnTarget
    <2> QED BY <1>4, <2>1 DEF Uninstall, Uninstalled, Inv, StoreType
  <1>5. CASE Reinstall
    <2>1. Name[job.pick] # p
      BY <1>0, <1>5 DEF Reinstall, Inv, TargetGood, OnTarget
    <2> QED BY <1>5, <2>1 DEF Reinstall, Inv, StoreType
  <1>6. CASE LoseFiles
    BY <1>6 DEF LoseFiles
  <1>7. [Next]_vars => \/ CleanOrphan \/ RestoreFile \/ RestoreFails \/ Killed
                       \/ Uninstall \/ Reinstall \/ LoseFiles \/ UNCHANGED <<row, tree>>
    BY DEF Next, RepairStep, StartRepair, AskOrphans, EndOrphans, AskRestore, ResolveRestore,
           AskFallback, StagePackage, EndRestore, AskReinstall, FindReplacement, EndRepair,
           CatalogMoves, vars, store
  <1> QED BY <1>1, <1>2, <1>3, <1>4, <1>5, <1>6, <1>7

(* Repair touches no package that its report did not name, but for one     *)
(* that the name of a reported package may be taken for.                   *)
THEOREM OnlyReportedIsRepaired == Spec => RepairsOnlyReported
  <1>1. Inv /\ [Next]_vars =>
          [job.state # "idle" =>
             \A p \in Packages :
                 row'[p] # row[p] \/ tree'[p] # tree[p] => p \in Affected(job.reported)]_vars
    BY ChangesTarget
  <1> QED BY <1>1, DriftInvariant, PTL DEF Spec, RepairsOnlyReported

(* What a repair does to rows and files, but for the low-risk cleanup, it  *)
(* does at a package that the user has agreed to.                          *)
LEMMA ChangesAgreed ==
  ASSUME Inv, [Next]_vars, job.state \notin {"idle", "clean", "unclean"},
         row' # row \/ tree' # tree
  PROVE  job.agreed = TRUE
  <1>1. [Next]_vars => \/ CleanOrphan \/ RestoreFile \/ RestoreFails \/ Killed
                       \/ Uninstall \/ Reinstall \/ LoseFiles \/ UNCHANGED <<row, tree>>
    BY DEF Next, RepairStep, StartRepair, AskOrphans, EndOrphans, AskRestore, ResolveRestore,
           AskFallback, StagePackage, EndRestore, AskReinstall, FindReplacement, EndRepair,
           CatalogMoves, vars, store
  <1>2. job.state \in {"copy", "uninstall", "install"}
    BY <1>1 DEF CleanOrphan, RestoreFile, RestoreFails, Killed, Uninstall, Reinstall, LoseFiles
  <1> QED BY <1>2 DEF Inv, TargetGood, OnTarget

(* Nothing of a package is restored, removed or reinstalled by a repair    *)
(* whose user has not agreed to it, or given --force.                      *)
THEOREM ConsentComesFirst == Spec => HighRiskNeedsConsent
  <1>1. Inv /\ [Next]_vars =>
          [job.state \notin {"idle", "clean", "unclean"} /\ (row' # row \/ tree' # tree)
             => job.agreed]_vars
    BY ChangesAgreed
  <1> QED BY <1>1, DriftInvariant, PTL DEF Spec, HighRiskNeedsConsent
--------------------------------------------------------------------------------
(* A repair that ran to its end has healed what it could.  Every package   *)
(* that ails and can be cured is in the plan, or repair is at it, or has   *)
(* just taken it away to install it anew; the groups go in their order;    *)
(* and what was lost of a package is known until it is copied.             *)
Ailing == OrphanDirs \union Restores \union Reinstalls
Pending == Ailing \ Incurable
Planned == job.orphans \union job.restores \union job.reinstalls
Ending == {"idle", "failed", "unclean"}

HomesGood == \A p \in Installed : row[p].engine = "font" => row[p].home = "away"

InTurn ==
  /\ job.state \in {"restores", "reinstalls", "done"} \union OnTarget => job.orphans = {}
  /\ job.state \in {"reinstalls", "done"} => job.restores = {}
  /\ job.state = "done" => job.reinstalls = {}
  /\ job.orphans \intersect Installed = {}

(* The files of p that are lost are among these, if it can be cured.       *)
Covers(files, p) == p \in Incurable \/ LostFiles(p) \subseteq files

LossKnown == job.state \notin Ending =>
  \A p \in job.restores : job.lost[p] # {} /\ Covers(job.lost[p], p)

CopyGood ==
  /\ job.state \in {"resolve", "fetch"} =>
       job.lost[job.target] # {} /\ Covers(job.lost[job.target], job.target)
  /\ job.state = "copy" =>
       /\ Covers(job.left, job.target)
       /\ job.left # {} \/ tree[job.target].here # None

AllInPlan ==
  job.state \notin Ending /\ ~job.declined =>
    \A p \in Pending :
      \/ p \in Planned
      \/ job.state \in OnTarget /\ p = job.target
      \/ job.state = "install" /\ p = Name[job.pick]

Healing == HomesGood /\ InTurn /\ LossKnown /\ CopyGood /\ AllInPlan

LEMMA HealingHeals == Healing => RepairHeals
  BY DEF Healing, InTurn, AllInPlan, RepairHeals, Ailing, Pending, Planned, Ending, OnTarget

(* What ails a package is a matter of its own row, files and inventory.    *)
LEMMA Unmoved ==
  ASSUME NEW p \in Packages, row'[p] = row[p], tree'[p] = tree[p],
         p \in snapshot' <=> p \in snapshot
  PROVE  /\ LostFiles(p)' = LostFiles(p)
         /\ (p \in Incurable)' <=> p \in Incurable
         /\ (p \in Pending)' <=> p \in Pending
  <1>1. (p \in Installed)' <=> p \in Installed
    BY DEF Installed
  <1>2. LostFiles(p)' = LostFiles(p)
    BY <1>1 DEF LostFiles
  <1>3. DirectoryDrifts(p)' <=> DirectoryDrifts(p)
    BY DEF DirectoryDrifts
  <1>4. (p \in Ailing)' <=> p \in Ailing
    BY <1>1, <1>2, <1>3 DEF Ailing, OrphanDirs, Restores, Reinstalls
  <1>5. (p \in Incurable)' <=> p \in Incurable
    BY <1>1 DEF Incurable
  <1> QED BY <1>2, <1>4, <1>5 DEF Pending

LEMMA SameStore ==
  ASSUME UNCHANGED store
  PROVE  /\ Installed' = Installed /\ Ailing' = Ailing /\ Incurable' = Incurable
         /\ Pending' = Pending /\ (HomesGood => HomesGood')
         /\ \A p : LostFiles(p)' = LostFiles(p)
         /\ \A files, p : Covers(files, p)' <=> Covers(files, p)
  <1>1. UNCHANGED <<catalog, row, tree, snapshot>>
    BY DEF store
  <1>2. Installed' = Installed
    BY <1>1 DEF Installed
  <1>3. \A p : LostFiles(p)' = LostFiles(p)
    BY <1>1, <1>2 DEF LostFiles
  <1>4. \A p : DirectoryDrifts(p)' <=> DirectoryDrifts(p)
    BY <1>1 DEF DirectoryDrifts
  <1>5. OrphanDirs' = OrphanDirs /\ Restores' = Restores /\ Reinstalls' = Reinstalls
    BY <1>1, <1>2, <1>3, <1>4 DEF OrphanDirs, Restores, Reinstalls
  <1>6. Incurable' = Incurable
    BY <1>1, <1>2 DEF Incurable
  <1>7. Ailing' = Ailing /\ Pending' = Pending
    BY <1>5, <1>6 DEF Ailing, Pending
  <1>8. \A files, p : Covers(files, p)' <=> Covers(files, p)
    BY <1>3, <1>6 DEF Covers
  <1> QED BY <1>1, <1>2, <1>3, <1>6, <1>7, <1>8 DEF HomesGood

(* Healed packages: whole where repair looks, or gone with its directory.  *)
LEMMA Healed ==
  ASSUME Inv, HomesGood, NEW p \in Installed, LostFiles(p) = {}, tree[p].here # None
  PROVE  p \notin Ailing
  <1>1. p \notin OrphanDirs /\ p \notin Restores
    BY DEF OrphanDirs, Restores
  <1>2. row[p].home = "here" => ~DirectoryDrifts(p)
    BY DEF DirectoryDrifts, HomesGood
  <1> QED BY <1>1, <1>2 DEF Ailing, Reinstalls

LEMMA OnwardsTurn ==
  ASSUME NEW j \in Jobs
  PROVE  /\ Onwards(j).declined = j.declined /\ Onwards(j).lost = j.lost
         /\ Onwards(j).state \in {"restores", "reinstalls", "done"} => j.orphans = {}
         /\ Onwards(j).state \in {"reinstalls", "done"} => j.restores = {}
         /\ Onwards(j).state = "done" => j.reinstalls = {}
  <1> DEFINE s == IF j.orphans # {} THEN "orphans"
                  ELSE IF j.restores # {} THEN "restores"
                  ELSE IF j.reinstalls # {} THEN "reinstalls" ELSE "done"
  <1>1. /\ s \in {"restores", "reinstalls", "done"} => j.orphans = {}
        /\ s \in {"reinstalls", "done"} => j.restores = {}
        /\ s = "done" => j.reinstalls = {}
    OBVIOUS
  <1> HIDE DEF s
  <1>2. Onwards(j) = [j EXCEPT !.state = s, !.target = None, !.pick = None, !.version = None,
                              !.stage = None, !.left = {}, !.agreed = FALSE]
    BY DEF Onwards, s
  <1> QED BY <1>1, <1>2 DEF Jobs

(* The plan goes on, with every package in it that is to be healed.        *)
LEMMA OnwardsHeals ==
  ASSUME NEW j \in Jobs, job' = Onwards(j), HomesGood',
         j.orphans \intersect Installed' = {},
         \A p \in j.restores :
            j.lost[p] # {} /\ (p \in Incurable' \/ LostFiles(p)' \subseteq j.lost[p]),
         j.declined \/ Pending' \subseteq j.orphans \union j.restores \union j.reinstalls
  PROVE  Healing'
  <1>1. InTurn'
    BY OnwardsJob, OnwardsTurn DEF InTurn, OnTarget
  <1>2. LossKnown'
    BY OnwardsJob, OnwardsTurn DEF LossKnown, Covers
  <1>3. CopyGood'
    BY OnwardsJob DEF CopyGood
  <1>4. AllInPlan'
    BY OnwardsJob, OnwardsTurn DEF AllInPlan, Planned
  <1> QED BY <1>1, <1>2, <1>3, <1>4 DEF Healing

(* So it does when no package has changed.                                 *)
LEMMA OnwardsSame ==
  ASSUME Healing, UNCHANGED store, NEW j \in Jobs, job' = Onwards(j), j.lost = job.lost,
         job.state \notin Ending,
         j.orphans \subseteq job.orphans, j.restores \subseteq job.restores,
         j.declined \/ Pending \subseteq j.orphans \union j.restores \union j.reinstalls
  PROVE  Healing'
  <1>1. HomesGood' /\ j.orphans \intersect Installed' = {}
    BY SameStore DEF Healing, InTurn
  <1>2. \A p \in j.restores :
           j.lost[p] # {} /\ (p \in Incurable' \/ LostFiles(p)' \subseteq j.lost[p])
    <2> SUFFICES ASSUME NEW p \in j.restores
                 PROVE  j.lost[p] # {} /\ (p \in Incurable' \/ LostFiles(p)' \subseteq j.lost[p])
      OBVIOUS
    <2>1. job.lost[p] # {} /\ Covers(job.lost[p], p)
      BY DEF Healing, LossKnown
    <2>2. Incurable' = Incurable /\ LostFiles(p)' = LostFiles(p)
      BY SameStore
    <2> QED BY <2>1, <2>2 DEF Covers
  <1> QED BY <1>1, <1>2, SameStore, OnwardsHeals

(* A repair that fails has nothing to heal, and an idle one no plan.       *)
LEMMA EndsHeals ==
  ASSUME HomesGood', job'.state \in Ending, job'.orphans \intersect Installed' = {}
  PROVE  Healing'
  BY DEF Healing, InTurn, LossKnown, CopyGood, AllInPlan, OnTarget, Ending

LEMMA IdleHeals == ASSUME HomesGood', job' = Idle PROVE Healing'
  BY EndsHeals DEF Idle, Ending

LEMMA FailedHeals ==
  ASSUME job \in Jobs, job' = Failed(job), HomesGood', job.orphans \intersect Installed' = {}
  PROVE  Healing'
  BY FailedJob, EndsHeals DEF Ending

LEMMA FailedSame ==
  ASSUME Inv, Healing, UNCHANGED store, job' = Failed(job)
  PROVE  Healing'
  <1>1. HomesGood' /\ job.orphans \intersect Installed' = {}
    BY SameStore DEF Healing, InTurn
  <1> QED BY <1>1, FailedHeals DEF Inv

(* A step at one package leaves the others as they are.                    *)
LEMMA OthersUnmoved ==
  ASSUME NEW t, \A q \in Packages \ {t} : row'[q] = row[q] /\ tree'[q] = tree[q],
         snapshot' \ {t} = snapshot \ {t}
  PROVE  \A q \in Packages \ {t} : /\ LostFiles(q)' = LostFiles(q)
                                   /\ (q \in Incurable)' <=> q \in Incurable
                                   /\ (q \in Pending)' <=> q \in Pending
  BY Unmoved

LEMMA PendingType == Pending \subseteq Packages
  BY DEF Pending, Ailing, OrphanDirs, Restores, Reinstalls, Installed

(* The homes of fonts are elsewhere, that of the one at t too.             *)
LEMMA HomesStep ==
  ASSUME HomesGood, NEW t, \A q \in Packages \ {t} : row'[q] = row[q],
         (t \in Installed)' => (row'[t].engine = "font" => row'[t].home = "away")
  PROVE  HomesGood'
  BY DEF HomesGood, Installed

(* Repair stays with its package.                                          *)
LEMMA StaysHeals ==
  ASSUME Inv, Healing, job.state \in OnTarget \ {"install"}, job'.state \in OnTarget,
         HomesGood', LossKnown', CopyGood',
         job'.target = job.target, job'.orphans = job.orphans, job'.restores = job.restores,
         job'.reinstalls = job.reinstalls, job'.declined = job.declined,
         \A q \in Pending' : \/ q \in Pending \/ q = job.target
                             \/ job'.state = "install" /\ q = Name[job'.pick]
  PROVE  Healing'
  <1>1. job.orphans = {} /\ job.state \notin Ending
    BY DEF Healing, InTurn, OnTarget, Ending
  <1>2. InTurn'
    BY <1>1 DEF InTurn, OnTarget
  <1>3. AllInPlan'
    BY <1>1 DEF Healing, AllInPlan, Planned
  <1> QED BY <1>2, <1>3 DEF Healing

LEMMA StaysSame ==
  ASSUME Inv, Healing, UNCHANGED store,
         job.state \in OnTarget \ {"install"}, job'.state \in OnTarget,
         job'.target = job.target, job'.orphans = job.orphans, job'.restores = job.restores,
         job'.reinstalls = job.reinstalls, job'.lost = job.lost, job'.declined = job.declined,
         CopyGood'
  PROVE  Healing'
  <1>1. HomesGood' /\ Pending' = Pending
    BY SameStore DEF Healing
  <1>2. LossKnown'
    BY SameStore DEF Healing, LossKnown, Covers, OnTarget, Ending
  <1> QED BY <1>1, <1>2, StaysHeals

--------------------------------------------------------------------------------
LEMMA InitHeals == Init => Healing
  <1> SUFFICES ASSUME Init PROVE Healing
    OBVIOUS
  <1>1. PICK first \in [Packages -> {None} \union (Entries \X Versions \X EngineKinds)] :
           row = [p \in Packages |->
                    IF first[p] = None THEN None
                    ELSE NewRow(first[p][1], first[p][2], first[p][3])]
    BY DEF Init
  <1>2. HomesGood
    BY <1>1 DEF HomesGood, Installed, NewRow, HomeOf
  <1> QED BY <1>2 DEF Init, Idle, Healing, InTurn, LossKnown, CopyGood, AllInPlan, OnTarget, Ending

LEMMA StartHeals == ASSUME Inv, Healing, StartRepair PROVE Healing'
  <1>1. UNCHANGED store
    BY DEF StartRepair
  <1>2. OrphanDirs \subseteq Packages \ Installed /\ Restores \subseteq Installed
        /\ Reinstalls \subseteq Installed /\ Installed \subseteq Packages
        /\ [p \in Packages |-> LostFiles(p)] \in [Packages -> SUBSET Files]
    BY DEF OrphanDirs, Restores, Reinstalls, Installed, LostFiles
  <1>3. PICK mode \in Modes :
          job' = Onwards([Idle EXCEPT !.mode = mode, !.orphans = OrphanDirs,
                            !.restores = Restores, !.reinstalls = Reinstalls,
                            !.reported = OrphanDirs \union Restores \union Reinstalls,
                            !.lost = [p \in Packages |-> LostFiles(p)]])
    BY DEF StartRepair
  <1> DEFINE j == [Idle EXCEPT !.mode = mode, !.orphans = OrphanDirs,
                      !.restores = Restores, !.reinstalls = Reinstalls,
                      !.reported = OrphanDirs \union Restores \union Reinstalls,
                      !.lost = [p \in Packages |-> LostFiles(p)]]
  <1>4. /\ j \in Jobs /\ j.orphans = OrphanDirs /\ j.restores = Restores
        /\ j.reinstalls = Reinstalls /\ j.lost = [p \in Packages |-> LostFiles(p)]
    BY <1>2, IdleJob DEF Jobs, Idle
  <1> HIDE DEF j
  <1>5. job' = Onwards(j)
    BY <1>3 DEF j
  <1>6. HomesGood' /\ j.orphans \intersect Installed' = {}
    BY <1>1, <1>2, <1>4, SameStore DEF Healing
  <1>7. \A p \in j.restores : j.lost[p] # {} /\ LostFiles(p)' \subseteq j.lost[p]
    BY <1>1, <1>2, <1>4, SameStore DEF Restores
  <1>8. Pending' \subseteq j.orphans \union j.restores \union j.reinstalls
    BY <1>1, <1>4, SameStore DEF Ailing, Pending
  <1> QED BY <1>4, <1>5, <1>6, <1>7, <1>8, OnwardsHeals

LEMMA AskOrphansHeals == ASSUME Inv, Healing, AskOrphans PROVE Healing'
  <1> DEFINE a == [job EXCEPT !.state = "clean"]
             d == [job EXCEPT !.orphans = {}, !.declined = TRUE]
  <1>1. UNCHANGED store /\ Ask("orphans", a, Onwards(d)) /\ job \in Jobs
        /\ job.state = "orphans"
    BY DEF AskOrphans, Inv
  <1>2. CASE job' = Onwards(d)
    <2>1. d \in Jobs /\ d.orphans = {} /\ d.restores = job.restores /\ d.lost = job.lost
          /\ d.declined = TRUE
      BY <1>1 DEF Jobs
    <2> HIDE DEF d
    <2> QED BY <1>1, <1>2, <2>1, OnwardsSame DEF Ending
  <1>3. CASE \E b \in BOOLEAN : job' = [a EXCEPT !.agreed = b]
    <2>1. PICK b \in BOOLEAN : job' = [a EXCEPT !.agreed = b]
      BY <1>3
    <2>2. /\ job'.state = "clean" /\ job'.restores = job.restores
          /\ job'.reinstalls = job.reinstalls /\ job'.orphans = job.orphans
          /\ job'.lost = job.lost /\ job'.declined = job.declined
      BY <1>1, <2>1 DEF Jobs
    <2> QED BY <1>1, <2>2, SameStore
            DEF Healing, InTurn, LossKnown, Covers, CopyGood, AllInPlan, Planned, OnTarget, Ending
  <1> QED BY <1>1, <1>2, <1>3, Asked

(* The directory of a removed package goes, and with it what ails.         *)
LEMMA CleanOrphanHeals == ASSUME Inv, Healing, CleanOrphan PROVE Healing'
  <1>1. PICK p \in job.orphans :
          \/ tree' = [tree EXCEPT ![p].here = None] /\ job' = [job EXCEPT !.orphans = @ \ {p}]
          \/ UNCHANGED tree /\ job' = [job EXCEPT !.orphans = @ \ {p}, !.state = "unclean"]
    BY DEF CleanOrphan
  <1>2. /\ UNCHANGED <<catalog, row, snapshot, changes>> /\ job.state \in {"clean", "unclean"}
        /\ job \in Jobs /\ p \in Packages \ Installed /\ Installed' = Installed
    BY DEF CleanOrphan, Inv, Jobs, Healing, InTurn, Installed
  <1>3. HomesGood'
    BY <1>2 DEF Healing, HomesGood
  <1>4. CASE UNCHANGED tree /\ job' = [job EXCEPT !.orphans = @ \ {p}, !.state = "unclean"]
    <2>1. /\ job'.state = "unclean" /\ job'.restores = job.restores
          /\ job'.orphans = job.orphans \ {p} /\ job'.lost = job.lost
      BY <1>2, <1>4 DEF Jobs
    <2>2. UNCHANGED store
      BY <1>2, <1>4 DEF store
    <2> QED BY <1>2, <1>3, <2>1, <2>2, SameStore, EndsHeals DEF Healing, InTurn, Ending
  <1>5. CASE tree' = [tree EXCEPT ![p].here = None] /\ job' = [job EXCEPT !.orphans = @ \ {p}]
    <2>1. /\ job'.state = job.state /\ job'.restores = job.restores
          /\ job'.reinstalls = job.reinstalls /\ job'.orphans = job.orphans \ {p}
          /\ job'.lost = job.lost /\ job'.declined = job.declined
      BY <1>2, <1>5 DEF Jobs
    <2>2. tree'[p]["here"] = None /\ \A q \in Packages \ {p} : tree'[q] = tree[q]
      BY <1>2, <1>5, HereStep DEF Trees
    <2>3. \A q \in Packages \ {p} : /\ LostFiles(q)' = LostFiles(q)
                                    /\ (q \in Incurable)' <=> q \in Incurable
                                    /\ (q \in Pending)' <=> q \in Pending
      BY <1>2, <2>2, OthersUnmoved
    <2>4. p \notin Pending' /\ LostFiles(p)' = {} /\ job.restores \subseteq Packages
      BY <1>2, <2>2 DEF Pending, Ailing, OrphanDirs, Restores, Reinstalls, LostFiles, Jobs
    <2>5. Pending' \subseteq Packages
      BY DEF Pending, Ailing, OrphanDirs, Restores, Reinstalls, Installed
    <2>6. LossKnown'
      BY <1>2, <2>1, <2>3, <2>4 DEF Healing, LossKnown, Covers, Ending
    <2>7. InTurn' /\ CopyGood'
      BY <1>2, <2>1 DEF Healing, InTurn, CopyGood, OnTarget
    <2>8. AllInPlan'
      BY <1>2, <2>1, <2>3, <2>4, <2>5 DEF Healing, AllInPlan, Planned, OnTarget, Ending
    <2> QED BY <1>3, <2>6, <2>7, <2>8 DEF Healing
  <1> QED BY <1>1, <1>4, <1>5

LEMMA EndOrphansHeals == ASSUME Inv, Healing, EndOrphans PROVE Healing'
  <1>1. UNCHANGED store /\ job \in Jobs
    BY DEF EndOrphans, Inv
  <1>2. CASE job' = Failed(job)
    BY <1>1, <1>2, FailedSame
  <1>3. CASE job.state = "clean" /\ job' = Onwards(job)
    <2>1. job.declined \/ Pending \subseteq Planned
      BY <1>3 DEF Healing, AllInPlan, OnTarget, Ending
    <2> QED BY <1>1, <1>3, <2>1, OnwardsSame DEF Planned, Ending
  <1> QED BY <1>2, <1>3 DEF EndOrphans

LEMMA AskRestoreHeals == ASSUME Inv, Healing, AskRestore PROVE Healing'
  <1>1. PICK p \in job.restores :
          Ask("restores",
              [job EXCEPT !.state = "resolve", !.target = p, !.restores = @ \ {p}],
              Onwards([job EXCEPT !.restores = @ \ {p}, !.declined = TRUE]))
    BY DEF AskRestore
  <1> DEFINE a == [job EXCEPT !.state = "resolve", !.target = p, !.restores = @ \ {p}]
             d == [job EXCEPT !.restores = @ \ {p}, !.declined = TRUE]
  <1>2. UNCHANGED store /\ job \in Jobs /\ job.state = "restores"
    BY DEF AskRestore, Inv
  <1>3. CASE job' = Onwards(d)
    <2>1. d \in Jobs /\ d.restores \subseteq job.restores /\ d.orphans = job.orphans
          /\ d.lost = job.lost /\ d.declined = TRUE
      BY <1>2 DEF Jobs
    <2> HIDE DEF d
    <2> QED BY <1>2, <1>3, <2>1, OnwardsSame DEF Ending
  <1>4. CASE job' = [a EXCEPT !.agreed = TRUE]
    <2>1. /\ job'.state = "resolve" /\ job'.restores = job.restores \ {p}
          /\ job'.reinstalls = job.reinstalls /\ job'.orphans = job.orphans
          /\ job'.target = p /\ job'.lost = job.lost /\ job'.declined = job.declined
      BY <1>2, <1>4 DEF Jobs
    <2>2. InTurn'
      BY <1>2, <2>1, SameStore DEF Healing, InTurn, OnTarget
    <2>3. LossKnown' /\ CopyGood'
      BY <1>2, <2>1, SameStore DEF Healing, LossKnown, Covers, CopyGood, Ending
    <2>4. AllInPlan'
      BY <1>2, <2>1, SameStore DEF Healing, AllInPlan, Planned, OnTarget, Ending
    <2> QED BY <1>2, <2>2, <2>3, <2>4, SameStore DEF Healing
  <1> QED BY <1>1, <1>3, <1>4, Asked DEF LowRisk

LEMMA AskReinstallHeals == ASSUME Inv, Healing, AskReinstall PROVE Healing'
  <1>1. PICK p \in job.reinstalls :
          Ask("reinstalls",
              [job EXCEPT !.state = "find", !.target = p, !.reinstalls = @ \ {p}],
              Onwards([job EXCEPT !.reinstalls = @ \ {p}, !.declined = TRUE]))
    BY DEF AskReinstall
  <1> DEFINE a == [job EXCEPT !.state = "find", !.target = p, !.reinstalls = @ \ {p}]
             d == [job EXCEPT !.reinstalls = @ \ {p}, !.declined = TRUE]
  <1>2. UNCHANGED store /\ job \in Jobs /\ job.state = "reinstalls"
    BY DEF AskReinstall, Inv
  <1>3. CASE job' = Onwards(d)
    <2>1. d \in Jobs /\ d.restores = job.restores /\ d.orphans = job.orphans
          /\ d.lost = job.lost /\ d.declined = TRUE
      BY <1>2 DEF Jobs
    <2> HIDE DEF d
    <2> QED BY <1>2, <1>3, <2>1, OnwardsSame DEF Ending
  <1>4. CASE job' = [a EXCEPT !.agreed = TRUE]
    <2>1. /\ job'.state = "find" /\ job'.reinstalls = job.reinstalls \ {p}
          /\ job'.restores = job.restores /\ job'.orphans = job.orphans
          /\ job'.target = p /\ job'.lost = job.lost /\ job'.declined = job.declined
      BY <1>2, <1>4 DEF Jobs
    <2>2. InTurn'
      BY <1>2, <2>1, SameStore DEF Healing, InTurn, OnTarget
    <2>3. LossKnown' /\ CopyGood'
      BY <1>2, <2>1, SameStore DEF Healing, LossKnown, Covers, CopyGood, Ending
    <2>4. AllInPlan'
      BY <1>2, <2>1, SameStore DEF Healing, AllInPlan, Planned, OnTarget, Ending
    <2> QED BY <1>2, <2>2, <2>3, <2>4, SameStore DEF Healing
  <1> QED BY <1>1, <1>3, <1>4, Asked DEF LowRisk

LEMMA FindReplacementHeals == ASSUME Inv, Healing, FindReplacement PROVE Healing'
  <1>1. UNCHANGED store /\ job.state = "find" /\ job \in Jobs
    BY DEF FindReplacement, Inv
  <1>2. CASE job' = Failed(job)
    BY <1>1, <1>2, FailedSame
  <1>3. CASE \E q : job' = [job EXCEPT !.state = "uninstall", !.pick = q]
    <2>1. /\ job'.state = "uninstall" /\ job'.restores = job.restores
          /\ job'.reinstalls = job.reinstalls /\ job'.orphans = job.orphans
          /\ job'.target = job.target /\ job'.lost = job.lost /\ job'.declined = job.declined
      BY <1>1, <1>3 DEF Jobs
    <2>2. CopyGood'
      BY <2>1 DEF CopyGood
    <2> QED BY <1>1, <2>1, <2>2, StaysSame DEF OnTarget
  <1> QED BY <1>2, <1>3 DEF FindReplacement

LEMMA ResolveRestoreHeals == ASSUME Inv, Healing, ResolveRestore PROVE Healing'
  <1>1. UNCHANGED store /\ job.state = "resolve" /\ job \in Jobs
    BY DEF ResolveRestore, Inv
  <1>2. CASE job' = Failed(job)
    BY <1>1, <1>2, FailedSame
  <1>3. CASE \E e : job' = Restore(e) \/ job' = Replace(e)
    <2>1. /\ job'.state \in {"fetch", "fallback"} /\ job'.restores = job.restores
          /\ job'.reinstalls = job.reinstalls /\ job'.orphans = job.orphans
          /\ job'.target = job.target /\ job'.lost = job.lost /\ job'.declined = job.declined
      BY <1>1, <1>3 DEF Jobs, Restore, Replace
    <2>2. CopyGood'
      BY <1>1, <2>1, SameStore DEF Healing, CopyGood, Covers
    <2> QED BY <1>1, <2>1, <2>2, StaysSame DEF OnTarget
  <1> QED BY <1>2, <1>3 DEF ResolveRestore

LEMMA AskFallbackHeals == ASSUME Inv, Healing, AskFallback PROVE Healing'
  <1> DEFINE d == [job EXCEPT !.declined = TRUE]
  <1>1. /\ UNCHANGED store /\ job.state = "fallback" /\ job \in Jobs
        /\ Ask("fallback", [job EXCEPT !.state = "uninstall"], Onwards(d))
    BY DEF AskFallback, Inv
  <1>2. CASE job' = Onwards(d)
    <2>1. d \in Jobs /\ d.lost = job.lost /\ d.orphans = job.orphans
          /\ d.restores = job.restores /\ d.declined = TRUE
      BY <1>1 DEF Jobs
    <2> HIDE DEF d
    <2> QED BY <1>1, <1>2, <2>1, OnwardsSame DEF Ending
  <1>3. CASE job' = [[job EXCEPT !.state = "uninstall"] EXCEPT !.agreed = TRUE]
    <2>1. /\ job'.state = "uninstall" /\ job'.restores = job.restores
          /\ job'.reinstalls = job.reinstalls /\ job'.orphans = job.orphans
          /\ job'.target = job.target /\ job'.lost = job.lost /\ job'.declined = job.declined
      BY <1>1, <1>3 DEF Jobs
    <2>2. CopyGood'
      BY <2>1 DEF CopyGood
    <2> QED BY <1>1, <2>1, <2>2, StaysSame DEF OnTarget
  <1> QED BY <1>1, <1>2, <1>3, Asked DEF LowRisk

LEMMA StagePackageHeals == ASSUME Inv, Healing, StagePackage PROVE Healing'
  <1>1. UNCHANGED store /\ job.state = "fetch" /\ job \in Jobs
    BY DEF StagePackage, Inv
  <1>2. CASE job' = Failed(job)
    BY <1>1, <1>2, FailedSame
  <1>3. CASE \E stage : job' = [job EXCEPT !.state = "copy", !.stage = stage,
                                           !.left = job.lost[job.target]]
    <2>1. /\ job'.state = "copy" /\ job'.restores = job.restores
          /\ job'.reinstalls = job.reinstalls /\ job'.orphans = job.orphans
          /\ job'.target = job.target /\ job'.lost = job.lost /\ job'.declined = job.declined
          /\ job'.left = job.lost[job.target]
      BY <1>1, <1>3 DEF Jobs
    <2>2. CopyGood'
      BY <1>1, <2>1, SameStore DEF Healing, CopyGood, Covers
    <2> QED BY <1>1, <2>1, <2>2, StaysSame DEF OnTarget
  <1> QED BY <1>2, <1>3 DEF StagePackage

(* All that was lost has been copied, so the package is whole.             *)
LEMMA EndRestoreHeals == ASSUME Inv, Healing, EndRestore PROVE Healing'
  <1>1. /\ UNCHANGED store /\ job.state = "copy" /\ job \in Jobs /\ job.left = {}
        /\ job' = Onwards(job) /\ job.target \in Installed
    BY DEF EndRestore, Inv, TargetGood
  <1>2. Covers({}, job.target) /\ tree[job.target].here # None
    BY <1>1 DEF Healing, CopyGood
  <1>3. job.target \notin Pending
    BY <1>1, <1>2, Healed DEF Healing, Covers, Pending
  <1>4. job.declined \/ Pending \subseteq Planned
    BY <1>1, <1>3 DEF Healing, AllInPlan, Ending
  <1> QED BY <1>1, <1>4, OnwardsSame DEF Planned, Ending

LEMMA EndRepairHeals == ASSUME Healing, EndRepair PROVE Healing'
  BY SameStore, IdleHeals DEF EndRepair, Healing

LEMMA StutterHeals == ASSUME Healing, UNCHANGED vars PROVE Healing'
  <1>1. UNCHANGED store /\ job' = job /\ tree' = tree
    BY DEF vars, store
  <1> QED BY <1>1, SameStore DEF Healing, InTurn, LossKnown, Covers, CopyGood, AllInPlan, Planned
--------------------------------------------------------------------------------
(* A file that is copied is there, the others are as they were, and so is  *)
(* every other package.                                                    *)
LEMMA WithFileHeals ==
  ASSUME Inv, NEW p \in Installed, NEW f \in Files, NEW content \in Contents \union {Cut, None},
         tree' = WithFile(p, f, content), UNCHANGED <<row, snapshot>>
  PROVE  /\ tree'[p].here # None
         /\ LostFiles(p)' \subseteq LostFiles(p) \union {f}
         /\ content # None => f \notin LostFiles(p)'
         /\ \A q \in Packages \ {p} : tree'[q] = tree[q]
  <1> DEFINE base == IF tree[p].here = None THEN EmptyTree ELSE tree[p].here
             t == [base EXCEPT ![f] = content]
  <1>1. p \in Packages /\ "here" \in Homes /\ tree[p].here \in Trees
    BY DEF Installed, Inv, StoreType, Homes
  <1>2. base \in [Files -> Contents \union {Cut, None}]
    BY <1>1 DEF Trees, EmptyTree
  <1>3. \A g \in Files : base[g] = None => tree[p].here = None \/ tree[p].here[g] = None
    OBVIOUS
  <1> HIDE DEF base
  <1>4. t \in [Files -> Contents \union {Cut, None}] /\ t # None /\ t \in Trees
    BY <1>2, NoneAssumption DEF Trees
  <1>5. \A g \in Files : t[g] = IF g = f THEN content ELSE base[g]
    BY <1>2
  <1>6. tree' = [tree EXCEPT ![p].here = t]
    BY <1>1 DEF WithFile, base, Inv, StoreType
  <1> HIDE DEF t
  <1>7. tree'[p].here = t /\ \A q \in Packages \ {p} : tree'[q] = tree[q]
    BY <1>1, <1>4, <1>6, HereStep
  <1>8. LostFiles(p) # {} => row[p].engine = "msi" /\ p \in snapshot
    BY DEF LostFiles
  <1>9. CASE row[p].engine = "msi" /\ p \in snapshot
    <2>1. /\ LostFiles(p) = {g \in Files : tree[p].here = None \/ tree[p].here[g] = None}
          /\ LostFiles(p)' = {g \in Files : tree'[p].here = None \/ tree'[p].here[g] = None}
      BY <1>9 DEF LostFiles, Installed
    <2> QED BY <1>3, <1>4, <1>5, <1>7, <2>1
  <1>10. CASE ~(row[p].engine = "msi" /\ p \in snapshot)
    <2>1. LostFiles(p)' = {}
      BY <1>10 DEF LostFiles
    <2> QED BY <1>4, <1>7, <2>1
  <1> QED BY <1>9, <1>10

LEMMA RestoreFileHeals == ASSUME Inv, Healing, RestoreFile PROVE Healing'
  <1>0. PICK p : p = job.target
    OBVIOUS
  <1>1. PICK f \in job.left :
          /\ job.stage[f] # None /\ tree' = WithFile(p, f, job.stage[f])
          /\ job' = [job EXCEPT !.left = @ \ {f}]
    BY <1>0 DEF RestoreFile, Restorable
  <1>2. /\ UNCHANGED <<catalog, row, snapshot, changes>> /\ job.state = "copy" /\ job \in Jobs
        /\ p \in Installed /\ f \in Files /\ job.version = row[p].version /\ p \in Packages
        /\ job.stage \in {WholeTree(job.pick, job.version), EmptyTree}
        /\ job.pick \in Candidates(p) /\ p \notin job.restores
    BY <1>0 DEF RestoreFile, Inv, TargetGood, OnTarget, Jobs, Installed
  <1>3. job.stage[f] \in Contents \union {Cut, None}
    <2>1. row[p] \in Rows /\ job.pick \in Entries
      BY <1>2, CandidatesType DEF Inv, StoreType, Installed
    <2> QED BY <1>2, <2>1 DEF Rows, Contents, WholeTree, EmptyTree
  <1>4. /\ job'.state = "copy" /\ job'.restores = job.restores
        /\ job'.reinstalls = job.reinstalls /\ job'.orphans = job.orphans
        /\ job'.target = p /\ job'.lost = job.lost /\ job'.declined = job.declined
        /\ job'.left = job.left \ {f}
    BY <1>0, <1>1, <1>2 DEF Jobs
  <1>5. /\ tree'[p].here # None /\ LostFiles(p)' \subseteq LostFiles(p) \ {f}
        /\ \A q \in Packages \ {p} : tree'[q] = tree[q]
    BY <1>1, <1>2, <1>3, WithFileHeals
  <1>6. \A q \in Packages \ {p} : /\ LostFiles(q)' = LostFiles(q)
                                  /\ (q \in Incurable)' <=> q \in Incurable
                                  /\ (q \in Pending)' <=> q \in Pending
    BY <1>2, <1>5, OthersUnmoved
  <1>7. HomesGood' /\ Incurable' = Incurable
    BY <1>2 DEF Healing, HomesGood, Incurable, Installed
  <1>8. Covers(job.left, p)
    BY <1>0, <1>2 DEF Healing, CopyGood
  <1>9. CopyGood'
    <2>1. p \in Incurable' \/ LostFiles(p)' \subseteq job'.left
      BY <1>4, <1>5, <1>7, <1>8 DEF Covers
    <2>2. Covers(job.left, job.target)'
      BY <1>4, <2>1 DEF Covers
    <2> QED BY <1>4, <1>5, <2>2 DEF CopyGood, Covers
  <1>10. LossKnown'
    <2> SUFFICES ASSUME NEW q \in job.restores
                 PROVE  job.lost[q] # {} /\ (q \in Incurable' \/ LostFiles(q)' \subseteq job.lost[q])
      BY <1>4 DEF LossKnown, Covers
    <2>1. q \in Packages \ {p} /\ job.lost[q] # {} /\ Covers(job.lost[q], q)
      BY <1>2 DEF Jobs, Healing, LossKnown, Ending
    <2> QED BY <1>6, <1>7, <2>1 DEF Covers
  <1>11. \A q \in Pending' : q \in Pending \/ q = p
    BY <1>6 DEF Pending, Ailing, OrphanDirs, Restores, Reinstalls, Installed
  <1> QED BY <1>0, <1>2, <1>4, <1>7, <1>9, <1>10, <1>11, StaysHeals DEF OnTarget

(* A repair that ends where it changed the files of a package.             *)
LEMMA BrokenOffHeals ==
  ASSUME Inv, Healing, job.state \in OnTarget, UNCHANGED row, job' \in {Failed(job), Idle}
  PROVE  Healing'
  <1>1. HomesGood' /\ job.orphans = {} /\ job \in Jobs
    BY DEF Inv, Healing, InTurn, HomesGood, Installed
  <1> QED BY <1>1, FailedHeals, IdleHeals

LEMMA RestoreFailsHeals == ASSUME Inv, Healing, RestoreFails PROVE Healing'
  BY BrokenOffHeals DEF RestoreFails, OnTarget

LEMMA KilledHeals == ASSUME Inv, Healing, Killed PROVE Healing'
  <1>1. job' = Idle /\ UNCHANGED <<row, snapshot>>
    BY DEF Killed
  <1>2. HomesGood'
    BY <1>1 DEF Healing, HomesGood, Installed
  <1> QED BY <1>1, <1>2, IdleHeals

LEMMA UninstallHeals == ASSUME Inv, Healing, Uninstall PROVE Healing'
  <1>0. PICK p : p = Name[job.pick]
    OBVIOUS
  <1>1. /\ job.state = "uninstall" /\ job \in Jobs /\ UNCHANGED <<catalog, changes>>
    BY DEF Uninstall, Inv
  <1>2. ASSUME job' = [job EXCEPT !.state = "install"]
        PROVE  /\ job'.state = "install" /\ job'.restores = job.restores
               /\ job'.reinstalls = job.reinstalls /\ job'.orphans = job.orphans
               /\ job'.target = job.target /\ job'.pick = job.pick
               /\ job'.lost = job.lost /\ job'.declined = job.declined /\ CopyGood'
    BY <1>1, <1>2 DEF Jobs, CopyGood
  <1>3. CASE p \notin Installed
    <2>1. UNCHANGED store /\ job' = [job EXCEPT !.state = "install"]
      BY <1>0, <1>1, <1>3 DEF Uninstall, store
    <2> QED BY <1>1, <1>2, <2>1, StaysSame DEF OnTarget
  <1>4. CASE /\ p \in Installed /\ row' = [row EXCEPT ![p] = None]
             /\ snapshot' = snapshot \ {p}
             /\ tree' = Uninstalled(p) \/ UNCHANGED tree
             /\ job' = [job EXCEPT !.state = "install"]
    <2>1. \A q \in Packages \ {p} : row'[q] = row[q] /\ tree'[q] = tree[q]
      BY <1>4, UninstalledTrees DEF Inv, StoreType
    <2>2. p \notin Installed' /\ LostFiles(p)' = {}
      BY <1>4 DEF Inv, StoreType, Installed, LostFiles
    <2>3. HomesGood'
      BY <2>1, <2>2, HomesStep DEF Healing
    <2>4. \A q \in Packages \ {p} : /\ LostFiles(q)' = LostFiles(q)
                                    /\ (q \in Incurable)' <=> q \in Incurable
                                    /\ (q \in Pending)' <=> q \in Pending
      BY <1>4, <2>1, OthersUnmoved
    <2>5. LossKnown'
      <3> SUFFICES ASSUME NEW q \in job.restores
                   PROVE  job.lost[q] # {} /\ (q \in Incurable' \/ LostFiles(q)' \subseteq job.lost[q])
        BY <1>2, <1>4 DEF LossKnown, Covers
      <3>1. q \in Packages /\ job.lost[q] # {} /\ Covers(job.lost[q], q)
        BY <1>1 DEF Jobs, Healing, LossKnown, Ending
      <3> QED BY <2>2, <2>4, <3>1 DEF Covers
    <2>6. \A q \in Pending' : q \in Pending \/ q = p
      BY <2>4 DEF Pending, Ailing, OrphanDirs, Restores, Reinstalls, Installed
    <2> QED BY <1>0, <1>1, <1>2, <1>4, <2>3, <2>5, <2>6, StaysHeals DEF OnTarget
  <1>5. CASE job' = Failed(job) /\ UNCHANGED row
    BY <1>1, <1>5, BrokenOffHeals DEF OnTarget
  <1> QED BY <1>0, <1>1, <1>3, <1>4, <1>5 DEF Uninstall, InventoryWithout

(* A package that installs under packages\ is whole there when it is new.  *)
LEMMA NewWhole ==
  ASSUME NEW p \in Entries, NEW v \in Versions, NEW e, HomeOf(p, e) = "here"
  PROVE  TreesOf(p, v, e).here # None /\ \A f \in Files : TreesOf(p, v, e).here[f] # None
  <1>0. e # "font"
    BY DEF HomeOf
  <1>1. TreesOf(p, v, e) = [here |-> WholeTree(p, v), away |-> None]
    BY <1>0 DEF TreesOf
  <1>2. WholeTree(p, v) \in [Files -> Contents] /\ Contents \subseteq Contents \union {Cut, None}
    BY DEF WholeTree, Contents
  <1>3. WholeTree(p, v) # None
    BY <1>2, NoneAssumption
  <1> QED BY <1>1, <1>2, <1>3, NoneAssumption

LEMMA ReinstallHeals == ASSUME Inv, Healing, Reinstall PROVE Healing'
  <1>0. PICK e, p : e = job.pick /\ p = Name[e]
    OBVIOUS
  <1>1. /\ job.state = "install" /\ job \in Jobs /\ job.target \in Packages
        /\ e \in Candidates(job.target) /\ UNCHANGED <<catalog, changes>>
        /\ job.orphans = {} /\ job.restores \subseteq Packages
    BY <1>0 DEF Reinstall, Inv, TargetGood, OnTarget, Jobs, Healing, InTurn
  <1>2. e \in Entries /\ p \in Packages /\ Engines[e] \subseteq EngineKinds /\ e \in Own(p)
    BY <1>0, <1>1, CandidatesType, DriftAssumption DEF Own
  <1>3. CASE job' = Failed(job) /\ UNCHANGED row
    BY <1>1, <1>3, BrokenOffHeals DEF OnTarget
  <1>4. CASE \E engine \in Engines[e] :
               /\ catalog[e] # None
               /\ row' = [row EXCEPT ![p] = NewRow(e, catalog[e], engine)]
               /\ tree' = [tree EXCEPT ![p] = TreesOf(e, catalog[e], engine)]
               /\ snapshot' = IF engine = "msi" THEN InventoryWith(p) ELSE InventoryWithout(p)
               /\ job' = Onwards(job)
    <2>1. PICK engine \in Engines[e] :
               /\ catalog[e] # None
               /\ row' = [row EXCEPT ![p] = NewRow(e, catalog[e], engine)]
               /\ tree' = [tree EXCEPT ![p] = TreesOf(e, catalog[e], engine)]
               /\ snapshot' = IF engine = "msi" THEN InventoryWith(p) ELSE InventoryWithout(p)
               /\ job' = Onwards(job)
      BY <1>4
    <2> DEFINE v == catalog[e]
    <2>2. v \in Versions /\ engine \in EngineKinds
      BY <1>2, <2>1 DEF Inv, StoreType
    <2>3. row'[p] = NewRow(e, v, engine) /\ tree'[p] = TreesOf(e, v, engine)
      BY <1>2, <2>1 DEF Inv, StoreType
    <2>4. /\ \A q \in Packages \ {p} : row'[q] = row[q] /\ tree'[q] = tree[q]
          /\ snapshot' \ {p} = snapshot \ {p}
      BY <1>2, <2>1 DEF Inv, StoreType, InventoryWith, InventoryWithout
    <2> HIDE DEF v
    <2>5. /\ p \in Installed' /\ row'[p].engine = engine
          /\ row'[p].home = HomeOf(e, engine)
      <3>1. NewRow(e, v, engine) # None
        BY <2>2, NewRowType
      <3> QED BY <1>2, <2>3, <3>1 DEF Installed, NewRow
    <2>6. HomesGood'
      BY <2>4, <2>5, HomesStep DEF Healing, HomeOf
    <2>7. \A q \in Packages \ {p} : /\ LostFiles(q)' = LostFiles(q)
                                    /\ (q \in Incurable)' <=> q \in Incurable
                                    /\ (q \in Pending)' <=> q \in Pending
      BY <2>4, OthersUnmoved
    <2>8. /\ p \in Incurable' \/ LostFiles(p)' = {}
          /\ p \notin Pending'
      <3>1. CASE HomeOf(e, engine) = "here"
        <4>1. tree'[p].here # None /\ \A f \in Files : tree'[p].here[f] # None
          BY <1>2, <2>2, <2>3, <3>1, NewWhole
        <4>2. LostFiles(p)' = {}
          BY <4>1 DEF LostFiles
        <4>3. row'[p].engine # "font" /\ row'[p].home = "here"
          BY <2>5, <3>1 DEF HomeOf
        <4>4. ~DirectoryDrifts(p)'
          BY <4>1, <4>3 DEF DirectoryDrifts
        <4> QED BY <2>5, <4>2, <4>4 DEF Pending, Ailing, OrphanDirs, Restores, Reinstalls
      <3>2. CASE HomeOf(e, engine) = "away"
        BY <1>2, <2>5, <3>2 DEF Incurable, Pending
      <3>3. HomeOf(e, engine) \in {"here", "away"}
        BY DEF HomeOf
      <3> QED BY <3>1, <3>2, <3>3
    <2>9. job.target = p \/ job.target \in Incurable
      BY <1>1, <1>2 DEF Incurable, Own
    <2>10. Pending' \subseteq Packages
      BY DEF Pending, Ailing, OrphanDirs, Restores, Reinstalls, Installed
    <2>11. job.declined \/ Pending' \subseteq job.orphans \union job.restores \union job.reinstalls
      <3> SUFFICES ASSUME ~job.declined, NEW q \in Pending'
                   PROVE  q \in job.orphans \union job.restores \union job.reinstalls
        OBVIOUS
      <3>1. q \in Packages /\ q # p /\ q \in Pending /\ q # job.target
        BY <2>7, <2>8, <2>9, <2>10 DEF Pending
      <3> QED BY <1>0, <1>1, <3>1 DEF Healing, AllInPlan, Planned, Ending
    <2>12. \A q \in job.restores :
              job.lost[q] # {} /\ (q \in Incurable' \/ LostFiles(q)' \subseteq job.lost[q])
      <3> SUFFICES ASSUME NEW q \in job.restores
                   PROVE  job.lost[q] # {} /\ (q \in Incurable' \/ LostFiles(q)' \subseteq job.lost[q])
        OBVIOUS
      <3>1. job.lost[q] # {} /\ Covers(job.lost[q], q)
        BY <1>1 DEF Healing, LossKnown, Ending
      <3> QED BY <1>1, <2>7, <2>8, <3>1 DEF Covers
    <2> QED BY <1>1, <2>1, <2>6, <2>11, <2>12, OnwardsHeals
  <1> QED BY <1>0, <1>1, <1>3, <1>4 DEF Reinstall

(* Files get lost only when no repair has a plan.                          *)
LEMMA LoseFilesHeals == ASSUME Healing, LoseFiles PROVE Healing'
  <1>1. job.state = "idle" /\ UNCHANGED <<row, job>> /\ Installed' = Installed
    BY DEF LoseFiles, Installed
  <1> QED BY <1>1 DEF Healing, HomesGood, InTurn, LossKnown, CopyGood, AllInPlan, OnTarget, Ending

LEMMA CatalogMovesHeals == ASSUME Healing, CatalogMoves PROVE Healing'
  <1>1. UNCHANGED <<row, tree, snapshot, job>>
    BY DEF CatalogMoves
  <1>2. Installed' = Installed /\ (\A p : LostFiles(p)' = LostFiles(p))
    BY <1>1 DEF Installed, LostFiles
  <1>3. Incurable' = Incurable /\ Pending' = Pending /\ (HomesGood => HomesGood')
    <2>1. \A p : DirectoryDrifts(p)' <=> DirectoryDrifts(p)
      BY <1>1 DEF DirectoryDrifts
    <2>2. OrphanDirs' = OrphanDirs /\ Restores' = Restores /\ Reinstalls' = Reinstalls
      BY <1>1, <1>2, <2>1 DEF OrphanDirs, Restores, Reinstalls
    <2> QED BY <1>1, <1>2, <2>2 DEF Ailing, Pending, Incurable, HomesGood
  <1> QED BY <1>1, <1>2, <1>3
      DEF Healing, InTurn, LossKnown, Covers, CopyGood, AllInPlan, Planned

LEMMA StepHeals == ASSUME Inv, Healing, [Next]_vars PROVE Healing'
  BY StartHeals, AskOrphansHeals, CleanOrphanHeals, EndOrphansHeals, AskRestoreHeals,
     ResolveRestoreHeals, AskFallbackHeals, StagePackageHeals, RestoreFileHeals,
     RestoreFailsHeals, EndRestoreHeals, AskReinstallHeals, FindReplacementHeals,
     UninstallHeals, ReinstallHeals, EndRepairHeals, KilledHeals, LoseFilesHeals,
     CatalogMovesHeals, StutterHeals
  DEF Next, RepairStep

(* A repair of which nothing was declined and nothing failed leaves no     *)
(* package ailing, but for those that are installed elsewhere or whose     *)
(* name can be taken for another, whichever entry of the name a search     *)
(* ranks first: no group skips a package, none is done before its files    *)
(* are back, and none breaks what an earlier one has healed.               *)
THEOREM RepairLeavesNothing == Spec => []RepairHeals
  <1>1. Init => Inv /\ Healing
    BY InitGood, InitHeals
  <1>2. Inv /\ Healing /\ [Next]_vars => (Inv /\ Healing)'
    BY StepGood, StepHeals
  <1> QED BY <1>1, <1>2, HealingHeals, PTL DEF Spec
================================================================================
