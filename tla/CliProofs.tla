----------------------------- MODULE CliProofs -----------------------------
(***************************************************************************)
(* Theorems about Cli for any number of processes, packages, versions and  *)
(* commands, and for every class of failure.                               *)
(*                                                                         *)
(* Type correctness is not inductive by itself: the metadata a commit      *)
(* writes comes from the row of its package, which is there only because   *)
(* the commit holds SQLite's write lock.  Inv adds CommitIsExclusive, and  *)
(* OwnersWereInstalled, which needs nothing else.  The proof that a step   *)
(* preserves Inv goes through the shape of the step: what a process does   *)
(* outside its transaction, on entering it, inside it and on leaving it    *)
(* (OutsideTx, EntersTx, InsideTx, LeavesTx).                              *)
(***************************************************************************)
EXTENDS Cli, SequenceTheorems, TLAPS

(* Facts about journal files that hold for every content and metadata.     *)

(* The lines of a file are a sequence of lines, whether it exists or not.  *)
LEMMA FileLines ==
  ASSUME NEW f \in Files
  PROVE  /\ f.lines \in Seq(Lines) /\ f.exists \in BOOLEAN
         /\ f.ended \in BOOLEAN /\ f.utf8 \in BOOLEAN
<1>1. <<>> \in Seq(Lines) OBVIOUS
<1>2. CASE f = NoFile BY <1>1, <1>2 DEF NoFile
<1>3. CASE f \in [exists : {TRUE}, lines : Seq(Lines), ended : BOOLEAN, utf8 : BOOLEAN]
  BY <1>3
<1> QED BY <1>2, <1>3 DEF Files

(* Every way bytes can arrive at the end of a file gives a file.           *)
LEMMA ExtendType ==
  ASSUME NEW f \in Files, NEW s \in Seq(Lines), s # <<>>, NEW e \in BOOLEAN
  PROVE  Extend(f, s, e) \in Files
<1>1. f.lines \in Seq(Lines) BY FileLines
<1>2. Tail(s) \in Seq(Lines) /\ <<BadLine>> \in Seq(Lines) BY DEF Lines
<1>3. SubSeq(f.lines, 1, Len(f.lines) - 1) \in Seq(Lines)
  <2>1. \A i \in 1 .. Len(f.lines) - 1 : f.lines[i] \in Lines BY <1>1
  <2> QED BY <1>1, <2>1, SubSeqProperties
<1>4. f.lines \o s \in Seq(Lines) BY <1>1
<1>5. SubSeq(f.lines, 1, Len(f.lines) - 1) \o <<BadLine>> \o Tail(s) \in Seq(Lines)
  BY <1>2, <1>3
<1> DEFINE joined == IF f.ended THEN f.lines \o s
                     ELSE SubSeq(f.lines, 1, Len(f.lines) - 1) \o <<BadLine>> \o Tail(s)
<1>6. joined \in Seq(Lines) /\ joined # <<>>
  <2>1. CASE f.ended BY <1>1, <1>4, <2>1
  <2>2. CASE ~f.ended
    <3> DEFINE a == SubSeq(f.lines, 1, Len(f.lines) - 1)
    <3>1. a \in Seq(Lines) /\ Tail(s) \in Seq(Lines) /\ BadLine \in Lines
      BY <1>2, <1>3 DEF Lines
    <3> HIDE DEF a
    <3>2. Len(a \o <<BadLine>> \o Tail(s)) = Len(a) + 1 + Len(Tail(s)) BY <3>1
    <3>3. Len(a) + 1 + Len(Tail(s)) # 0 BY <3>1
    <3> QED BY <1>5, <2>2, <3>2, <3>3 DEF a
  <2> QED BY <2>1, <2>2
<1> HIDE DEF joined
<1>7. <<joined[Len(joined)]>> \in Seq(Lines) BY <1>6
<1>8. (IF f.utf8 THEN joined ELSE <<joined[Len(joined)]>>) \in Seq(Lines) BY <1>6, <1>7
<1>9. f.utf8 \in BOOLEAN BY FileLines
<1> QED BY <1>8, <1>9 DEF Extend, Files, joined

(* What a write leaves, complete or torn, is a file.                       *)
LEMMA WriteType ==
  ASSUME NEW f \in Files, NEW m \in Metas
  PROVE  /\ Written(f, m) \in Files
         /\ TornWrites(f, m) \subseteq Files
<1>1. MetaLine(m) \in Lines /\ CommitLine \in Lines /\ BadLine \in Lines
  BY DEF Lines, MetaLine
<1>2. /\ <<MetaLine(m), CommitLine>> \in Seq(Lines)
      /\ <<MetaLine(m), BadLine>> \in Seq(Lines)
      /\ <<MetaLine(m)>> \in Seq(Lines)
      /\ <<BadLine>> \in Seq(Lines)
  BY <1>1
<1>3. /\ <<MetaLine(m), CommitLine>> # <<>> /\ <<MetaLine(m), BadLine>> # <<>>
      /\ <<MetaLine(m)>> # <<>> /\ <<BadLine>> # <<>>
  OBVIOUS
<1>4. Written(f, m) \in Files BY <1>2, <1>3, ExtendType DEF Written
<1>5. Garbled \in Files BY <1>2 DEF Garbled, Files
<1> QED BY <1>2, <1>3, <1>4, <1>5, ExtendType DEF TornWrites

(* open_at hands out an open file only where it may, and an existing one.  *)
LEMMA OpenedType ==
  ASSUME NEW f \in Files
  PROVE  /\ Opened(f) \in Files
         /\ Openable(f) => Openable(Opened(f))
<1>1. EmptyFile \in Files
  <2>1. <<>> \in Seq(Lines) OBVIOUS
  <2> QED BY <2>1 DEF EmptyFile, Files
<1>2. EmptyFile.exists /\ EmptyFile.utf8 /\ EmptyFile.lines = <<>> BY DEF EmptyFile
<1>3. Openable(EmptyFile) BY <1>2 DEF Openable, Incomplete, AllMeta
<1> QED BY <1>1, <1>3 DEF Opened

(* What open_at lets a writer open is not committed.                       *)
LEMMA OpenableIsNotCommitted ==
  ASSUME NEW f \in Files, Openable(f)
  PROVE  ~Committed(f)
<1>1. CASE ~f.exists
  <2>1. f = NoFile BY <1>1 DEF Files
  <2>2. f.lines = <<>> BY <2>1 DEF NoFile
  <2> QED BY <2>2 DEF Committed
<1>2. CASE Incomplete(f)
  <2>1. f.lines \in Seq(Lines) BY FileLines
  <2>2. f.lines # <<>> => Len(f.lines) \in 1 .. Len(f.lines) BY <2>1
  <2> QED BY <1>2, <2>2 DEF Incomplete, AllMeta, Committed
<1>3. CASE ~f.utf8 BY <1>3 DEF Committed
<1> QED BY <1>1, <1>2, <1>3 DEF Openable

(* What replay reads from a journal it accepts is metadata.                *)
LEMMA FirstMetaType ==
  ASSUME NEW f \in Files, Replayable(f)
  PROVE  FirstMeta(f) \in Metas
<1>1. f.lines \in Seq(Lines) BY FileLines
<1>2. f.lines # <<>>
  BY <1>1 DEF Replayable, Committed, TrailingEntries
<1>3. f.lines[1] \in Lines BY <1>1, <1>2
<1> QED BY <1>3 DEF Replayable, FirstMeta, Lines, CommitLine, BadLine

(* What open_at lets a writer open cannot be read or holds only metadata,  *)
(* and bytes added to it never put an entry after a Commit that a reader   *)
(* sees: a Commit is the last line added.                                  *)
LEMMA ExtendHasNoTrailing ==
  ASSUME NEW f \in Files, Openable(f), NEW s \in Seq(Lines), Len(s) \in {1, 2},
         s[1].tag # "commit", NEW e
  PROVE  ~TrailingEntries(Extend(f, s, e))
<1>1. f.lines \in Seq(Lines) BY FileLines
<1>0. CASE ~f.utf8 BY <1>0 DEF Extend, TrailingEntries
<1> SUFFICES ASSUME f.utf8 PROVE ~TrailingEntries(Extend(f, s, e)) BY <1>0
<1>2. \A i \in 1 .. Len(f.lines) : f.lines[i].tag = "meta"
  <2>1. CASE ~f.exists
    <3>1. f = NoFile BY <2>1 DEF Files
    <3>2. f.lines = <<>> BY <3>1 DEF NoFile
    <3> QED BY <3>2
  <2>2. CASE Incomplete(f) BY <2>2 DEF Incomplete, AllMeta
  <2> QED BY <2>1, <2>2 DEF Openable
<1>3. CASE f.ended
  <2>1. Extend(f, s, e).lines = f.lines \o s BY <1>3 DEF Extend
  <2>2. \A i \in 1 .. Len(f.lines \o s) - 1 : (f.lines \o s)[i].tag # "commit"
    <3> DEFINE n == Len(f.lines)
    <3>1. n \in Nat /\ Len(f.lines \o s) = n + Len(s) BY <1>1
    <3>2. ASSUME NEW i \in 1 .. n PROVE (f.lines \o s)[i] = f.lines[i] BY <1>1
    <3>3. (f.lines \o s)[n + 1] = s[1] BY <1>1
    <3> HIDE DEF n
    <3>4. ASSUME NEW i \in 1 .. n + Len(s) - 1 PROVE i \in 1 .. n \/ i = n + 1
      <4>1. CASE Len(s) = 1 BY <3>1, <4>1
      <4>2. CASE Len(s) = 2 BY <3>1, <4>2
      <4> QED BY <4>1, <4>2
    <3> QED BY <1>2, <3>1, <3>2, <3>3, <3>4 DEF n
  <2> QED BY <2>1, <2>2 DEF TrailingEntries
<1>4. CASE ~f.ended
  <2> DEFINE n == Len(f.lines)
             a == SubSeq(f.lines, 1, n - 1)
             g == a \o <<BadLine>> \o Tail(s)
  <2>1. Extend(f, s, e).lines = g BY <1>4 DEF Extend
  <2>2. n \in Nat BY <1>1
  <2>3. a \in Seq(Lines) /\ \A i \in 1 .. Len(a) : a[i].tag = "meta"
    <3>1. \A i \in 1 .. n - 1 : f.lines[i] \in Lines BY <1>1
    <3>2. /\ a \in Seq(Lines) /\ Len(a) = (IF 1 <= n - 1 THEN n - 1 ELSE 0)
          /\ \A i \in 1 .. n - 1 : a[i] = f.lines[i]
      BY <1>1, <2>2, <3>1, SubSeqProperties
    <3> QED BY <1>2, <2>2, <3>2
  <2> HIDE DEF a
  <2>4. Tail(s) \in Seq(Lines) /\ Len(Tail(s)) \in {0, 1}
    <3>1. s # <<>> OBVIOUS
    <3> QED BY <3>1, HeadTailProperties
  <2>5. BadLine \in Lines /\ BadLine.tag = "bad" BY DEF BadLine, Lines
  <2> DEFINE n1 == Len(a)
             b == a \o <<BadLine>>
             t == Tail(s)
  <2>6. \A i \in 1 .. Len(g) - 1 : g[i].tag # "commit"
    <3>1. n1 \in Nat /\ b \in Seq(Lines) /\ Len(b) = n1 + 1 BY <2>3, <2>5
    <3>2. \A i \in 1 .. n1 : b[i] = a[i] BY <2>3, <2>5
    <3>3. b[n1 + 1] = BadLine BY <2>3, <2>5
    <3>4. g = b \o t OBVIOUS
    <3> HIDE DEF b, t, g
    <3>5. t \in Seq(Lines) /\ Len(t) \in {0, 1} BY <2>4 DEF t
    <3>6. Len(g) = n1 + 1 + Len(t)
      <4>1. Len(b \o t) = Len(b) + Len(t) BY <3>1, <3>5
      <4> QED BY <3>1, <3>4, <4>1
    <3>7. \A i \in 1 .. n1 + 1 : g[i] = b[i] BY <3>1, <3>4, <3>5
    <3> HIDE DEF n1
    <3>8. ASSUME NEW i \in 1 .. Len(g) - 1 PROVE i \in 1 .. n1 + 1 /\ (i \in 1 .. n1 \/ i = n1 + 1)
      <4>1. CASE Len(t) = 0 BY <3>1, <3>6, <4>1
      <4>2. CASE Len(t) = 1 BY <3>1, <3>6, <4>2
      <4> QED BY <3>5, <4>1, <4>2
    <3>9. \A i \in 1 .. n1 : b[i].tag = "meta" BY <2>3, <3>2 DEF n1
    <3> QED BY <2>5, <3>3, <3>7, <3>8, <3>9
  <2> QED BY <2>1, <2>6 DEF TrailingEntries
<1> QED BY <1>3, <1>4

(* So neither opening such a journal nor writing to it, wholly or torn,    *)
(* gives one with trailing entries.                                        *)
LEMMA RewritesHaveNoTrailing ==
  ASSUME NEW f \in Files, Openable(f)
  PROVE  /\ ~TrailingEntries(Opened(f))
         /\ \A m \in Metas : \A g \in TornWrites(f, m) : ~TrailingEntries(g)
<1>1. ~TrailingEntries(f)
  <2>1. f.lines \in Seq(Lines) BY FileLines
  <2>2. CASE ~f.exists
    <3>1. f = NoFile BY <2>2 DEF Files
    <3> QED BY <3>1 DEF NoFile, TrailingEntries
  <2>3. CASE Incomplete(f)
    <3>1. \A i \in 1 .. Len(f.lines) - 1 : f.lines[i].tag = "meta"
      BY <2>1, <2>3 DEF Incomplete, AllMeta
    <3> QED BY <3>1 DEF TrailingEntries
  <2>4. CASE ~f.utf8 BY <2>4 DEF TrailingEntries
  <2> QED BY <2>2, <2>3, <2>4 DEF Openable
<1>2. ~TrailingEntries(EmptyFile) BY DEF TrailingEntries, EmptyFile
<1>3. ASSUME NEW m \in Metas, NEW g \in TornWrites(f, m)
      PROVE  ~TrailingEntries(g)
  <2>1. MetaLine(m) \in Lines /\ CommitLine \in Lines /\ BadLine \in Lines
        /\ MetaLine(m).tag = "meta" /\ BadLine.tag = "bad"
    BY DEF Lines, MetaLine, BadLine
  <2> DEFINE Good(s) == s \in Seq(Lines) /\ Len(s) \in {1, 2} /\ s[1].tag # "commit"
  <2>2. /\ Good(<<MetaLine(m), CommitLine>>) /\ Good(<<MetaLine(m), BadLine>>)
        /\ Good(<<MetaLine(m)>>) /\ Good(<<BadLine>>)
    BY <2>1
  <2>3. ~TrailingEntries(Garbled) BY DEF TrailingEntries, Garbled
  <2> QED BY <1>1, <1>3, <2>2, <2>3, ExtendHasNoTrailing DEF TornWrites, Written
<1> QED BY <1>1, <1>2, <1>3 DEF Opened
--------------------------------------------------------------------------------

Inv == TypeOK /\ CommitIsExclusive /\ OwnersWereInstalled

OthersStay(c) == \A d \in Procs \ {c} : proc'[d] = proc[d]

OutsideTx(c) ==
  /\ proc[c].pc \notin TxLabels /\ proc'[c].pc \notin TxLabels
  /\ writer' = writer
  /\ UNCHANGED <<rows, owner>> \/ writer = None
  /\ \A k \in Keys : journals'[k] \in {journals[k], NoFile}

EntersTx(c) ==
  /\ proc[c].pc \notin TxLabels /\ proc'[c].pc = "open"
  /\ proc'[c].pkg = proc[c].pkg /\ proc'[c].cmds = proc[c].cmds
  /\ writer = None /\ writer' = c
  /\ UNCHANGED <<rows, owner, journals>>
  /\ Present(proc[c].pkg) /\ ~CommandConflict(c)

(* What a transaction does to a journal: nothing, or what open_at and the  *)
(* write that follows do to one that open_at lets be opened; or it writes  *)
(* to one that it could not read.                                          *)
Rewritten(f, g) ==
  \/ g = f
  \/ Openable(f) /\ (g = Opened(f) \/ \E m \in Metas : g \in TornWrites(f, m))

Unread(c, k) == At(c, "blind") /\ k = JournalKey(c)

JournalStep(c) ==
  \A k \in Keys : Rewritten(journals[k], journals'[k]) \/ Unread(c, k)

InsideTx(c) ==
  /\ proc[c].pc \in TxLabels /\ proc'[c].pc \in TxLabels
  /\ proc'[c].pkg = proc[c].pkg /\ proc'[c].cmds = proc[c].cmds
  /\ UNCHANGED <<rows, owner, writer>>
  /\ JournalStep(c)
  /\ proc'[c].pc = "journal" => Openable(journals'[JournalKey(c)])
  /\ proc'[c].pc = "blind" => JournalReadFails

LeavesTx(c) ==
  /\ proc[c].pc \in TxLabels /\ proc'[c].pc \notin TxLabels
  /\ writer' = None
  /\ JournalStep(c)

Shape(c) ==
  /\ OthersStay(c)
  /\ OutsideTx(c) \/ EntersTx(c) \/ InsideTx(c) \/ LeavesTx(c)
----------------------------------------------------------------------------
(* How the steps of one process change its memory.                         *)

(* Moving to another label changes nothing else.                           *)
LEMMA GotoFacts ==
  ASSUME proc \in [Procs -> Locals], NEW c \in Procs, NEW label \in Labels,
         Goto(c, label)
  PROVE  /\ proc' \in [Procs -> Locals]
         /\ OthersStay(c)
         /\ proc'[c].pc = label
         /\ proc'[c].pkg = proc[c].pkg
         /\ proc'[c].ver = proc[c].ver
         /\ proc'[c].kind = proc[c].kind
         /\ proc'[c].cmds = proc[c].cmds
<1>1. proc[c] \in Locals OBVIOUS
<1>2. proc' = [proc EXCEPT ![c] = [proc[c] EXCEPT !.pc = label]]
  BY DEF Goto
<1>3. [proc[c] EXCEPT !.pc = label] \in Locals BY <1>1 DEF Locals
<1>4. proc'[c] = [proc[c] EXCEPT !.pc = label] BY <1>2
<1> QED BY <1>1, <1>2, <1>3, <1>4 DEF OthersStay, Locals

(* A process that ends keeps nothing.                                      *)
LEMMA ExitFacts ==
  ASSUME proc \in [Procs -> Locals], NEW c \in Procs, Exit(c)
  PROVE  /\ proc' \in [Procs -> Locals]
         /\ OthersStay(c)
         /\ proc'[c] = Fresh /\ proc'[c].pc = "idle"
<1>1. Fresh \in Locals BY DEF Fresh, Locals, Labels
<1>2. Fresh.pc = "idle" BY DEF Fresh
<1> QED BY <1>1, <1>2 DEF Exit, OthersStay
----------------------------------------------------------------------------
(* The operations on the store keep its types.                             *)

(* update_status leaves rows where there were rows.                        *)
LEMMA SetStatusType ==
  ASSUME TypeOK, NEW p, NEW s \in {"installing", "ok", "failed"}, SetStatus(p, s)
  PROVE  rows' \in [Packages -> Rows]
<1>1. ASSUME NEW r \in Rows, r.status # "absent"
      PROVE  [r EXCEPT !.status = s] \in Rows
  BY <1>1 DEF Rows, NoRow
<1> QED BY <1>1 DEF SetStatus, Present, TypeOK

(* So do insertion, deletion and the registry's updates.                   *)
LEMMA InsertRowType ==
  ASSUME TypeOK, NEW p, NEW v \in Versions, NEW k \in EngineKinds,
         NEW s \in {"installing", "ok", "failed"}, InsertRow(p, v, k, s)
  PROVE  rows' \in [Packages -> Rows]
<1>1. [status |-> s, ver |-> v, kind |-> k] \in Rows BY DEF Rows
<1> QED BY <1>1 DEF InsertRow, TypeOK

LEMMA DeleteRowType ==
  ASSUME TypeOK, NEW p, DeleteRow(p)
  PROVE  rows' \in [Packages -> Rows] /\ owner' \in [Commands -> Packages \cup {None}]
<1>1. NoRow \in Rows BY DEF Rows
<1> QED BY <1>1 DEF DeleteRow, TypeOK

LEMMA SyncCommandsType ==
  ASSUME TypeOK, NEW p \in Packages, NEW cs, SyncCommands(p, cs)
  PROVE  owner' \in [Commands -> Packages \cup {None}]
  BY DEF SyncCommands, TypeOK

(* And those on directories and shims.                                     *)
LEMMA CleanupType ==
  ASSUME TypeOK, NEW d, Cleanup(d) \/ CleanupFails(d)
  PROVE  dirs' \in [Paths -> Versions \cup {None, Partial}]
  BY DEF Cleanup, CleanupFails, TypeOK

LEMMA WriteShimsType ==
  ASSUME TypeOK, NEW p \in Packages \cup {None}, NEW cs, WriteShims(cs, p)
  PROVE  shims' \in [Commands -> Packages \cup {None}]
  BY DEF WriteShims, TypeOK
----------------------------------------------------------------------------
(* The operations on the store and the owners of commands.                 *)

(* What a step does to the registry: no command changes hands, and every   *)
(* owner is a package that was installed.                                  *)
KeepsOwners == \A x \in Commands : owner[x] # None => owner'[x] \in {owner[x], None}

OwnersGood == OwnersWereInstalled' /\ KeepsOwners

LEMMA SameOwners ==
  ASSUME Inv, UNCHANGED <<rows, owner>>
  PROVE  OwnersGood
  BY DEF OwnersGood, KeepsOwners, Inv, OwnersWereInstalled

LEMMA SetStatusOwners ==
  ASSUME Inv, NEW p, NEW s \in {"ok", "failed"}, SetStatus(p, s), UNCHANGED owner
  PROVE  OwnersGood
<1>1. \A q \in Packages : rows'[q] = rows[q] \/ rows'[q].status = s
  BY DEF SetStatus, Present, Inv, TypeOK, Rows, NoRow
<1> QED BY <1>1 DEF OwnersGood, KeepsOwners, Inv, TypeOK, OwnersWereInstalled

LEMMA NewRowOwners ==
  ASSUME Inv, NEW p, NEW v, NEW k, NEW s, ~Present(p), InsertRow(p, v, k, s),
         UNCHANGED owner
  PROVE  OwnersGood
<1>1. \A x \in Commands : owner[x] # p \/ owner[x] = None
  BY DEF Present, Inv, OwnersWereInstalled
<1> QED BY <1>1 DEF OwnersGood, KeepsOwners, Inv, TypeOK, OwnersWereInstalled, InsertRow

LEMMA DeleteRowOwners ==
  ASSUME Inv, NEW p, DeleteRow(p)
  PROVE  OwnersGood
  BY DEF OwnersGood, KeepsOwners, Inv, TypeOK, OwnersWereInstalled, DeleteRow

(* sync_package_commands after its row was made ok.                        *)
LEMMA SyncOwners ==
  ASSUME Inv, NEW p \in Packages, NEW cs, ~Claimed(p, cs), SyncCommands(p, cs),
         NEW r, r.status = "ok", rows' = [rows EXCEPT ![p] = r]
  PROVE  OwnersGood
<1>1. \A x \in Commands : x \in cs => owner[x] \in {None, p} BY DEF Claimed
<1>2. KeepsOwners
  BY <1>1, NoneIsFresh DEF KeepsOwners, SyncCommands
<1>3. rows'[p].status = "ok" /\ \A q \in Packages \ {p} : rows'[q] = rows[q]
  BY DEF Inv, TypeOK
<1>4. \A x \in Commands : owner'[x] \in {None, p} \/ (owner'[x] = owner[x] /\ owner[x] # p)
  BY DEF SyncCommands
<1> QED BY <1>2, <1>3, <1>4 DEF OwnersGood, Inv, TypeOK, OwnersWereInstalled
----------------------------------------------------------------------------
(* Every step has one of the four shapes, keeps the types and the owners.  *)

Good(c) == TypeOK' /\ OwnersGood /\ PlanIsSet(proc'[c]) /\ Shape(c)

(* What most steps outside the transaction have in common.                 *)

StoreTypes ==
  /\ rows \in [Packages -> Rows]
  /\ owner \in [Commands -> Packages \cup {None}]
  /\ dirs \in [Paths -> Versions \cup {None, Partial}]
  /\ journals \in [Keys -> Files]
  /\ shims \in [Commands -> Packages \cup {None}]

StoreStep ==
  /\ StoreTypes'
  /\ writer' = writer
  /\ UNCHANGED <<rows, owner>> \/ writer = None
  /\ OwnersGood
  /\ \A k \in Keys : journals'[k] \in {journals[k], NoFile}

(* A step that stays outside and keeps the plan complete is good.          *)
LEMMA OutsideIsGood ==
  ASSUME Inv, NEW c \in Procs, StoreStep,
         proc' \in [Procs -> Locals], OthersStay(c), PlanIsSet(proc'[c]),
         proc[c].pc \notin TxLabels, proc'[c].pc \notin TxLabels
  PROVE  Good(c)
  BY DEF StoreStep, StoreTypes, Good, TypeOK, Inv, Shape, OutsideTx

(* Moving on within the plan, and ending, are such steps.                  *)
LEMMA OutsideGoto ==
  ASSUME Inv, NEW c \in Procs, StoreStep, NEW l \in Labels \ TxLabels, Goto(c, l),
         proc[c].pc \in PlannedLabels \ TxLabels
  PROVE  Good(c)
<1>1. proc \in [Procs -> Locals] BY DEF Inv, TypeOK
<1>2. PlanIsSet(proc[c]) BY DEF Inv, CommitIsExclusive
<1>3. /\ proc' \in [Procs -> Locals] /\ OthersStay(c) /\ proc'[c].pc = l
      /\ proc'[c].pkg = proc[c].pkg /\ proc'[c].ver = proc[c].ver
      /\ proc'[c].kind = proc[c].kind
  BY <1>1, GotoFacts
<1>4. PlanIsSet(proc'[c]) BY <1>2, <1>3 DEF PlanIsSet
<1> QED BY <1>3, <1>4, OutsideIsGood

LEMMA OutsideExit ==
  ASSUME Inv, NEW c \in Procs, StoreStep, Exit(c), proc[c].pc \notin TxLabels
  PROVE  Good(c)
<1>1. proc \in [Procs -> Locals] BY DEF Inv, TypeOK
<1>2. proc' \in [Procs -> Locals] /\ OthersStay(c) /\ proc'[c].pc = "idle"
  BY <1>1, ExitFacts
<1>3. PlanIsSet(proc'[c]) BY <1>2 DEF PlanIsSet, PlannedLabels
<1> QED BY <1>2, <1>3, OutsideIsGood DEF TxLabels

(* A step that only moves a process has nothing to show about the store.   *)
LEMMA QuietStore ==
  ASSUME Inv, UNCHANGED <<db, disk>>
  PROVE  StoreStep
  BY SameOwners DEF StoreStep, StoreTypes, Inv, TypeOK, db, disk

(* A clean-up of a directory is all a step does to the store.              *)
LEMMA CleanupStore ==
  ASSUME Inv, NEW d, Cleanup(d) \/ CleanupFails(d), UNCHANGED <<db, journals, shims>>
  PROVE  StoreStep
<1>1. dirs' \in [Paths -> Versions \cup {None, Partial}] BY CleanupType DEF Inv
<1> QED BY <1>1, SameOwners DEF StoreStep, StoreTypes, Inv, TypeOK, db

(* update_status outside a transaction is all a step does to the store.    *)
LEMMA StatusStore ==
  ASSUME Inv, NEW c \in Procs, NEW p, NEW s \in {"ok", "failed"},
         \/ LockFree /\ SetStatus(p, s)
         \/ WriteFails(c) /\ UNCHANGED rows,
         UNCHANGED <<owner, writer, disk>>
  PROVE  StoreStep
<1>1. rows' \in [Packages -> Rows] /\ (rows' = rows \/ writer = None)
  BY SetStatusType DEF LockFree, Inv, TypeOK
<1>2. OwnersGood BY SetStatusOwners, SameOwners
<1> QED BY <1>1, <1>2 DEF StoreStep, StoreTypes, Inv, TypeOK, disk
----------------------------------------------------------------------------
(* The steps of cleanup_stale_installations.                               *)
LEMMA StartupIsGood ==
  ASSUME Inv, NEW c \in Procs, StartupStep(c)
  PROVE  Good(c)
<1>1. proc \in [Procs -> Locals] /\ proc[c] \in Locals BY DEF Inv, TypeOK
<1>2. CASE Launch(c)
  <2>1. StoreStep BY <1>2, QuietStore DEF Launch
  <2>2. proc' = [proc EXCEPT ![c] = [proc[c] EXCEPT
                   !.pc = IF InstallingRows = {} THEN "ready" ELSE "stale_row",
                   !.paths = InstallingRows \X {"live"}]]
    BY <1>1, <1>2 DEF Launch
  <2>3. InstallingRows \X {"live"} \subseteq Paths BY DEF InstallingRows, Paths
  <2>4. proc'[c] \in Locals /\ proc'[c].pc \in {"ready", "stale_row"}
    <3>1. PICK to \in {"ready", "stale_row"}, todo \in SUBSET Paths :
            proc'[c] = [proc[c] EXCEPT !.pc = to, !.paths = todo]
      BY <1>1, <2>2, <2>3
    <3>2. to \in Labels BY DEF Labels
    <3>3. proc'[c].pc = to BY <1>1, <3>1 DEF Locals
    <3>4. proc'[c] \in Locals BY <1>1, <3>1, <3>2 DEF Locals
    <3> QED BY <3>3, <3>4
  <2>5. proc' \in [Procs -> Locals] /\ OthersStay(c) BY <1>1, <2>2, <2>4 DEF OthersStay
  <2>6. proc[c].pc = "idle" BY <1>2 DEF Launch, At
  <2> QED BY <2>1, <2>4, <2>5, <2>6, OutsideIsGood DEF PlanIsSet, PlannedLabels, TxLabels
<1>3. CASE MarkStaleFailed(c)
  <2>1. PICK d \in proc[c].paths :
          /\ \/ LockFree /\ SetStatus(d[1], "failed")
             \/ WriteFails(c) /\ UNCHANGED rows
          /\ proc' = [proc EXCEPT ![c].pc = "stale_dir", ![c].pkg = d[1]]
    BY <1>3 DEF MarkStaleFailed
  <2>2. StoreStep BY <1>3, <2>1, StatusStore DEF MarkStaleFailed
  <2>3. d \in Paths BY <1>1 DEF Locals
  <2>4. d[1] \in Packages BY <2>3 DEF Paths
  <2>5. proc' = [proc EXCEPT ![c] = [proc[c] EXCEPT !.pc = "stale_dir", !.pkg = d[1]]]
    BY <1>1, <2>1
  <2>6. proc'[c] \in Locals /\ proc'[c].pc = "stale_dir"
    BY <1>1, <2>4, <2>5 DEF Locals, Labels
  <2>7. proc' \in [Procs -> Locals] /\ OthersStay(c) BY <1>1, <2>5, <2>6 DEF OthersStay
  <2>8. proc[c].pc = "stale_row" BY <1>3 DEF MarkStaleFailed, At
  <2> QED BY <2>2, <2>6, <2>7, <2>8, OutsideIsGood DEF PlanIsSet, PlannedLabels, TxLabels
<1>4. CASE RemoveStaleDir(c)
  <2> DEFINE rest == proc[c].paths \ {Live(c)}
  <2>1. StoreStep BY <1>4, CleanupStore DEF RemoveStaleDir
  <2>2. proc' = [proc EXCEPT ![c] = [proc[c] EXCEPT
                   !.pc = IF rest = {} THEN "ready" ELSE "stale_row",
                   !.paths = rest, !.pkg = None]]
    BY <1>1, <1>4 DEF RemoveStaleDir
  <2>3. proc'[c] \in Locals /\ proc'[c].pc \in {"ready", "stale_row"}
    <3>1. rest \in SUBSET Paths BY <1>1 DEF Locals
    <3>2. PICK to \in {"ready", "stale_row"} :
            proc'[c] = [proc[c] EXCEPT !.pc = to, !.paths = rest, !.pkg = None]
      BY <1>1, <2>2
    <3>3. to \in Labels BY DEF Labels
    <3>4. proc'[c].pc = to BY <1>1, <3>2 DEF Locals
    <3>5. proc'[c] \in Locals BY <1>1, <3>1, <3>2, <3>3 DEF Locals
    <3> QED BY <3>4, <3>5
  <2>4. proc' \in [Procs -> Locals] /\ OthersStay(c) BY <1>1, <2>2, <2>3 DEF OthersStay
  <2>5. proc[c].pc = "stale_dir" BY <1>4 DEF RemoveStaleDir, At
  <2> QED BY <2>1, <2>3, <2>4, <2>5, OutsideIsGood DEF PlanIsSet, PlannedLabels, TxLabels
<1> QED BY <1>2, <1>3, <1>4 DEF StartupStep
----------------------------------------------------------------------------
(* prepare_install_target, mark_installing, the engine and the rollback.   *)
LEMMA InstallOutsideIsGood ==
  ASSUME Inv, NEW c \in Procs,
         \/ ResolveAndInspect(c) \/ DropFailedRow(c) \/ ClearInstallDir(c) \/ Abandon(c)
         \/ MarkInstalling(c) \/ BuildClientFails(c) \/ ProbeAndReclassify(c)
         \/ EngineInstalls(c) \/ InstallFails(c)
         \/ RollbackRow(c) \/ RollbackDir(c)
         \/ MarkCommitFailed(c) \/ ReadCommands(c) \/ PublishShims(c)
  PROVE  Good(c)
<1>1. proc \in [Procs -> Locals] /\ proc[c] \in Locals BY DEF Inv, TypeOK
<1>2. PlanIsSet(proc[c]) BY DEF Inv, CommitIsExclusive
<1>3. CASE ResolveAndInspect(c)
  <2>1. StoreStep BY <1>3, QuietStore DEF ResolveAndInspect
  <2>2. proc[c].pc = "ready" BY <1>3 DEF ResolveAndInspect, At
  <2>3. CASE Exit(c) BY <2>1, <2>2, <2>3, OutsideExit DEF TxLabels
  <2>4. CASE ~Exit(c)
    <3>1. PICK k \in Keys, next \in {"drop_row", "clear_dir", "mark"}, b \in BOOLEAN :
            proc' = [proc EXCEPT ![c].pc = next, ![c].pkg = k[1], ![c].ver = k[2],
                                 ![c].kind = Manifest[k[1]],
                                 ![c].cmds = Exposes[k], ![c].blocked = b]
      <4>1. PICK k \in Keys :
              LET status  == rows[k[1]].status
                  blocked == Claimed(k[1], Exposes[k])
                  next    == IF status = "failed" THEN "drop_row"
                             ELSE IF dirs[<<k[1], "live">>] # None THEN "clear_dir"
                             ELSE "mark"
              IN  proc' = [proc EXCEPT ![c].pc = next, ![c].pkg = k[1], ![c].ver = k[2],
                                       ![c].kind = Manifest[k[1]],
                                       ![c].cmds = Exposes[k], ![c].blocked = blocked]
        BY <1>3, <2>4 DEF ResolveAndInspect
      <4>2. Claimed(k[1], Exposes[k]) \in BOOLEAN BY DEF Claimed
      <4> QED BY <4>1, <4>2
    <3>2. /\ k[1] \in Packages /\ k[2] \in Versions
          /\ Manifest[k[1]] \in EngineKinds /\ Exposes[k] \in SUBSET Commands
      BY ManifestType, ExposesType DEF Keys
    <3>3. proc' = [proc EXCEPT ![c] = [proc[c] EXCEPT
                     !.pc = next, !.pkg = k[1], !.ver = k[2], !.kind = Manifest[k[1]],
                     !.cmds = Exposes[k], !.blocked = b]]
      BY <1>1, <3>1
    <3>4. /\ proc'[c] \in Locals /\ proc'[c].pc = next
          /\ proc'[c].pkg = k[1] /\ proc'[c].ver = k[2] /\ proc'[c].kind = Manifest[k[1]]
      BY <1>1, <3>2, <3>3 DEF Locals, Labels
    <3>5. proc' \in [Procs -> Locals] /\ OthersStay(c) BY <1>1, <3>3, <3>4 DEF OthersStay
    <3> QED BY <2>1, <2>2, <3>2, <3>4, <3>5, OutsideIsGood DEF PlanIsSet, TxLabels
  <2> QED BY <2>3, <2>4
<1>4. CASE DropFailedRow(c)
  <2>1. proc[c].pc = "drop_row" BY <1>4 DEF DropFailedRow, At
  <2>2. CASE LockFree /\ DeleteRow(proc[c].pkg) /\ Goto(c, "clear_dir")
    <3>1. StoreStep
      BY <1>4, <2>2, DeleteRowType, DeleteRowOwners
      DEF DropFailedRow, StoreStep, StoreTypes, Inv, TypeOK, LockFree, disk
    <3> QED BY <2>1, <2>2, <3>1, OutsideGoto DEF Labels, TxLabels, PlannedLabels
  <2>3. CASE WriteFails(c) /\ Exit(c) /\ UNCHANGED <<rows, owner>>
    <3>1. StoreStep BY <1>4, <2>3, QuietStore DEF DropFailedRow, db, disk
    <3> QED BY <2>1, <2>3, <3>1, OutsideExit DEF TxLabels
  <2> QED BY <1>4, <2>2, <2>3 DEF DropFailedRow
<1>5. CASE ClearInstallDir(c)
  <2>1. proc[c].pc = "clear_dir" BY <1>5 DEF ClearInstallDir, At
  <2>2. StoreStep BY <1>5, CleanupStore DEF ClearInstallDir
  <2>3. Exit(c) \/ Goto(c, "mark") BY <1>5 DEF ClearInstallDir
  <2> QED BY <2>1, <2>2, <2>3, OutsideExit, OutsideGoto DEF Labels, TxLabels, PlannedLabels
<1>6. CASE Abandon(c)
  BY <1>6, QuietStore, OutsideExit DEF Abandon, At, TxLabels
<1>7. CASE MarkInstalling(c)
  <2>1. proc[c].pc = "mark" BY <1>7 DEF MarkInstalling, At
  <2>2. proc[c].pkg \in Packages /\ proc[c].ver \in Versions /\ proc[c].kind \in EngineKinds
    BY <1>2, <2>1 DEF PlanIsSet, PlannedLabels
  <2>3. CASE /\ LockFree /\ ~Present(proc[c].pkg)
             /\ InsertRow(proc[c].pkg, proc[c].ver, proc[c].kind, "installing")
             /\ Goto(c, "download")
    <3>1. StoreStep
      BY <1>7, <2>2, <2>3, InsertRowType, NewRowOwners
      DEF MarkInstalling, StoreStep, StoreTypes, Inv, TypeOK, LockFree, disk
    <3> QED BY <2>1, <2>3, <3>1, OutsideGoto DEF Labels, TxLabels, PlannedLabels
  <2>4. CASE Exit(c) /\ UNCHANGED rows
    <3>1. StoreStep BY <1>7, <2>4, QuietStore DEF MarkInstalling, db, disk
    <3> QED BY <2>1, <2>4, <3>1, OutsideExit DEF TxLabels
  <2> QED BY <1>7, <2>3, <2>4 DEF MarkInstalling
<1>8. CASE BuildClientFails(c)
  BY <1>8, QuietStore, OutsideExit DEF BuildClientFails, At, TxLabels
<1>9. CASE ProbeAndReclassify(c)
  <2>1. proc[c].pc = "download" BY <1>9 DEF ProbeAndReclassify, At
  <2>2. /\ proc[c].pkg \in Packages /\ proc[c].ver \in Versions
        /\ Probe[proc[c].pkg] \subseteq EngineKinds
    BY <1>2, <2>1, ProbeType DEF PlanIsSet, PlannedLabels
  <2>3. PICK k \in Probe[proc[c].pkg] :
       \/ /\ k = proc[c].kind \/ LockFree
          /\ rows' = [rows EXCEPT ![proc[c].pkg] =
                        IF k # proc[c].kind /\ @.status # "absent"
                        THEN [@ EXCEPT !.kind = k] ELSE @]
          /\ proc' = [proc EXCEPT ![c].pc = "engine", ![c].kind = k]
       \/ /\ k # proc[c].kind /\ WriteFails(c)
          /\ Goto(c, "rollback_row") /\ UNCHANGED rows
    BY <1>9 DEF ProbeAndReclassify
  <2>4. UNCHANGED <<owner, writer, dirs, journals, shims>>
    BY <1>9 DEF ProbeAndReclassify, disk
  <2>5. CASE Goto(c, "rollback_row") /\ UNCHANGED rows
    <3>1. StoreStep BY <2>4, <2>5, QuietStore DEF db, disk
    <3> QED BY <2>1, <2>5, <3>1, OutsideGoto DEF Labels, TxLabels, PlannedLabels
  <2>6. CASE /\ k = proc[c].kind \/ LockFree
             /\ rows' = [rows EXCEPT ![proc[c].pkg] =
                           IF k # proc[c].kind /\ @.status # "absent"
                           THEN [@ EXCEPT !.kind = k] ELSE @]
             /\ proc' = [proc EXCEPT ![c].pc = "engine", ![c].kind = k]
    <3>1. ASSUME NEW r \in Rows, r.status # "absent" PROVE [r EXCEPT !.kind = k] \in Rows
      BY <2>2, <3>1 DEF Rows, NoRow
    <3>2. rows \in [Packages -> Rows] BY DEF Inv, TypeOK
    <3>3. rows' \in [Packages -> Rows] BY <2>2, <2>6, <3>1, <3>2
    <3>4. rows' = rows \/ writer = None BY <2>6, <3>2 DEF LockFree
    <3>5. OwnersGood
      <4>1. \A q \in Packages : rows'[q].status = rows[q].status
        BY <2>2, <2>6, <3>1, <3>2 DEF Rows, NoRow
      <4> QED BY <2>4, <4>1 DEF OwnersGood, KeepsOwners, Inv, TypeOK, OwnersWereInstalled
    <3>6. StoreStep BY <2>4, <3>3, <3>4, <3>5 DEF StoreStep, StoreTypes, Inv, TypeOK
    <3>7. proc' = [proc EXCEPT ![c] = [proc[c] EXCEPT !.pc = "engine", !.kind = k]]
      BY <1>1, <2>6
    <3>8. /\ proc'[c] \in Locals /\ proc'[c].pc = "engine" /\ proc'[c].kind = k
          /\ proc'[c].pkg = proc[c].pkg /\ proc'[c].ver = proc[c].ver
      BY <1>1, <2>2, <3>7 DEF Locals, Labels
    <3>9. proc' \in [Procs -> Locals] /\ OthersStay(c) BY <1>1, <3>7, <3>8 DEF OthersStay
    <3> QED BY <2>1, <2>2, <3>6, <3>8, <3>9, OutsideIsGood DEF PlanIsSet, TxLabels
  <2> QED BY <2>3, <2>5, <2>6
<1>10. CASE EngineInstalls(c)
  <2>1. proc[c].pc = "engine" BY <1>10 DEF EngineInstalls, At
  <2>2. proc[c].ver \in Versions BY <1>2, <2>1 DEF PlanIsSet, PlannedLabels
  <2>3. StoreStep BY <1>10, <2>2, SameOwners DEF EngineInstalls, StoreStep, StoreTypes, Inv, TypeOK, db
  <2> QED BY <1>10, <2>1, <2>3, OutsideGoto DEF EngineInstalls, Labels, TxLabels, PlannedLabels
<1>11. CASE InstallFails(c)
  <2>1. proc[c].pc \in {"download", "engine"} BY <1>11 DEF InstallFails
  <2>2. proc[c].pkg \in Packages /\ proc[c].ver \in Versions
    BY <1>2, <2>1 DEF PlanIsSet, PlannedLabels
  <2>3. EngineDebris(c) \subseteq Versions \cup {None, Partial}
    BY <2>2 DEF EngineDebris, Inv, TypeOK, Live, Paths
  <2>4. dirs' \in [Paths -> Versions \cup {None, Partial}]
    BY <1>11, <2>3 DEF InstallFails, Inv, TypeOK
  <2>5. StoreStep BY <1>11, <2>4, SameOwners DEF InstallFails, StoreStep, StoreTypes, Inv, TypeOK, db
  <2> QED BY <1>11, <2>1, <2>5, OutsideGoto DEF InstallFails, Labels, TxLabels, PlannedLabels
<1>13. CASE RollbackRow(c)
  <2>1. StoreStep BY <1>13, StatusStore DEF RollbackRow
  <2> QED BY <1>13, <2>1, OutsideGoto DEF RollbackRow, At, Labels, TxLabels, PlannedLabels
<1>14. CASE RollbackDir(c)
  <2>1. StoreStep BY <1>14, CleanupStore DEF RollbackDir
  <2> QED BY <1>14, <2>1, OutsideExit DEF RollbackDir, At, TxLabels
<1>15. CASE MarkCommitFailed(c)
  <2>1. StoreStep BY <1>15, StatusStore DEF MarkCommitFailed
  <2> QED BY <1>15, <2>1, OutsideExit DEF MarkCommitFailed, At, TxLabels
<1>16. CASE ReadCommands(c)
  <2>1. proc[c].pc = "read_commands" BY <1>16 DEF ReadCommands, At
  <2>2. StoreStep BY <1>16, QuietStore DEF ReadCommands
  <2>3. CASE Exit(c) BY <2>1, <2>2, <2>3, OutsideExit DEF TxLabels
  <2>4. CASE proc' = [proc EXCEPT ![c].pc = "write_shims", ![c].cmds = Owned(proc[c].pkg)]
    <3>1. proc' = [proc EXCEPT ![c] = [proc[c] EXCEPT
                     !.pc = "write_shims", !.cmds = Owned(proc[c].pkg)]]
      BY <1>1, <2>4
    <3>2. Owned(proc[c].pkg) \in SUBSET Commands BY DEF Owned
    <3>3. /\ proc'[c] \in Locals /\ proc'[c].pc = "write_shims"
          /\ proc'[c].pkg = proc[c].pkg /\ proc'[c].ver = proc[c].ver
          /\ proc'[c].kind = proc[c].kind
      BY <1>1, <3>1, <3>2 DEF Locals, Labels
    <3>4. proc' \in [Procs -> Locals] /\ OthersStay(c) BY <1>1, <3>1, <3>3 DEF OthersStay
    <3> QED BY <1>2, <2>1, <2>2, <3>3, <3>4, OutsideIsGood DEF PlanIsSet, PlannedLabels, TxLabels
  <2> QED BY <1>16, <2>3, <2>4 DEF ReadCommands
<1>17. CASE PublishShims(c)
  <2>1. proc[c].pc = "write_shims" BY <1>17 DEF PublishShims, At
  <2>2. proc[c].pkg \in Packages BY <1>2, <2>1 DEF PlanIsSet, PlannedLabels
  <2>3. StoreStep
    BY <1>17, <2>2, WriteShimsType, SameOwners DEF PublishShims, StoreStep, StoreTypes, Inv, TypeOK, db
  <2> QED BY <1>17, <2>1, <2>3, OutsideExit DEF PublishShims, TxLabels
<1> QED BY <1>3, <1>4, <1>5, <1>6, <1>7, <1>8, <1>9, <1>10, <1>11, <1>13, <1>14,
           <1>15, <1>16, <1>17
----------------------------------------------------------------------------
(* commit_install_with_journal.                                            *)

(* Inside the transaction the row is there, so its journal is a file and   *)
(* its metadata is well formed; what a torn write leaves is a file.        *)
LEMMA TxFacts ==
  ASSUME Inv, NEW c \in Procs, proc[c].pc \in TxLabels
  PROVE  /\ writer = c /\ c # None
         /\ proc[c].pkg \in Packages /\ Present(proc[c].pkg)
         /\ JournalKey(c) \in Keys
         /\ journals[JournalKey(c)] \in Files
         /\ JournalMeta(c) \in Metas
         /\ JournalDebris(c) \subseteq Files
<1>1. writer = c /\ Present(proc[c].pkg) /\ PlanIsSet(proc[c])
  BY DEF Inv, CommitIsExclusive
<1>2. proc[c].pkg \in Packages
  BY <1>1 DEF PlanIsSet, PlannedLabels, TxLabels
<1>3. c # None BY NoneIsFresh
<1>4. rows[proc[c].pkg] \in Rows /\ rows[proc[c].pkg] # NoRow
  BY <1>1, <1>2 DEF Inv, TypeOK, Present, NoRow
<1>5. rows[proc[c].pkg].ver \in Versions /\ rows[proc[c].pkg].kind \in EngineKinds
  BY <1>4 DEF Rows
<1>6. JournalKey(c) \in Keys BY <1>2, <1>5 DEF JournalKey, Keys
<1>7. journals[JournalKey(c)] \in Files BY <1>6 DEF Inv, TypeOK
<1>8. proc[c].cmds \subseteq Commands BY DEF Inv, TypeOK, Locals
<1>9. JournalMeta(c) \in Metas BY <1>5, <1>8 DEF JournalMeta, Metas
<1>10. JournalDebris(c) \subseteq Files BY <1>7, <1>9, WriteType DEF JournalDebris
<1> QED BY <1>1, <1>2, <1>3, <1>6, <1>7, <1>9, <1>10

(* Inside, only the journal of the row changes, and only if it is one that *)
(* open_at lets be written or could not read.                              *)
LEMMA OneJournal ==
  ASSUME Inv, NEW c \in Procs, proc[c].pc \in TxLabels,
         NEW g \in Files, journals' = [journals EXCEPT ![JournalKey(c)] = g],
         Rewritten(journals[JournalKey(c)], g) \/ At(c, "blind")
  PROVE  JournalStep(c) /\ journals' \in [Keys -> Files] /\ journals'[JournalKey(c)] = g
<1>1. JournalKey(c) \in Keys BY TxFacts
<1>2. journals \in [Keys -> Files] BY DEF Inv, TypeOK
<1>3. ASSUME NEW k \in Keys
      PROVE  Rewritten(journals[k], journals'[k]) \/ Unread(c, k)
  <2>1. CASE k # JournalKey(c)
    <3>1. journals'[k] = journals[k] BY <1>2, <2>1
    <3> QED BY <3>1 DEF Rewritten
  <2>2. CASE k = JournalKey(c)
    <3>1. journals'[k] = g BY <1>1, <1>2, <2>2
    <3> QED BY <2>2, <3>1 DEF Unread
  <2> QED BY <2>1, <2>2
<1> QED BY <1>1, <1>2, <1>3 DEF JournalStep

(* An error in the transaction leaves it.                                  *)
LEMMA AbortIsGood ==
  ASSUME Inv, NEW c \in Procs, proc[c].pc \in TxLabels, AbortTx(c),
         UNCHANGED <<rows, owner, dirs, shims>>,
         JournalStep(c), journals' \in [Keys -> Files]
  PROVE  Good(c)
<1>1. proc \in [Procs -> Locals] /\ PlanIsSet(proc[c]) BY DEF Inv, TypeOK, CommitIsExclusive
<1>2. writer' = None /\ Goto(c, "commit_failed") BY DEF AbortTx
<1>3. "commit_failed" \in Labels BY DEF Labels
<1>4. /\ proc' \in [Procs -> Locals] /\ OthersStay(c) /\ proc'[c].pc = "commit_failed"
      /\ proc'[c].pkg = proc[c].pkg /\ proc'[c].ver = proc[c].ver
      /\ proc'[c].kind = proc[c].kind
  BY <1>1, <1>2, <1>3, GotoFacts
<1>5. PlanIsSet(proc'[c]) BY <1>1, <1>4 DEF PlanIsSet, TxLabels, PlannedLabels
<1>6. LeavesTx(c) BY <1>2, <1>4 DEF LeavesTx, TxLabels
<1> QED BY <1>2, <1>4, <1>5, <1>6, SameOwners DEF Good, Shape, Inv, TypeOK

(* The steps of the transaction.                                           *)
LEMMA CommitIsGood ==
  ASSUME Inv, NEW c \in Procs,
         BeginCommit(c) \/ OpenJournal(c) \/ WriteJournal(c) \/ CommitTx(c)
  PROVE  Good(c)
<1>1. proc \in [Procs -> Locals] /\ PlanIsSet(proc[c]) BY DEF Inv, TypeOK, CommitIsExclusive
<1>2. CASE BeginCommit(c)
  <2>1. proc[c].pc = "begin" /\ UNCHANGED <<rows, owner, dirs, journals, shims>>
    BY <1>2 DEF BeginCommit, At, disk
  <2>2. CASE /\ LockFree /\ Present(proc[c].pkg) /\ ~CommandConflict(c)
             /\ TakeLock(c) /\ Goto(c, "open")
    <3>1. "open" \in Labels BY DEF Labels
    <3>2. /\ proc' \in [Procs -> Locals] /\ OthersStay(c) /\ proc'[c].pc = "open"
          /\ proc'[c].pkg = proc[c].pkg /\ proc'[c].ver = proc[c].ver
          /\ proc'[c].kind = proc[c].kind /\ proc'[c].cmds = proc[c].cmds
      BY <1>1, <2>2, <3>1, GotoFacts
    <3>3. PlanIsSet(proc'[c]) BY <1>1, <2>1, <3>2 DEF PlanIsSet, PlannedLabels
    <3>4. EntersTx(c) BY <2>1, <2>2, <3>2 DEF EntersTx, TxLabels, LockFree, TakeLock
    <3> QED BY <2>1, <3>2, <3>3, <3>4, SameOwners DEF Good, Shape, Inv, TypeOK, EntersTx
  <2>3. CASE Goto(c, "commit_failed") /\ UNCHANGED writer
    <3>1. StoreStep BY <2>1, <2>3, QuietStore DEF db, disk
    <3> QED BY <2>1, <2>3, <3>1, OutsideGoto DEF Labels, TxLabels, PlannedLabels
  <2> QED BY <1>2, <2>2, <2>3 DEF BeginCommit
<1>3. CASE OpenJournal(c)
  <2> DEFINE f == journals[JournalKey(c)]
             opened == [journals EXCEPT ![JournalKey(c)] = Opened(f)]
  <2>1. proc[c].pc = "open" /\ proc[c].pc \in TxLabels
        /\ UNCHANGED <<rows, owner, dirs, shims>>
    BY <1>3 DEF OpenJournal, At, TxLabels
  <2>2. Opened(f) \in Files /\ (Openable(f) => Openable(Opened(f)))
    BY <2>1, TxFacts, OpenedType
  <2>3. Rewritten(f, Opened(f)) BY DEF Rewritten, Opened, Openable
  <2>4. journals' = opened => JournalStep(c) /\ journals' \in [Keys -> Files]
                              /\ journals'[JournalKey(c)] = Opened(f)
    BY <2>1, <2>2, <2>3, OneJournal
  <2>5. UNCHANGED journals => JournalStep(c) /\ journals' \in [Keys -> Files]
    BY DEF JournalStep, Rewritten, Inv, TypeOK
  <2>6. CASE Openable(f) /\ journals' = opened /\ Goto(c, "journal") /\ UNCHANGED writer
    <3>1. "journal" \in Labels BY DEF Labels
    <3>2. /\ proc' \in [Procs -> Locals] /\ OthersStay(c) /\ proc'[c].pc = "journal"
          /\ proc'[c].pkg = proc[c].pkg /\ proc'[c].ver = proc[c].ver
          /\ proc'[c].kind = proc[c].kind /\ proc'[c].cmds = proc[c].cmds
      BY <1>1, <2>6, <3>1, GotoFacts
    <3>3. PlanIsSet(proc'[c]) BY <1>1, <2>1, <3>2 DEF PlanIsSet, PlannedLabels
    <3>4. Openable(journals'[JournalKey(c)]) BY <2>2, <2>4, <2>6
    <3>5. InsideTx(c)
      BY <2>1, <2>4, <2>6, <3>2, <3>4 DEF InsideTx, TxLabels
    <3> QED BY <2>1, <2>4, <2>6, <3>2, <3>3, <3>5, SameOwners DEF Good, Shape, Inv, TypeOK
  <2>7. CASE journals' \in {journals, opened} /\ AbortTx(c)
    BY <2>1, <2>4, <2>5, <2>7, AbortIsGood
  <2>8. CASE AbortTx(c) /\ UNCHANGED journals
    BY <2>1, <2>5, <2>8, AbortIsGood
  <2>9. CASE JournalReadFails /\ Goto(c, "blind") /\ UNCHANGED <<journals, writer>>
    <3>1. "blind" \in Labels BY DEF Labels
    <3>2. /\ proc' \in [Procs -> Locals] /\ OthersStay(c) /\ proc'[c].pc = "blind"
          /\ proc'[c].pkg = proc[c].pkg /\ proc'[c].ver = proc[c].ver
          /\ proc'[c].kind = proc[c].kind /\ proc'[c].cmds = proc[c].cmds
      BY <1>1, <2>9, <3>1, GotoFacts
    <3>3. PlanIsSet(proc'[c]) BY <1>1, <2>1, <3>2 DEF PlanIsSet, PlannedLabels
    <3>4. JournalStep(c) /\ journals' \in [Keys -> Files] BY <2>5, <2>9
    <3>5. InsideTx(c) BY <2>1, <2>9, <3>2, <3>4 DEF InsideTx, TxLabels
    <3> QED BY <2>1, <2>9, <3>2, <3>3, <3>4, <3>5, SameOwners DEF Good, Shape, Inv, TypeOK
  <2> QED BY <1>3, <2>6, <2>7, <2>8, <2>9 DEF OpenJournal
<1>4. CASE WriteJournal(c)
  <2> DEFINE f == journals[JournalKey(c)]
  <2>1. proc[c].pc \in {"journal", "blind"} /\ proc[c].pc \in TxLabels
        /\ UNCHANGED <<rows, owner, dirs, shims>>
    BY <1>4 DEF WriteJournal, WriteLabels, TxLabels
  <2>2. Openable(f) \/ At(c, "blind") BY <2>1 DEF Inv, CommitIsExclusive, At
  <2>3. f \in Files /\ JournalMeta(c) \in Metas /\ JournalDebris(c) \subseteq Files
        /\ JournalKey(c) \in Keys
    BY <2>1, TxFacts
  <2>4. CASE /\ journals' = [journals EXCEPT ![JournalKey(c)] =
                               IF @.exists THEN Written(@, JournalMeta(c)) ELSE @]
             /\ Goto(c, "commit") /\ UNCHANGED writer
    <3>1. PICK g \in Files : /\ journals' = [journals EXCEPT ![JournalKey(c)] = g]
                             /\ Rewritten(f, g) \/ At(c, "blind")
      <4>1. Written(f, JournalMeta(c)) \in Files BY <2>3, WriteType
      <4>2. (IF f.exists THEN Written(f, JournalMeta(c)) ELSE f) \in Files BY <2>3, <4>1
      <4>3. Written(f, JournalMeta(c)) \in TornWrites(f, JournalMeta(c)) BY DEF TornWrites
      <4>4. \/ Rewritten(f, IF f.exists THEN Written(f, JournalMeta(c)) ELSE f)
            \/ At(c, "blind")
        BY <2>2, <2>3, <4>3 DEF Rewritten
      <4> QED BY <2>3, <2>4, <4>2, <4>4 DEF Inv, TypeOK
    <3>2. JournalStep(c) /\ journals' \in [Keys -> Files] BY <2>1, <3>1, OneJournal
    <3>3. "commit" \in Labels BY DEF Labels
    <3>4. /\ proc' \in [Procs -> Locals] /\ OthersStay(c) /\ proc'[c].pc = "commit"
          /\ proc'[c].pkg = proc[c].pkg /\ proc'[c].ver = proc[c].ver
          /\ proc'[c].kind = proc[c].kind /\ proc'[c].cmds = proc[c].cmds
      BY <1>1, <2>4, <3>3, GotoFacts
    <3>5. PlanIsSet(proc'[c]) BY <1>1, <2>1, <3>4 DEF PlanIsSet, PlannedLabels
    <3>6. InsideTx(c) BY <2>1, <2>4, <3>2, <3>4 DEF InsideTx, TxLabels
    <3> QED BY <2>1, <2>4, <3>2, <3>4, <3>5, <3>6, SameOwners DEF Good, Shape, Inv, TypeOK
  <2>5. CASE /\ \E g \in JournalDebris(c) : journals' = [journals EXCEPT ![JournalKey(c)] = g]
             /\ AbortTx(c)
    <3>1. PICK g \in JournalDebris(c) : journals' = [journals EXCEPT ![JournalKey(c)] = g]
      BY <2>5
    <3>2. Rewritten(f, g) \/ At(c, "blind") BY <2>2, <2>3 DEF JournalDebris, Rewritten
    <3>3. JournalStep(c) /\ journals' \in [Keys -> Files]
      BY <2>1, <2>3, <3>1, <3>2, OneJournal
    <3> QED BY <2>1, <2>5, <3>3, AbortIsGood
  <2> QED BY <1>4, <2>4, <2>5 DEF WriteJournal
<1>5. CASE CommitTx(c)
  <2>1. proc[c].pc = "commit" /\ proc[c].pc \in TxLabels
        /\ UNCHANGED <<dirs, journals, shims>>
    BY <1>5 DEF CommitTx, At, TxLabels, disk
  <2>2. JournalStep(c) /\ journals' \in [Keys -> Files]
    BY <2>1 DEF JournalStep, Rewritten, Inv, TypeOK
  <2>3. CASE /\ SetStatus(proc[c].pkg, "ok")
             /\ SyncCommands(proc[c].pkg, proc[c].cmds)
             /\ writer' = None /\ Goto(c, "read_commands")
    <3>1. rows' \in [Packages -> Rows] BY <2>3, SetStatusType DEF Inv
    <3>2. proc[c].pkg \in Packages BY <2>1, TxFacts
    <3>3. owner' \in [Commands -> Packages \cup {None}]
      BY <2>3, <3>2, SyncCommandsType DEF Inv
    <3>4. "read_commands" \in Labels BY DEF Labels
    <3>5. /\ proc' \in [Procs -> Locals] /\ OthersStay(c) /\ proc'[c].pc = "read_commands"
          /\ proc'[c].pkg = proc[c].pkg /\ proc'[c].ver = proc[c].ver
          /\ proc'[c].kind = proc[c].kind /\ proc'[c].cmds = proc[c].cmds
      BY <1>1, <2>3, <3>4, GotoFacts
    <3>6. PlanIsSet(proc'[c]) BY <1>1, <2>1, <3>5 DEF PlanIsSet, PlannedLabels
    <3>7. LeavesTx(c) BY <2>1, <2>2, <2>3, <3>5 DEF LeavesTx, TxLabels
    <3>8. OwnersGood
      <4>1. Present(proc[c].pkg) /\ ~Claimed(proc[c].pkg, proc[c].cmds)
        BY <2>1 DEF Inv, CommitIsExclusive, CommandConflict
      <4>2. PICK r \in Rows : r.status = "ok" /\ rows' = [rows EXCEPT ![proc[c].pkg] = r]
        <5>1. rows[proc[c].pkg] \in Rows /\ rows[proc[c].pkg].status # "absent"
          BY <3>2, <4>1 DEF Inv, TypeOK, Present
        <5>2. /\ [rows[proc[c].pkg] EXCEPT !.status = "ok"] \in Rows
              /\ [rows[proc[c].pkg] EXCEPT !.status = "ok"].status = "ok"
          BY <5>1 DEF Rows, NoRow
        <5> QED BY <2>3, <4>1, <5>2 DEF SetStatus
      <4> QED BY <2>3, <3>2, <4>1, <4>2, SyncOwners
    <3> QED BY <2>1, <2>2, <2>3, <3>1, <3>3, <3>5, <3>6, <3>7, <3>8 DEF Good, Shape, Inv, TypeOK
  <2>4. CASE AbortTx(c) /\ UNCHANGED <<rows, owner>>
    BY <2>1, <2>2, <2>4, AbortIsGood
  <2> QED BY <1>5, <2>3, <2>4 DEF CommitTx
<1> QED BY <1>2, <1>3, <1>4, <1>5

(* All of install.                                                         *)
LEMMA InstallIsGood ==
  ASSUME Inv, NEW c \in Procs, InstallStep(c)
  PROVE  Good(c)
  BY InstallOutsideIsGood, CommitIsGood DEF InstallStep
----------------------------------------------------------------------------
(* plan_removal and execute_removal.                                       *)
LEMMA RemoveIsGood ==
  ASSUME Inv, NEW c \in Procs, RemoveStep(c)
  PROVE  Good(c)
<1>1. proc \in [Procs -> Locals] /\ proc[c] \in Locals BY DEF Inv, TypeOK
<1>2. PlanIsSet(proc[c]) BY DEF Inv, CommitIsExclusive
<1>3. CASE PlanRemoval(c)
  <2>1. StoreStep BY <1>3, QuietStore DEF PlanRemoval
  <2>2. PICK p \in Packages :
          /\ Present(p)
          /\ proc' = [proc EXCEPT ![c].pc = "confirm", ![c].pkg = p,
                                  ![c].ver = rows[p].ver, ![c].kind = rows[p].kind]
    BY <1>3 DEF PlanRemoval
  <2>3. rows[p] \in Rows /\ rows[p] # NoRow BY <2>2 DEF Inv, TypeOK, Present, NoRow
  <2>4. rows[p].ver \in Versions /\ rows[p].kind \in EngineKinds BY <2>3 DEF Rows
  <2>5. proc' = [proc EXCEPT ![c] = [proc[c] EXCEPT
                   !.pc = "confirm", !.pkg = p, !.ver = rows[p].ver, !.kind = rows[p].kind]]
    BY <1>1, <2>2
  <2>6. /\ proc'[c] \in Locals /\ proc'[c].pc = "confirm" /\ proc'[c].pkg = p
        /\ proc'[c].ver = rows[p].ver /\ proc'[c].kind = rows[p].kind
    BY <1>1, <2>4, <2>5 DEF Locals, Labels
  <2>7. proc' \in [Procs -> Locals] /\ OthersStay(c) BY <1>1, <2>5, <2>6 DEF OthersStay
  <2>8. proc[c].pc = "ready" BY <1>3 DEF PlanRemoval, At
  <2> QED BY <2>1, <2>4, <2>6, <2>7, <2>8, OutsideIsGood DEF PlanIsSet, TxLabels
<1>4. CASE DeclineRemoval(c)
  BY <1>4, QuietStore, OutsideExit DEF DeclineRemoval, At, TxLabels
<1>5. CASE StartRemoval(c)
  <2>1. proc[c].pc = "confirm" BY <1>5 DEF StartRemoval, At
  <2>2. StoreStep BY <1>5, QuietStore DEF StartRemoval
  <2>3. CommandsRead(proc[c].pkg) \subseteq SUBSET Commands BY DEF CommandsRead, Owned
  <2>4. PICK cs \in SUBSET Commands, l \in {"uninstall", "stage", "delete_row"} :
          proc' = [proc EXCEPT ![c].cmds = cs, ![c].pc = l]
    BY <1>5, <2>3 DEF StartRemoval
  <2>5. proc' = [proc EXCEPT ![c] = [proc[c] EXCEPT !.cmds = cs, !.pc = l]] BY <1>1, <2>4
  <2>6. /\ proc'[c] \in Locals /\ proc'[c].pc = l /\ proc'[c].pkg = proc[c].pkg
        /\ proc'[c].ver = proc[c].ver /\ proc'[c].kind = proc[c].kind
    BY <1>1, <2>4, <2>5 DEF Locals, Labels
  <2>7. proc' \in [Procs -> Locals] /\ OthersStay(c) BY <1>1, <2>5, <2>6 DEF OthersStay
  <2> QED BY <1>2, <2>1, <2>2, <2>6, <2>7, OutsideIsGood DEF PlanIsSet, PlannedLabels, TxLabels
<1>6. CASE StageForRemoval(c)
  <2>1. proc[c].pc = "stage" BY <1>6 DEF StageForRemoval, At
  <2>2. proc[c].pkg \in Packages BY <1>2, <2>1 DEF PlanIsSet, PlannedLabels
  <2>3. Live(c) \in Paths /\ Trash(c) \in Paths BY <2>2 DEF Live, Trash, Paths
  <2>4. CASE /\ dirs' = [dirs EXCEPT ![Trash(c)] = dirs[Live(c)], ![Live(c)] = None]
             /\ proc' = [proc EXCEPT ![c].pc = "delete_row", ![c].paths = {Trash(c)}]
    <3>1. StoreStep
      BY <1>6, <2>3, <2>4, SameOwners DEF StageForRemoval, StoreStep, StoreTypes, Inv, TypeOK, db
    <3>2. proc' = [proc EXCEPT ![c] = [proc[c] EXCEPT
                     !.pc = "delete_row", !.paths = {Trash(c)}]]
      BY <1>1, <2>4
    <3>3. /\ proc'[c] \in Locals /\ proc'[c].pc = "delete_row"
          /\ proc'[c].pkg = proc[c].pkg /\ proc'[c].ver = proc[c].ver
          /\ proc'[c].kind = proc[c].kind
      BY <1>1, <2>3, <3>2 DEF Locals, Labels
    <3>4. proc' \in [Procs -> Locals] /\ OthersStay(c) BY <1>1, <3>2, <3>3 DEF OthersStay
    <3> QED BY <1>2, <2>1, <3>1, <3>3, <3>4, OutsideIsGood
            DEF PlanIsSet, PlannedLabels, TxLabels
  <2>5. CASE /\ dirs' = [dirs EXCEPT ![Trash(c)] = None] \/ CleanupFails(Trash(c))
             /\ Exit(c)
    <3>1. StoreStep BY <1>6, <2>5, CleanupStore DEF StageForRemoval, Cleanup
    <3> QED BY <2>1, <2>5, <3>1, OutsideExit DEF TxLabels
  <2> QED BY <1>6, <2>4, <2>5 DEF StageForRemoval
<1>7. CASE Uninstall(c)
  <2>1. proc[c].pc = "uninstall" BY <1>7 DEF Uninstall, At
  <2>2. CASE (Cleanup(Live(c)) \/ CleanupFails(Live(c))) /\ Goto(c, "delete_row")
    <3>1. StoreStep BY <1>7, <2>2, CleanupStore DEF Uninstall
    <3> QED BY <2>1, <2>2, <3>1, OutsideGoto DEF Labels, TxLabels, PlannedLabels
  <2>3. CASE /\ UNCHANGED dirs \/ dirs' = [dirs EXCEPT ![Live(c)] = Partial]
             /\ Exit(c)
    <3>1. StoreStep
      BY <1>7, <2>3, SameOwners DEF Uninstall, StoreStep, StoreTypes, Inv, TypeOK, db
    <3> QED BY <2>1, <2>3, <3>1, OutsideExit DEF TxLabels
  <2> QED BY <1>7, <2>2, <2>3 DEF Uninstall
<1>8. CASE DeleteRemovedRow(c)
  <2>1. proc[c].pc = "delete_row" BY <1>8 DEF DeleteRemovedRow, At
  <2>2. StoreStep
    BY <1>8, DeleteRowType, DeleteRowOwners
    DEF DeleteRemovedRow, StoreStep, StoreTypes, Inv, TypeOK, LockFree, disk
  <2> QED BY <1>8, <2>1, <2>2, OutsideGoto
          DEF DeleteRemovedRow, Labels, TxLabels, PlannedLabels
<1>9. CASE DeleteRemovedRowFails(c)
  <2>1. proc[c].pc = "delete_row" BY <1>9 DEF DeleteRemovedRowFails, At
  <2>2. proc[c].pkg \in Packages BY <1>2, <2>1 DEF PlanIsSet, PlannedLabels
  <2>3. Live(c) \in Paths /\ Trash(c) \in Paths BY <2>2 DEF Live, Trash, Paths
  <2>4. StoreStep
    BY <1>9, <2>3, SameOwners DEF DeleteRemovedRowFails, StoreStep, StoreTypes, Inv, TypeOK, db
  <2> QED BY <1>9, <2>1, <2>4, OutsideExit DEF DeleteRemovedRowFails, TxLabels
<1>10. CASE RemoveShims(c)
  <2>1. proc[c].pc = "remove_shims" BY <1>10 DEF RemoveShims, At
  <2>2. StoreStep
    BY <1>10, WriteShimsType, SameOwners DEF RemoveShims, StoreStep, StoreTypes, Inv, TypeOK, db
  <2> QED BY <1>10, <2>1, <2>2, OutsideGoto DEF RemoveShims, Labels, TxLabels, PlannedLabels
<1>11. CASE RemoveJournal(c)
  <2>1. proc[c].pc = "remove_journal" BY <1>11 DEF RemoveJournal, At
  <2>2. StoreStep
    <3>1. NoFile \in Files BY DEF Files
    <3>2. /\ journals' \in [Keys -> Files]
          /\ \A k \in Keys : journals'[k] \in {journals[k], NoFile}
      BY <1>11, <3>1 DEF RemoveJournal, Inv, TypeOK
    <3> QED BY <1>11, <3>2, SameOwners DEF RemoveJournal, StoreStep, StoreTypes, Inv, TypeOK, db
  <2>3. Exit(c) \/ Goto(c, "remove_trash") BY <1>11 DEF RemoveJournal
  <2> QED BY <2>1, <2>2, <2>3, OutsideExit, OutsideGoto DEF Labels, TxLabels, PlannedLabels
<1>12. CASE RemoveTrash(c)
  <2>1. StoreStep BY <1>12, CleanupStore DEF RemoveTrash
  <2> QED BY <1>12, <2>1, OutsideExit DEF RemoveTrash, At, TxLabels
<1> QED BY <1>3, <1>4, <1>5, <1>6, <1>7, <1>8, <1>9, <1>10, <1>11, <1>12 DEF RemoveStep
----------------------------------------------------------------------------
(* repair.                                                                 *)

(* The labels of repair are neither in the plan nor in the transaction.    *)
RepairLabels ==
  {"idle", "prepare", "replay", "replay_shims", "orphans", "remove_orphans"}

(* A step of repair that changes its process only within these labels.     *)
LEMMA RepairGood ==
  ASSUME Inv, NEW c \in Procs, StoreStep,
         proc[c].pc \in RepairLabels \cup {"ready"},
         NEW l \in Locals, l.pc \in RepairLabels, proc' = [proc EXCEPT ![c] = l]
  PROVE  Good(c)
<1>1. proc \in [Procs -> Locals] BY DEF Inv, TypeOK
<1>2. proc' \in [Procs -> Locals] /\ OthersStay(c) /\ proc'[c] = l
  BY <1>1 DEF OthersStay
<1> QED BY <1>2, OutsideIsGood DEF PlanIsSet, PlannedLabels, RepairLabels, TxLabels

LEMMA RepairExit ==
  ASSUME Inv, NEW c \in Procs, StoreStep, Exit(c),
         proc[c].pc \in RepairLabels \cup {"ready"}
  PROVE  Good(c)
  BY OutsideExit DEF RepairLabels, TxLabels

(* The memory of a repair that starts on a group.                          *)
LEMMA GroupType ==
  ASSUME NEW q \in RepairLabels, NEW g \in {"batch", "conflict"},
         NEW ks \in SUBSET Keys, NEW ds \in SUBSET Paths
  PROVE  Group(q, g, ks, ds) \in Locals /\ Group(q, g, ks, ds).pc = q
<1>1. Fresh \in Locals BY DEF Fresh, Locals, Labels
<1>2. q \in Labels BY DEF Labels, RepairLabels
<1> QED BY <1>1, <1>2 DEF Locals, Group

(* Going on to the next group with something to do.                        *)
LEMMA GroupsType ==
  ASSUME NEW l \in Locals, l.pc \in RepairLabels
  PROVE  /\ ToOrphans(l) \in Locals /\ ToOrphans(l).pc \in RepairLabels
         /\ ToConflicts(l) \in Locals /\ ToConflicts(l).pc \in RepairLabels
         /\ ToBatch(l) \in Locals /\ ToBatch(l).pc \in RepairLabels
<1>1. Fresh \in Locals /\ Fresh.pc \in RepairLabels
  BY DEF Fresh, Locals, Labels, RepairLabels
<1>2. l.paths \in SUBSET Paths /\ l.conflicts \in SUBSET Keys BY DEF Locals
<1> DEFINE o == Group("orphans", "batch", {}, l.paths)
           f == Group("prepare", "conflict", l.conflicts, l.paths)
<1>3. o \in Locals /\ o.pc \in RepairLabels
  BY <1>2, "orphans" \in RepairLabels, GroupType DEF RepairLabels
<1>4. f \in Locals /\ f.pc \in RepairLabels
  BY <1>2, "prepare" \in RepairLabels, GroupType DEF RepairLabels
<1>5. ToOrphans(l) \in {Fresh, o} BY DEF ToOrphans
<1>6. ToConflicts(l) \in {ToOrphans(l), f} BY DEF ToConflicts
<1> HIDE DEF o, f
<1> QED BY <1>1, <1>3, <1>4, <1>5, <1>6 DEF ToBatch

LEMMA NextGroupGood ==
  ASSUME Inv, NEW c \in Procs, StoreStep, proc[c].pc \in RepairLabels, NextGroup(c)
  PROVE  Good(c)
<1>1. proc \in [Procs -> Locals] /\ proc[c] \in Locals BY DEF Inv, TypeOK
<1> DEFINE l == IF proc[c].group = "batch" THEN ToConflicts(proc[c]) ELSE ToOrphans(proc[c])
<1>2. l \in Locals /\ l.pc \in RepairLabels BY <1>1, GroupsType
<1>3. proc' = [proc EXCEPT ![c] = l] BY <1>1 DEF NextGroup
<1> HIDE DEF l
<1> QED BY <1>2, <1>3, RepairGood

(* One target fewer to replay, at one of repair's labels.                  *)
LEMMA FewerTargetsGood ==
  ASSUME Inv, NEW c \in Procs, StoreStep, proc[c].pc \in RepairLabels, NEW t,
         proc' = [proc EXCEPT ![c].pc = "replay", ![c].targets = @ \ {t}]
  PROVE  Good(c)
<1>1. proc \in [Procs -> Locals] /\ proc[c] \in Locals BY DEF Inv, TypeOK
<1> DEFINE l == [proc[c] EXCEPT !.pc = "replay", !.targets = proc[c].targets \ {t}]
<1>2. l \in Locals /\ l.pc \in RepairLabels BY <1>1 DEF Locals, Labels, RepairLabels
<1>3. proc' = [proc EXCEPT ![c] = l] BY <1>1
<1> HIDE DEF l
<1> QED BY <1>2, <1>3, RepairGood

(* The steps of repair.                                                    *)
LEMMA RepairIsGood ==
  ASSUME Inv, NEW c \in Procs, RepairStep(c)
  PROVE  Good(c)
<1>1. proc \in [Procs -> Locals] /\ proc[c] \in Locals BY DEF Inv, TypeOK
<1>2. CASE Inspect(c)
  <2> DEFINE found(seen, read) ==
               [Fresh EXCEPT !.pc = "prepare",
                             !.keys = read \cap ReplayCandidates(seen),
                             !.conflicts = read \cap ConflictingJournals(seen),
                             !.paths = OrphanDirs(seen)]
  <2>0. PICK seen \in PackagesSeen, read \in JournalsRead :
          proc' = [proc EXCEPT ![c] = ToBatch(found(seen, read))]
    BY <1>2 DEF Inspect
  <2> DEFINE l == ToBatch(found(seen, read))
  <2>1. StoreStep BY <1>2, QuietStore DEF Inspect
  <2>2. /\ ReplayCandidates(seen) \in SUBSET Keys
        /\ ConflictingJournals(seen) \in SUBSET Keys
        /\ OrphanDirs(seen) \in SUBSET Paths
    BY DEF ReplayCandidates, ConflictingJournals, OrphanDirs
  <2>7. Fresh \in Locals BY DEF Fresh, Locals, Labels
  <2>3. found(seen, read) \in Locals /\ found(seen, read).pc \in RepairLabels
    BY <2>2, <2>7 DEF Locals, Labels, RepairLabels
  <2> HIDE DEF found
  <2>6. l \in Locals /\ l.pc \in RepairLabels BY <2>3, GroupsType
  <2>4. proc' = [proc EXCEPT ![c] = l] BY <1>1, <2>0
  <2>5. proc[c].pc = "ready" BY <1>2 DEF Inspect, At
  <2> HIDE DEF l
  <2> QED BY <2>1, <2>4, <2>5, <2>6, RepairGood
<1>3. CASE Prepare(c)
  <2>1. StoreStep BY <1>3, QuietStore DEF Prepare
  <2>2. proc[c].pc = "prepare" /\ proc[c].pc \in RepairLabels
    BY <1>3 DEF Prepare, At, RepairLabels
  <2>3. CASE NextGroup(c) BY <2>1, <2>2, <2>3, NextGroupGood
  <2>4. CASE Exit(c) BY <2>1, <2>2, <2>4, RepairExit
  <2>5. CASE /\ \A k \in proc[c].keys : Replayable(journals[k])
             /\ proc' = [proc EXCEPT
                  ![c].pc = "replay", ![c].keys = {},
                  ![c].targets = {[pkg |-> k[1], ver |-> k[2],
                                   meta |-> FirstMeta(journals[k])] : k \in proc[c].keys}]
    <3> DEFINE T == {[pkg |-> k[1], ver |-> k[2],
                      meta |-> FirstMeta(journals[k])] : k \in proc[c].keys}
               l == [proc[c] EXCEPT !.pc = "replay", !.keys = {}, !.targets = T]
    <3>1. ASSUME NEW k \in proc[c].keys
          PROVE  [pkg |-> k[1], ver |-> k[2], meta |-> FirstMeta(journals[k])] \in Targets
      <4>1. k \in Keys BY <1>1 DEF Locals
      <4>2. k[1] \in Packages /\ k[2] \in Versions BY <4>1 DEF Keys
      <4>3. journals[k] \in Files BY <4>1 DEF Inv, TypeOK
      <4>4. FirstMeta(journals[k]) \in Metas BY <2>5, <4>3, FirstMetaType
      <4> QED BY <4>2, <4>4 DEF Targets
    <3>2. T \in SUBSET Targets BY <3>1
    <3> HIDE DEF T
    <3>3. l \in Locals /\ l.pc \in RepairLabels BY <1>1, <3>2 DEF Locals, Labels, RepairLabels
    <3>4. proc' = [proc EXCEPT ![c] = l] BY <1>1, <2>5 DEF T
    <3> HIDE DEF l
    <3> QED BY <2>1, <2>2, <3>3, <3>4, RepairGood
  <2> QED BY <1>3, <2>3, <2>4, <2>5 DEF Prepare
<1>4. CASE SkipConflict(c)
  <2>1. StoreStep BY <1>4, QuietStore DEF SkipConflict
  <2>2. proc[c].pc = "replay" /\ proc[c].pc \in RepairLabels
    BY <1>4 DEF SkipConflict, At, RepairLabels
  <2>3. PICK t \in proc[c].targets :
          NextGroup(c) \/ proc' = [proc EXCEPT ![c].targets = @ \ {t}]
    BY <1>4 DEF SkipConflict
  <2>4. CASE proc' = [proc EXCEPT ![c].targets = @ \ {t}]
    <3> DEFINE l == [proc[c] EXCEPT !.targets = proc[c].targets \ {t}]
    <3>1. l \in Locals /\ l.pc = "replay" BY <1>1, <2>2 DEF Locals
    <3>2. proc' = [proc EXCEPT ![c] = l] BY <1>1, <2>4
    <3>3. l.pc \in RepairLabels BY <3>1 DEF RepairLabels
    <3> HIDE DEF l
    <3> QED BY <2>1, <2>2, <3>1, <3>2, <3>3, RepairGood
  <2> QED BY <2>1, <2>2, <2>3, <2>4, NextGroupGood
<1>5. CASE Replay(c)
  <2>1. proc[c].pc = "replay" /\ proc[c].pc \in RepairLabels
        /\ UNCHANGED <<writer, dirs, journals, shims>>
    BY <1>5 DEF Replay, At, RepairLabels, disk
  <2>2. PICK t \in proc[c].targets :
       \/ /\ LockFree /\ ~Claimed(t.pkg, t.meta.cmds)
          /\ InsertRow(t.pkg, t.ver, t.meta.kind, "ok")
          /\ SyncCommands(t.pkg, t.meta.cmds)
          /\ \E cs \in CommandsRead(t.pkg) :
               proc' = [proc EXCEPT ![c].pc = "replay_shims", ![c].pkg = t.pkg,
                                    ![c].ver = t.ver, ![c].cmds = cs]
       \/ /\ WriteFails(c) \/ Claimed(t.pkg, t.meta.cmds)
          /\ Exit(c) /\ UNCHANGED <<rows, owner>>
    BY <1>5 DEF Replay
  <2>3. t \in Targets BY <1>1 DEF Locals
  <2>4. t.pkg \in Packages /\ t.ver \in Versions /\ t.meta.kind \in EngineKinds
    BY <2>3 DEF Targets, Metas
  <2>5. CASE Exit(c) /\ UNCHANGED <<rows, owner>>
    <3>1. StoreStep BY <2>1, <2>5, QuietStore DEF db, disk
    <3> QED BY <2>1, <2>5, <3>1, RepairExit
  <2>6. CASE /\ LockFree /\ ~Claimed(t.pkg, t.meta.cmds)
             /\ InsertRow(t.pkg, t.ver, t.meta.kind, "ok")
             /\ SyncCommands(t.pkg, t.meta.cmds)
             /\ \E cs \in CommandsRead(t.pkg) :
                  proc' = [proc EXCEPT ![c].pc = "replay_shims", ![c].pkg = t.pkg,
                                       ![c].ver = t.ver, ![c].cmds = cs]
    <3>0. PICK cs \in CommandsRead(t.pkg) :
            proc' = [proc EXCEPT ![c].pc = "replay_shims", ![c].pkg = t.pkg,
                                 ![c].ver = t.ver, ![c].cmds = cs]
      BY <2>6
    <3> DEFINE l == [proc[c] EXCEPT !.pc = "replay_shims", !.pkg = t.pkg,
                                    !.ver = t.ver, !.cmds = cs]
    <3>1. rows' \in [Packages -> Rows] BY <2>4, <2>6, InsertRowType DEF Inv
    <3>2. owner' \in [Commands -> Packages \cup {None}]
      BY <2>4, <2>6, SyncCommandsType DEF Inv
    <3>3. StoreStep
      <4>1. OwnersGood
        <5>1. [status |-> "ok", ver |-> t.ver, kind |-> t.meta.kind].status = "ok" OBVIOUS
        <5> QED BY <2>4, <2>6, <5>1, SyncOwners DEF InsertRow
      <4> QED
        BY <2>1, <2>6, <3>1, <3>2, <4>1 DEF StoreStep, StoreTypes, Inv, TypeOK, LockFree
    <3>4. cs \in SUBSET Commands BY <3>0 DEF CommandsRead, Owned
    <3>5. l \in Locals /\ l.pc \in RepairLabels
      BY <1>1, <2>4, <3>4 DEF Locals, Labels, RepairLabels
    <3>6. proc' = [proc EXCEPT ![c] = l] BY <1>1, <3>0
    <3> HIDE DEF l
    <3> QED BY <2>1, <3>3, <3>5, <3>6, RepairGood
  <2> QED BY <2>2, <2>5, <2>6
<1>6. CASE ReplayShims(c)
  <2>1. proc[c].pc = "replay_shims" /\ proc[c].pc \in RepairLabels
        /\ UNCHANGED <<rows, owner, writer, dirs, journals>>
    BY <1>6 DEF ReplayShims, At, RepairLabels, db
  <2>2. PICK t \in proc[c].targets :
          /\ \/ shims' = [x \in Commands |->
                            IF x \in t.meta.cmds THEN t.pkg
                            ELSE IF x \in proc[c].cmds \ t.meta.cmds THEN None ELSE shims[x]]
             \/ \E done \in SUBSET t.meta.cmds : WriteShims(done, t.pkg)
          /\ \/ NextGroup(c)
             \/ proc' = [proc EXCEPT ![c].pc = "replay", ![c].targets = @ \ {t}]
    BY <1>6 DEF ReplayShims
  <2>3. t.pkg \in Packages BY <1>1 DEF Locals, Targets
  <2>4. shims' \in [Commands -> Packages \cup {None}]
    BY <2>2, <2>3, WriteShimsType DEF Inv, TypeOK
  <2>5. StoreStep BY <2>1, <2>4, SameOwners DEF StoreStep, StoreTypes, Inv, TypeOK
  <2> QED BY <2>1, <2>2, <2>5, NextGroupGood, FewerTargetsGood
<1>7. CASE ConfirmOrphans(c)
  <2>1. StoreStep BY <1>7, QuietStore DEF ConfirmOrphans
  <2>2. proc[c].pc = "orphans" /\ proc[c].pc \in RepairLabels
    BY <1>7 DEF ConfirmOrphans, At, RepairLabels
  <2>3. CASE Goto(c, "remove_orphans")
    <3> DEFINE l == [proc[c] EXCEPT !.pc = "remove_orphans"]
    <3>1. l \in Locals /\ l.pc \in RepairLabels BY <1>1 DEF Locals, Labels, RepairLabels
    <3>2. proc' = [proc EXCEPT ![c] = l] BY <1>1, <2>3 DEF Goto
    <3> HIDE DEF l
    <3> QED BY <2>1, <2>2, <3>1, <3>2, RepairGood
  <2> QED BY <1>7, <2>1, <2>2, <2>3, RepairExit DEF ConfirmOrphans
<1>8. CASE RemoveOrphan(c)
  <2>1. proc[c].pc = "remove_orphans" /\ proc[c].pc \in RepairLabels
    BY <1>8 DEF RemoveOrphan, At, RepairLabels
  <2>2. PICK d \in proc[c].paths :
          /\ Cleanup(d) \/ CleanupFails(d)
          /\ Exit(c) \/ proc' = [proc EXCEPT ![c].paths = @ \ {d}]
    BY <1>8 DEF RemoveOrphan
  <2>3. StoreStep BY <1>8, <2>2, CleanupStore DEF RemoveOrphan
  <2>4. CASE proc' = [proc EXCEPT ![c].paths = @ \ {d}]
    <3> DEFINE l == [proc[c] EXCEPT !.paths = proc[c].paths \ {d}]
    <3>1. l \in Locals /\ l.pc = "remove_orphans" BY <1>1, <2>1 DEF Locals
    <3>2. proc' = [proc EXCEPT ![c] = l] BY <1>1, <2>4
    <3>3. l.pc \in RepairLabels BY <3>1 DEF RepairLabels
    <3> HIDE DEF l
    <3> QED BY <2>1, <2>3, <3>1, <3>2, <3>3, RepairGood
  <2> QED BY <2>1, <2>2, <2>3, <2>4, RepairExit
<1> QED BY <1>2, <1>3, <1>4, <1>5, <1>6, <1>7, <1>8 DEF RepairStep
----------------------------------------------------------------------------
(* A kill.                                                                 *)
LEMMA CrashIsGood ==
  ASSUME Inv, NEW c \in Procs, Crash(c)
  PROVE  Good(c)
<1>1. proc \in [Procs -> Locals] BY DEF Inv, TypeOK
<1>2. /\ proc' \in [Procs -> Locals] /\ OthersStay(c) /\ proc'[c] = Fresh
      /\ proc'[c].pc = "idle"
  BY <1>1, ExitFacts DEF Crash
<1>3. PlanIsSet(proc'[c]) BY <1>2 DEF PlanIsSet, PlannedLabels
<1>4. OwnersGood BY SameOwners DEF Crash
<1>5. UNCHANGED <<rows, owner, shims>> BY DEF Crash
<1>6. writer' = IF writer = c THEN None ELSE writer BY DEF Crash
<1>7. dirs' \in [Paths -> Versions \cup {None, Partial}]
  <2>1. CASE At(c, "engine")
    <3>1. PlanIsSet(proc[c]) BY DEF Inv, CommitIsExclusive
    <3>2. proc[c].pkg \in Packages /\ proc[c].ver \in Versions
      BY <2>1, <3>1 DEF PlanIsSet, PlannedLabels, At
    <3>3. EngineDebris(c) \subseteq Versions \cup {None, Partial}
      BY <3>2 DEF EngineDebris, Inv, TypeOK, Live, Paths
    <3> QED BY <2>1, <3>3 DEF Crash, Inv, TypeOK
  <2> QED BY <2>1 DEF Crash, Inv, TypeOK
<1>8. CASE proc[c].pc \in TxLabels
  <2>1. JournalStep(c) /\ journals' \in [Keys -> Files]
    <3>1. CASE proc[c].pc \in WriteLabels
      <4>1. PICK g \in JournalDebris(c) :
              journals' = [journals EXCEPT ![JournalKey(c)] = g]
        BY <3>1 DEF Crash
      <4>2. g \in Files /\ JournalMeta(c) \in Metas BY <1>8, TxFacts
      <4>3. Openable(journals[JournalKey(c)]) \/ At(c, "blind")
        BY <3>1 DEF Inv, CommitIsExclusive, At, WriteLabels
      <4>4. Rewritten(journals[JournalKey(c)], g) \/ At(c, "blind")
        BY <4>2, <4>3 DEF JournalDebris, Rewritten
      <4> QED BY <1>8, <4>1, <4>2, <4>4, OneJournal
    <3>2. CASE proc[c].pc \notin WriteLabels
      BY <3>2 DEF Crash, JournalStep, Rewritten, Inv, TypeOK
    <3> QED BY <3>1, <3>2
  <2>2. writer' = None BY <1>6, <1>8, TxFacts
  <2>3. LeavesTx(c) BY <1>2, <1>8, <2>1, <2>2 DEF LeavesTx, TxLabels
  <2> QED BY <1>2, <1>3, <1>4, <1>5, <1>7, <2>1, <2>2, <2>3 DEF Good, Shape, Inv, TypeOK
<1>9. CASE proc[c].pc \notin TxLabels
  <2>1. writer # c BY <1>9, NoneIsFresh DEF Inv, CommitIsExclusive
  <2>2. journals' = journals BY <1>9 DEF Crash, WriteLabels, TxLabels
  <2>3. OutsideTx(c) BY <1>2, <1>5, <1>6, <1>9, <2>1, <2>2 DEF OutsideTx, TxLabels
  <2> QED BY <1>2, <1>3, <1>4, <1>5, <1>6, <1>7, <2>1, <2>2, <2>3
          DEF Good, Shape, Inv, TypeOK
<1> QED BY <1>8, <1>9

(* So every step of the system is good for the process that takes it.      *)
LEMMA NextIsGood ==
  ASSUME Inv, Next
  PROVE  \E c \in Procs : Good(c)
  BY StartupIsGood, InstallIsGood, RemoveIsGood, RepairIsGood, CrashIsGood DEF Next, Step
----------------------------------------------------------------------------
(* The invariant.                                                          *)

LEMMA InitInv ==
  ASSUME Init
  PROVE  Inv
<1>1. Fresh \in Locals /\ Fresh.pc = "idle" BY DEF Fresh, Locals, Labels
<1>2. NoRow \in Rows /\ NoFile \in Files BY DEF Rows, Files
<1>3. TypeOK BY <1>1, <1>2 DEF Init, TypeOK
<1>4. \A c \in Procs : proc[c].pc = "idle" BY <1>1 DEF Init
<1>5. CommitIsExclusive
  BY <1>4 DEF CommitIsExclusive, Init, PlanIsSet, PlannedLabels, TxLabels, At
<1>6. OwnersWereInstalled BY DEF OwnersWereInstalled, Init
<1> QED BY <1>3, <1>5, <1>6 DEF Inv

(* A good step keeps the commits apart: the process that takes it is the   *)
(* only one that is, was or comes to be inside its transaction; or it is   *)
(* outside, and then it cannot touch what the transaction relies on.       *)
LEMMA GoodIsExclusive ==
  ASSUME Inv, NEW c \in Procs, Good(c)
  PROVE  CommitIsExclusive'
<1>1. /\ TypeOK /\ CommitIsExclusive /\ PlanIsSet(proc'[c]) /\ OthersStay(c)
      /\ OutsideTx(c) \/ EntersTx(c) \/ InsideTx(c) \/ LeavesTx(c)
  BY DEF Inv, Good, Shape
<1>2. \A d \in Procs : PlanIsSet(proc'[d])
  BY <1>1 DEF OthersStay, CommitIsExclusive
<1>3. \A d \in Procs : proc[d].pc \in TxLabels => writer = d
  BY <1>1 DEF CommitIsExclusive
<1>4. \A d \in Procs : d # None BY NoneIsFresh
<1>5. Openable(NoFile) BY DEF Openable, NoFile
<1>6. CASE OutsideTx(c)
  <2>1. \A d \in Procs : proc'[d].pc \in TxLabels => d # c /\ proc'[d] = proc[d]
    BY <1>1, <1>6 DEF OutsideTx, OthersStay
  <2>2. \A d \in Procs : proc'[d].pc \in TxLabels => UNCHANGED <<rows, owner, writer>>
    BY <1>3, <1>4, <1>6, <2>1 DEF OutsideTx
  <2>3. writer # None => writer # c /\ writer \in Procs
    BY <1>1, <1>6 DEF OutsideTx, CommitIsExclusive, TypeOK
  <2>4. writer' # None => proc'[writer'].pc \in TxLabels
    BY <1>1, <1>6, <2>3 DEF OutsideTx, OthersStay, CommitIsExclusive
  <2>5. ASSUME NEW d \in Procs, proc'[d].pc \in TxLabels
        PROVE  writer' = d /\ Present(proc[d].pkg)' /\ ~CommandConflict(d)'
    BY <1>1, <2>1, <2>2, <2>5 DEF CommitIsExclusive, Present, CommandConflict, Claimed
  <2>6. ASSUME NEW d \in Procs, proc'[d].pc = "journal"
        PROVE  Openable(journals'[JournalKey(d)'])
    <3>1. proc'[d] = proc[d] /\ rows' = rows BY <2>1, <2>2, <2>6 DEF TxLabels
    <3>2. JournalKey(d)' = JournalKey(d) BY <3>1 DEF JournalKey
    <3>3. proc[d].pc \in TxLabels /\ At(d, "journal") BY <2>6, <3>1 DEF TxLabels, At
    <3>4. JournalKey(d) \in Keys BY <3>3, TxFacts
    <3>5. Openable(journals[JournalKey(d)]) BY <1>1, <3>3 DEF CommitIsExclusive
    <3> QED BY <1>5, <1>6, <3>2, <3>4, <3>5 DEF OutsideTx
  <2> QED BY <1>2, <2>4, <2>5, <2>6 DEF CommitIsExclusive, At
<1>7. CASE EntersTx(c) \/ InsideTx(c)
  <2>1. \A d \in Procs : d # c => proc'[d].pc \notin TxLabels
    BY <1>1, <1>3, <1>4, <1>7 DEF EntersTx, InsideTx, OthersStay
  <2>2. writer' = c /\ UNCHANGED <<rows, owner>> /\ proc'[c].pc \in TxLabels
        /\ proc'[c].pkg = proc[c].pkg /\ proc'[c].cmds = proc[c].cmds
    BY <1>3, <1>7 DEF EntersTx, InsideTx, TxLabels
  <2>3. Present(proc[c].pkg) /\ ~CommandConflict(c)
    BY <1>1, <1>7 DEF EntersTx, InsideTx, CommitIsExclusive
  <2>4. Present(proc[c].pkg)' /\ ~CommandConflict(c)'
    BY <2>2, <2>3 DEF Present, CommandConflict, Claimed
  <2>5. proc'[c].pc = "journal" => Openable(journals'[JournalKey(c)'])
    BY <1>7, <2>2 DEF EntersTx, InsideTx, JournalKey
  <2>6. \A d \in Procs : proc'[d].pc = "journal" => d = c BY <2>1 DEF TxLabels
  <2> QED BY <1>2, <2>1, <2>2, <2>4, <2>5, <2>6 DEF CommitIsExclusive, At
<1>8. CASE LeavesTx(c)
  <2>1. \A d \in Procs : proc'[d].pc \notin TxLabels
    BY <1>1, <1>3, <1>8 DEF LeavesTx, OthersStay
  <2>2. writer' = None BY <1>8 DEF LeavesTx
  <2>3. \A d \in Procs : proc'[d].pc # "journal" BY <2>1 DEF TxLabels
  <2> QED BY <1>2, <2>1, <2>2, <2>3 DEF CommitIsExclusive, At
<1> QED BY <1>1, <1>6, <1>7, <1>8

LEMMA NextInv ==
  ASSUME Inv, [Next]_vars
  PROVE  Inv'
<1>1. CASE Next
  <2>1. PICK c \in Procs : Good(c) BY <1>1, NextIsGood
  <2>2. CommitIsExclusive' BY <2>1, GoodIsExclusive
  <2> QED BY <2>1, <2>2 DEF Good, OwnersGood, Inv
<1>2. CASE UNCHANGED vars
  <2>1. TypeOK' BY <1>2 DEF vars, Inv, TypeOK
  <2>2. OwnersWereInstalled' BY <1>2 DEF vars, Inv, OwnersWereInstalled
  <2>3. CommitIsExclusive'
    BY <1>2 DEF vars, Inv, CommitIsExclusive, Present, CommandConflict, Claimed, JournalKey, At
  <2> QED BY <2>1, <2>2, <2>3 DEF Inv
<1> QED BY <1>1, <1>2

(* Everything below rests on this one invariant.                           *)
THEOREM Invariance == Spec => []Inv
<1>1. Init => Inv BY InitInv
<1>2. Inv /\ [Next]_vars => Inv' BY NextInv
<1> QED BY <1>1, <1>2, PTL DEF Spec
----------------------------------------------------------------------------
(* Rows, registry, directories, journals, shims and every process's memory *)
(* stay what the code's types say, through every failure and interleaving. *)
THEOREM TypeCorrect == Spec => []TypeOK
<1>1. Inv => TypeOK BY DEF Inv
<1> QED BY <1>1, Invariance, PTL

(* However many processes run, at most one is between the first statement  *)
(* and the end of commit_install_with_journal, and what it checked there   *)
(* still holds when it writes and commits.                                 *)
THEOREM CommitsAreExclusive == Spec => []CommitIsExclusive
<1>1. Inv => CommitIsExclusive BY DEF Inv
<1> QED BY <1>1, Invariance, PTL

(* The command registry never names a package that was not installed.      *)
THEOREM Owners == Spec => []OwnersWereInstalled
<1>1. Inv => OwnersWereInstalled BY DEF Inv
<1> QED BY <1>1, Invariance, PTL

(* No install and no replay takes a command away from another package.     *)
THEOREM NoTheft == Spec => CommandsAreNotStolen
<1>1. ASSUME Inv, [Next]_vars
      PROVE  [\A x \in Commands : owner[x] # None => owner'[x] \in {owner[x], None}]_vars
  BY <1>1, NextIsGood DEF Good, OwnersGood, KeepsOwners
<1>2. Inv /\ [Next]_vars
      => [\A x \in Commands : owner[x] # None => owner'[x] \in {owner[x], None}]_vars
  BY <1>1
<1> QED BY <1>2, Invariance, PTL DEF Spec, CommandsAreNotStolen

(* Every step leaves every journal as it was, deletes it, or does to it    *)
(* what one commit transaction does.                                       *)
LEMMA JournalsAreRewritten ==
  ASSUME Inv, Next
  PROVE  \A k \in Keys : \/ journals'[k] = NoFile
                          \/ Rewritten(journals[k], journals'[k])
                          \/ OpenedUnread(k)
<1>1. PICK c \in Procs : Good(c) BY NextIsGood
<1>2. \A k \in Keys : Unread(c, k) => OpenedUnread(k) BY DEF Unread, OpenedUnread
<1> QED BY <1>1, <1>2
        DEF Good, Shape, OutsideTx, EntersTx, InsideTx, LeavesTx, JournalStep, Rewritten

(* A committed journal is never written again, by any process, but by one  *)
(* whose check of it in open_at met a read error.                          *)
THEOREM FinalJournal == Spec => CommittedJournalIsFinal
<1> DEFINE Final == \A k \in Keys :
                      Committed(journals[k]) /\ ~OpenedUnread(k)
                      => journals'[k] \in {journals[k], NoFile}
<1>1. ASSUME Inv, Next
      PROVE  Final
  <2>1. \A k \in Keys : journals[k] \in Files BY <1>1 DEF Inv, TypeOK
  <2> QED BY <1>1, <2>1, JournalsAreRewritten, OpenableIsNotCommitted DEF Rewritten
<1>2. Inv /\ [Next]_vars => [Final]_vars BY <1>1
<1> QED BY <1>2, Invariance, PTL DEF Spec, CommittedJournalIsFinal

(* While journals can be read, no process opens one unread: that is the    *)
(* label's only entry.                                                     *)
LEMMA NoneUnread ==
  ASSUME Inv, Next, ~JournalReadFails, \A c \in Procs : ~At(c, "blind")
  PROVE  \A c \in Procs : ~At(c, "blind")'
<1>1. PICK c \in Procs : Good(c) BY NextIsGood
<1>2. proc'[c].pc # "blind"
  BY <1>1 DEF Good, Shape, OutsideTx, EntersTx, InsideTx, LeavesTx, TxLabels
<1>3. \A d \in Procs \ {c} : proc'[d] = proc[d] BY <1>1 DEF Good, Shape, OthersStay
<1> QED BY <1>2, <1>3 DEF At

(* If journals can be read, none ever holds entries after a Commit.        *)
THEOREM NoTrailing ==
  ASSUME "journal_read" \notin Faults
  PROVE  Spec => []NoTrailingEntries
<1> DEFINE NoBlind == \A c \in Procs : ~At(c, "blind")
<1>1. Init => NoTrailingEntries /\ NoBlind
  BY DEF Init, NoTrailingEntries, TrailingEntries, NoFile, At, Fresh
<1>2. ASSUME NoTrailingEntries, NoBlind, Inv, Next
      PROVE  NoTrailingEntries' /\ NoBlind'
  <2>1. ~JournalReadFails BY DEF JournalReadFails
  <2>2. NoBlind' BY <1>2, <2>1, NoneUnread
  <2>3. ASSUME NEW k \in Keys
        PROVE  ~TrailingEntries(journals'[k])
    <3>1. journals[k] \in Files /\ ~TrailingEntries(journals[k])
      BY <1>2 DEF Inv, TypeOK, NoTrailingEntries
    <3>2. ~TrailingEntries(NoFile) BY DEF TrailingEntries, NoFile
    <3>3. ~OpenedUnread(k) BY <1>2 DEF OpenedUnread
    <3> QED BY <1>2, <3>1, <3>2, <3>3, JournalsAreRewritten, RewritesHaveNoTrailing DEF Rewritten
  <2> QED BY <2>2, <2>3 DEF NoTrailingEntries
<1>3. NoTrailingEntries /\ NoBlind /\ Inv /\ [Next]_vars => NoTrailingEntries' /\ NoBlind'
  BY <1>2 DEF NoTrailingEntries, vars, At
<1> HIDE DEF NoBlind
<1> QED BY <1>1, <1>3, Invariance, PTL DEF Spec
=============================================================================
