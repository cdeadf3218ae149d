------------------------------- MODULE Store -------------------------------
(***************************************************************************)
(* What WinBrew keeps between commands, and what one running command       *)
(* remembers.                                                              *)
(*                                                                         *)
(* Shared state: the SQLite tables installed_packages and command_registry *)
(* (crates/database), the package directories, the journals and the shims  *)
(* under the managed root.  Every winbrew process opens the same files;    *)
(* nothing but SQLite's write lock serialises them.                        *)
(***************************************************************************)
EXTENDS Journal

CONSTANTS
  Procs,        \* winbrew processes that may run at the same time
  Packages,     \* package names (the primary key of installed_packages)
  Versions,     \* versions the catalog offers over time
  Partial,      \* the content of a directory that is only partly there
  Exposes,      \* [Packages \X Versions -> SUBSET Commands]: resolved commands
  Manifest,     \* [Packages -> EngineKinds]: the engine the catalog names
  Probe,        \* [Packages -> SUBSET EngineKinds]: what the payload may be
  Faults,       \* the classes of failure a run allows
  MaxLines      \* bound: a torn write leaves at most this many journal lines and
                \* a part of one, and a journal of more is not opened unread

Keys  == Packages \X Versions        \* package_journal_key(name, version)
Paths == Packages \X {"live", "trash"}   \* packages/<name>, packages/<name>.trash

(* A process is killed; a statement that writes the database fails, or one *)
(* that reads it; an operation on a directory or shim; one that opens,     *)
(* writes or deletes a journal, or one that reads it.                      *)
FaultClasses == {"crash", "db", "read", "fs", "journal", "journal_read"}

ASSUME NoneIsFresh ==
  None \notin Procs \cup Packages \cup Versions \cup {Partial}
ASSUME PartialIsFresh == Partial \notin Versions
ASSUME ExposesType  == Exposes \in [Keys -> SUBSET Commands]
ASSUME ManifestType == Manifest \in [Packages -> EngineKinds]
ASSUME ProbeType    == Probe \in [Packages -> SUBSET EngineKinds]
ASSUME FaultsType   == Faults \subseteq FaultClasses
ASSUME MaxLinesType == MaxLines \in Nat

VARIABLES
  rows,      \* installed_packages: [Packages -> Rows]
  owner,     \* command_registry: [Commands -> Packages or None]
  writer,    \* the process whose open transaction holds SQLite's write lock
  dirs,      \* [Paths -> the version whose files it holds, Partial or None]
  journals,  \* [Keys -> Files]
  shims,     \* [Commands -> the package whose directory the shim runs, or None]
  proc       \* [Procs -> Locals]: the memory of each process

db   == <<rows, owner, writer>>
disk == <<dirs, journals, shims>>
vars == <<rows, owner, writer, dirs, journals, shims, proc>>

NoRow == [status |-> "absent", ver |-> None, kind |-> None]

(* The status Updating exists in the code but nothing writes it.           *)
Rows == {NoRow} \cup
        [status : {"installing", "ok", "failed"}, ver : Versions, kind : EngineKinds]

(* A committed journal read into memory: prepare_journal_replay_targets.   *)
Targets == [pkg : Packages, ver : Versions, meta : Metas]

Labels == {"idle", "stale_row", "stale_dir", "ready",
           "drop_row", "clear_dir", "mark", "download", "engine",
           "rollback_row", "rollback_dir", "begin", "open", "journal", "blind",
           "commit", "commit_failed", "read_commands", "write_shims",
           "confirm", "stage", "uninstall", "delete_row", "remove_shims",
           "remove_journal", "remove_trash",
           "prepare", "replay", "replay_shims", "orphans", "remove_orphans"}

Locals == [pc        : Labels,
           pkg       : Packages \cup {None},
           ver       : Versions \cup {None},
           kind      : EngineKinds \cup {None},
           cmds      : SUBSET Commands,
           blocked   : BOOLEAN,             \* install: a command conflict was seen
           paths     : SUBSET Paths,        \* directories still to deal with
           group     : {"batch", "conflict"},  \* repair: which replay group
           keys      : SUBSET Keys,         \* repair: journals of this group
           conflicts : SUBSET Keys,         \* repair: journals of the conflict group
           targets   : SUBSET Targets]      \* repair: journals read into memory

(* A process that is not running.                                          *)
Fresh == [pc |-> "idle", pkg |-> None, ver |-> None, kind |-> None,
          cmds |-> {}, blocked |-> FALSE, paths |-> {}, group |-> "batch",
          keys |-> {}, conflicts |-> {}, targets |-> {}]

TypeOK ==
  /\ rows \in [Packages -> Rows]
  /\ owner \in [Commands -> Packages \cup {None}]
  /\ writer \in Procs \cup {None}
  /\ dirs \in [Paths -> Versions \cup {None, Partial}]
  /\ journals \in [Keys -> Files]
  /\ shims \in [Commands -> Packages \cup {None}]
  /\ proc \in [Procs -> Locals]

(* A freshly created managed root.                                         *)
Init ==
  /\ rows = [p \in Packages |-> NoRow]
  /\ owner = [x \in Commands |-> None]
  /\ writer = None
  /\ dirs = [d \in Paths |-> None]
  /\ journals = [k \in Keys |-> NoFile]
  /\ shims = [x \in Commands |-> None]
  /\ proc = [c \in Procs |-> Fresh]
----------------------------------------------------------------------------
(* Processes.                                                              *)

At(c, label)   == proc[c].pc = label
Goto(c, label) == proc' = [proc EXCEPT ![c].pc = label]
Exit(c)        == proc' = [proc EXCEPT ![c] = Fresh]

Live(c)  == <<proc[c].pkg, "live">>
Trash(c) == <<proc[c].pkg, "trash">>
----------------------------------------------------------------------------
(* SQLite (connection.rs: WAL, busy_timeout 5 s).  A statement outside a   *)
(* transaction is one step and needs the write lock to be free; a write    *)
(* that meets the lock waits, and fails if the timeout expires first.      *)

Present(p)     == rows[p].status # "absent"
LockFree       == writer = None
WriteFails(c)  == "db" \in Faults \/ writer \notin {None, c}
Owned(p)       == {x \in Commands : owner[x] = p}
Claimed(p, cs) == \E x \in cs : owner[x] \notin {None, p}

ReadFails      == "read" \in Faults

(* list_commands_for_package: its callers take a failed read for no        *)
(* commands.                                                               *)
CommandsRead(p) == {Owned(p)} \cup (IF ReadFails THEN {{}} ELSE {})

(* An I/O error while a journal is read.                                   *)
JournalReadFails == "journal_read" \in Faults

SetStatus(p, s) ==      \* update_status: by name, whatever the row's state is
  rows' = [rows EXCEPT ![p] = IF Present(p) THEN [@ EXCEPT !.status = s] ELSE @]

(* Mutant of InsertRow: the engine is left out.                            *)
InsertRowWithoutEngine(p, v, k, s) ==
  rows' = [rows EXCEPT ![p] = [status |-> s, ver |-> v, kind |-> None]]

InsertRow(p, v, k, s) == rows' = [rows EXCEPT ![p] = [status |-> s, ver |-> v, kind |-> k]]

(* Mutant of DeleteRow: the foreign key of command_registry is off.        *)
DeleteRowAlone(p) == rows' = [rows EXCEPT ![p] = NoRow] /\ UNCHANGED owner

DeleteRow(p) ==         \* delete_package; the foreign keys cascade
  /\ rows' = [rows EXCEPT ![p] = NoRow]
  /\ owner' = [x \in Commands |-> IF owner[x] = p THEN None ELSE owner[x]]

SyncCommands(p, cs) ==  \* sync_package_commands, when nothing is Claimed
  owner' = [x \in Commands |-> IF x \in cs THEN p
                               ELSE IF owner[x] = p THEN None ELSE owner[x]]
----------------------------------------------------------------------------
(* The file system.  cleanup_path removes a directory or, when that fails, *)
(* moves it aside; failing that it reports an error with some files gone.  *)

Cleanup(d)      == dirs' = [dirs EXCEPT ![d] = None]
CleanupFails(d) ==
  /\ "fs" \in Faults
  /\ dirs[d] # None
  /\ dirs' \in {dirs, [dirs EXCEPT ![d] = Partial]}

WriteShims(cs, p) == shims' = [x \in Commands |-> IF x \in cs THEN p ELSE shims[x]]
=============================================================================
