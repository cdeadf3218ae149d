----------------------------- MODULE WriteAhead ----------------------------
(***************************************************************************)
(* What commit_install_with_journal and recovery-policy.md promise of the  *)
(* package index and its journals, without saying how: a write-ahead log.  *)
(* A version is on record before it is installed, it stays on record while *)
(* it is installed, and only what is on record is ever installed.          *)
(***************************************************************************)
CONSTANTS Packages, Versions, None

VARIABLES installed,   \* [Packages -> the version the index shows, or None]
          evidence     \* the <<package, version>> pairs on record

Init ==
  /\ installed = [p \in Packages |-> None]
  /\ evidence = {}

Record(p, v) == evidence' = evidence \cup {<<p, v>>} /\ UNCHANGED installed

Install(p, v) ==
  /\ <<p, v>> \in evidence
  /\ installed' = [installed EXCEPT ![p] = v]
  /\ UNCHANGED evidence

Withdraw(p) == installed' = [installed EXCEPT ![p] = None] /\ UNCHANGED evidence

Forget(p, v) ==
  /\ installed[p] # v
  /\ evidence' = evidence \ {<<p, v>>}
  /\ UNCHANGED installed

Next == \E p \in Packages :
          \/ Withdraw(p)
          \/ \E v \in Versions : Record(p, v) \/ Install(p, v) \/ Forget(p, v)

Spec == Init /\ [][Next]_<<installed, evidence>>
=============================================================================
