------------------------------- MODULE MCCli -------------------------------
(* Instances of Cli for TLC: what the packages expose and contain.         *)
EXTENDS Cli, TLC

CONSTANTS
  Native,     \* the packages that are native installers, by the catalog
  TwoFaced,   \* the packages whose payload may not be what the catalog says
  Later,      \* the versions that expose more commands than the others do
  Added       \* the commands that only these versions expose

(* Packages always compete for the commands that every version exposes.    *)
MCExposes == [k \in Keys |-> IF k[2] \in Later THEN Commands ELSE Commands \ Added]

(* A two-faced package may turn out to be of the kind the catalog does not *)
(* call it.                                                                *)
MCManifest == [p \in Packages |-> IF p \in Native THEN "native" ELSE "staged"]

MCProbe == [p \in Packages |-> IF p \in TwoFaced THEN EngineKinds ELSE {MCManifest[p]}]

(* Where packages differ in name only, and for safety only: processes and  *)
(* packages are interchangeable.                                           *)
Symmetry == Permutations(Procs) \cup Permutations(Packages)
=============================================================================
