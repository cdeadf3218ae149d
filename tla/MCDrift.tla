-------------------------------- MODULE MCDrift --------------------------------
(* Instances of Drift for TLC: a name that two entries of the catalog have, *)
(* an MSI, whose files are inventoried, and one that is an archive or an    *)
(* MSI that chooses its own directory; and a name whose only entry may be   *)
(* an MSI, a font or a program, may leave the catalog, and is then taken    *)
(* for the first of the others.                                             *)
EXTENDS Drift, TLC

CONSTANTS tool, helper, tool1, tool2, helper1

MCName == (tool1 :> tool) @@ (tool2 :> tool) @@ (helper1 :> helper)
MCEngines ==
    (tool1 :> {"msi"}) @@ (tool2 :> {"archive", "msi"}) @@ (helper1 :> {"msi", "font", "exe"})
MCLookalikes == (tool :> {helper1}) @@ (helper :> {tool1})
================================================================================
