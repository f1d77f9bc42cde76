-------------------------- MODULE MCUpgradeAlerts ---------------------------
(***************************************************************************)
(* Instances of UpgradeAlerts for TLC.                                     *)
(***************************************************************************)
EXTENDS UpgradeAlerts

CONSTANTS a, b, i1, i2

TwoNames == {a, b}
TwoInfos == {i1, i2}

\* The binary before the upgrade and the one it is for.
OldAndNew == {{}, {a}}
=============================================================================
