---------------------------- MODULE MCEspInstall ----------------------------
(* Two versions of Windows tell a stale backup from a current one; which   *)
(* is the newer one nothing in the scripts asks.                           *)
EXTENDS EspInstall, TLC

CONSTANTS v1, v2

MCVersions == {v1, v2}
AnyVersion == Permutations(MCVersions)
AnyHost == {"binds", "empty", "throws"}
AuthorsHost == {"binds"}
PowerShell == {"empty", "throws"}
=============================================================================
