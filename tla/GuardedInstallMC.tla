--------------------------- MODULE GuardedInstallMC ---------------------------
(***************************************************************************)
(* Small instances of GuardedInstall for TLC.                              *)
(***************************************************************************)
EXTENDS GuardedInstall, TLC

\* Nothing tells one region from another but its role in a record.
RegionSymmetry == Permutations(Regions)
===============================================================================
