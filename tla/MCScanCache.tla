---------------------------- MODULE MCScanCache ----------------------------
(***************************************************************************)
(* Instances of ScanCache for TLC: the region lists that are asked for.    *)
(***************************************************************************)
EXTENDS ScanCache

CONSTANTS r1, r2

TwoRegions == {<<r1, r2>>}
=============================================================================
