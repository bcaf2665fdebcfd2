--------------------------- MODULE MCRemediation ---------------------------
(***************************************************************************)
(* Instances of Remediation for TLC.  Processes and fingerprints of one    *)
(* kind are interchangeable, and no property of these runs is a liveness   *)
(* property, so the symmetry is sound.                                     *)
(***************************************************************************)
EXTENDS Remediation, TLC

Symmetry == Permutations(Workers) \cup Permutations(Callers) \cup Permutations(Fingerprints)
=============================================================================
