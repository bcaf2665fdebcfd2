-------------------------- MODULE MCProtectedTags --------------------------
(***************************************************************************)
(* Instances of ProtectedTags for TLC: what the app and others write.      *)
(***************************************************************************)
EXTENDS ProtectedTags, TLC

CONSTANTS k1, k2, v1, v2

\* Both keys at once, each alone, and a removal.
TwoKeys == {k1 :> v1 @@ k2 :> v1, k1 :> v2 @@ k2 :> Keep, k1 :> Keep @@ k2 :> v2,
            k1 :> None @@ k2 :> Keep}
=============================================================================
