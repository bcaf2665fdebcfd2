---------------------------- MODULE MCChangeSets ----------------------------
(***************************************************************************)
(* Instances of ChangeSets for TLC: the requests that the users send.      *)
(***************************************************************************)
EXTENDS ChangeSets, TLC

CONSTANTS r1, r2, k1, v1, v2, o1

Ask(values, overwrite, previewed, ops) ==
    [want |-> [r \in Resources |-> [k \in Keys |-> IF r \in DOMAIN values THEN values[r] ELSE None]],
     overwrite |-> overwrite, previewed |-> previewed, ops |-> ops]

\* Two resources at once as previewed, one of which may hold the value already;
\* and a propagation fix of one of them together with a setting, where the
\* other resource would get a value that the policy rejects.
FixAndPropagate ==
    { Ask(r1 :> v1 @@ r2 :> v1, TRUE, TRUE, {}),
      Ask(r1 :> v1 @@ r2 :> v2, FALSE, FALSE, {o1}) }

Symmetry == Permutations(Users)
=============================================================================
