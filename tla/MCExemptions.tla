----------------------------- MODULE MCExemptions -----------------------------
(***************************************************************************)
(* Instances of Exemptions for TLC: two resources of one account and type  *)
(* in different environments, and scopes of every rank that reach them.    *)
(* Ids and threads of one kind are interchangeable.                        *)
(***************************************************************************)
EXTENDS Exemptions, TLC

CONSTANTS x1, x2, a1, a2, c1, p1, p2

Scope(r, ty, e, a) == [resource_id |-> r, resource_type |-> ty, environment |-> e, account_id |-> a]

R1 == Scope("r1", "ec2", "prod", "111")
R2 == Scope("r2", "ec2", "dev", "111")
TwoResources == {R1, R2}

\* Of one resource, of its type in one environment, of the account; the last
\* combination is not supported.
ThreeRanks == {Scope("r1", None, None, None), Scope(None, "ec2", "prod", None),
               Scope(None, None, "prod", None)}
AllRanks == ThreeRanks \cup {Scope(None, "ec2", None, None), Scope(None, None, "prod", "111"),
                             Scope(None, None, None, "111")}

SomeExpiries == {None, 0, Bad}

\* Without dates that pass, for the larger run.
NoDate == {None, Bad}

\* One scope that is supported and one that is not.
OneRank == {Scope(None, "ec2", "prod", None), Scope(None, None, "prod", None)}
OneResource == {R1}

Symmetry == Permutations(Ids) \cup Permutations(Admins) \cup Permutations(Pages)
=============================================================================
