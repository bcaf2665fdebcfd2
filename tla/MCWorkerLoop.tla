---------------------------- MODULE MCWorkerLoop ----------------------------
(***************************************************************************)
(* Instances of WorkerLoop for TLC: what the messages of each run carry.   *)
(***************************************************************************)
EXTENDS WorkerLoop, TLC

CONSTANTS a1, m1, m2

\* A message for an action, which may be delivered twice, and a health check.
HealthBodies == m1 :> a1 @@ m2 :> "WORKER_HEALTH_CHECK"

\* One message for an action, and one that no worker understands.
PoisonBodies == m1 :> a1 @@ m2 :> "MALFORMED"

SingleBody == m1 :> a1

Symmetry == Permutations(Workers)
=============================================================================
