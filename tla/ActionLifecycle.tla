-------------------------- MODULE ActionLifecycle --------------------------
(***************************************************************************)
(* What the governance table promises about one remediation action,        *)
(* whatever processes run the engine and however they fail: the Phase 2C   *)
(* state machine of an ACTION# item, its attempt budget, and whether the   *)
(* tags it asks for have reached AWS.  Remediation implements it.          *)
(***************************************************************************)
EXTENDS Naturals

CONSTANTS Actions, MaxAttempts

VARIABLES
    status,         \* of the ACTION# item, "ABSENT" before it is created
    attempt_count,  \* claims so far
    applied         \* AWS has applied the requested tags at least once

vars == <<status, attempt_count, applied>>

Init ==
    /\ status = [a \in Actions |-> "ABSENT"]
    /\ attempt_count = [a \in Actions |-> 0]
    /\ applied = [a \in Actions |-> FALSE]

\* An action is born pending, or finished when its resource is exempt.
Create(a) ==
    /\ status[a] = "ABSENT"
    /\ \E s \in {"PENDING", "SKIPPED_EXEMPT"} : status' = [status EXCEPT ![a] = s]
    /\ UNCHANGED <<attempt_count, applied>>

\* A claim spends one attempt; it may take over a claim that did not finish.
Claim(a) ==
    /\ status[a] \in {"PENDING", "IN_PROGRESS", "FAILED_RETRYABLE"}
    /\ attempt_count[a] < MaxAttempts
    /\ status' = [status EXCEPT ![a] = "IN_PROGRESS"]
    /\ attempt_count' = [attempt_count EXCEPT ![a] = @ + 1]
    /\ UNCHANGED applied

\* The tags reach AWS: after a claim, but also after the action has settled,
\* when a slow process lost its claim to another one.
Apply(a) ==
    /\ attempt_count[a] > 0
    /\ applied' = [applied EXCEPT ![a] = TRUE]
    /\ UNCHANGED <<status, attempt_count>>

\* A claimed action settles, as COMPLETED only if the tags are there.
Settle(a) ==
    /\ status[a] = "IN_PROGRESS"
    /\ \E s \in {"COMPLETED", "FAILED", "FAILED_RETRYABLE"} :
          /\ s = "COMPLETED" => applied[a]
          /\ status' = [status EXCEPT ![a] = s]
    /\ UNCHANGED <<attempt_count, applied>>

\* Only a spent budget turns a retryable failure into a permanent one.
GiveUp(a) ==
    /\ status[a] = "FAILED_RETRYABLE"
    /\ attempt_count[a] >= MaxAttempts
    /\ status' = [status EXCEPT ![a] = "FAILED"]
    /\ UNCHANGED <<attempt_count, applied>>

Next == \E a \in Actions : Create(a) \/ Claim(a) \/ Apply(a) \/ Settle(a) \/ GiveUp(a)

Spec == Init /\ [][Next]_vars
=============================================================================
