---------------------------- MODULE Remediation ----------------------------
(***************************************************************************)
(* The remediation engine (src/src/governance/remediation.py) over the     *)
(* ACTION# records of the governance table (src/src/governance/state.py).  *)
(*                                                                         *)
(* Two kinds of process run it: request threads of the web application     *)
(* call process_sync, worker processes call process_async.  Each step below *)
(* is one call that leaves the process (a DynamoDB request, the AWS tag     *)
(* mutation, an audit-log insert) with the local code up to the next one.   *)
(* Any process may die between two steps, and any call may fail, with or    *)
(* without having taken effect.                                            *)
(***************************************************************************)
EXTENDS Naturals

CONSTANTS
    Actions,            \* action ids; action_id = idempotency key (1:1)
    Fingerprints,       \* request fingerprints: hash of (arn, type, tags)
    Workers,            \* worker processes (process_async)
    Callers,            \* web request threads (process_sync)
    MaxAttempts,        \* MAX_REMEDIATION_ATTEMPTS
    MaxFaults,          \* bound: failed calls and crashes in one behaviour
    StallsOutlastLease  \* may a worker take longer than its 300 s lease?

ASSUME ConstantsAssumption ==
    /\ MaxAttempts \in Nat
    /\ MaxFaults \in Nat
    /\ StallsOutlastLease \in BOOLEAN
    /\ Workers \cap Callers = {}

None == "none"
ASSUME NoneAssumption == None \notin Actions /\ None \notin Fingerprints

VARIABLES
    status,               \* ACTION# items; "ABSENT" when there is no item
    attempt_count,
    lease_until,          \* "none" (no attribute), "live" or "expired"
    request_fingerprint,
    pc,                   \* where each process is
    ctx,                  \* its local variables
    calls,                \* history: AWS calls made per claim of an action
    tagged,               \* history: fingerprints whose tags AWS applied
    audit,                \* rows of the sqlite audit log, per action
    faults                \* failures so far (bounded by MaxFaults)

store == <<status, attempt_count, lease_until, request_fingerprint>>
vars == <<store, pc, ctx, calls, tagged, audit, faults>>

Procs == Workers \cup Callers
Terminal == {"COMPLETED", "FAILED", "SKIPPED_EXEMPT"}
Outcomes == {"COMPLETED", "FAILED", "FAILED_RETRYABLE"}
Statuses == {"ABSENT", "PENDING", "IN_PROGRESS", "SKIPPED_EXEMPT"} \cup Outcomes

Locations == {"idle", "create", "resolve", "auditSkip", "read", "claim",
              "afterClaim", "exhaust", "auditExhausted", "auditStart",
              "mutate", "update", "auditEnd", "ack", "keep"}

\* After the claim, before the update: the process believes it owns the action.
Executing == {"auditStart", "mutate", "update"}

\* The locals of a call that has just begun.
Context(a, fp, exempt) ==
    [action |-> a, fp |-> fp, exempt |-> exempt, exhausted |-> FALSE,
     outcome |-> None, attempt |-> 0]

NoCtx == Context(None, None, FALSE)

Init ==
    /\ status = [a \in Actions |-> "ABSENT"]
    /\ attempt_count = [a \in Actions |-> 0]
    /\ lease_until = [a \in Actions |-> "none"]
    /\ request_fingerprint = [a \in Actions |-> None]
    /\ pc = [p \in Procs |-> "idle"]
    /\ ctx = [p \in Procs |-> NoCtx]
    /\ calls = [a \in Actions |-> [n \in 1..MaxAttempts |-> 0]]
    /\ tagged = [a \in Actions |-> {}]
    /\ audit = [a \in Actions |-> {}]
    /\ faults = 0

-----------------------------------------------------------------------------
(***************************************************************************)
(* The state store.  Every write is one conditional DynamoDB request.      *)
(***************************************************************************)

\* create_remediation_action: attribute_not_exists(PK)
create_remediation_action(a, fp, exempt) ==
    /\ status[a] = "ABSENT"
    /\ status' = [status EXCEPT ![a] = IF exempt THEN "SKIPPED_EXEMPT" ELSE "PENDING"]
    /\ request_fingerprint' = [request_fingerprint EXCEPT ![a] = fp]
    /\ UNCHANGED <<attempt_count, lease_until>>

\* Mutant: the claim forgets the attempt limit.
ClaimConditionUnlimited(a, leased) ==
    \/ status[a] \in {"PENDING", "FAILED_RETRYABLE"}
    \/ leased /\ status[a] = "IN_PROGRESS" /\ lease_until[a] = "expired"

\* Mutant: the claim takes over running actions whatever their lease says.
ClaimConditionLeaseless(a, leased) ==
    /\ \/ status[a] \in {"PENDING", "FAILED_RETRYABLE"}
       \/ leased /\ status[a] = "IN_PROGRESS"
    /\ attempt_count[a] < MaxAttempts

\* The condition expression of claim_remediation_action; only a caller that
\* passes a worker_id may take over an IN_PROGRESS action, and only when the
\* item has a lease_until in the past (a comparison with a missing attribute
\* is false).
ClaimCondition(a, leased) ==
    /\ \/ status[a] \in {"PENDING", "FAILED_RETRYABLE"}
       \/ leased /\ status[a] = "IN_PROGRESS" /\ lease_until[a] = "expired"
    /\ attempt_count[a] < MaxAttempts

\* Mutant: taking over an abandoned claim spends no attempt.
claim_without_counting_takeovers(a, leased) ==
    /\ ClaimCondition(a, leased)
    /\ status' = [status EXCEPT ![a] = "IN_PROGRESS"]
    /\ attempt_count' =
          [attempt_count EXCEPT ![a] = IF status[a] = "IN_PROGRESS" THEN @ ELSE @ + 1]
    /\ lease_until' = [lease_until EXCEPT ![a] = IF leased THEN "live" ELSE @]
    /\ UNCHANGED request_fingerprint

\* claim_remediation_action: a claim without worker_id leaves lease_until as it is.
claim_remediation_action(a, leased) ==
    /\ ClaimCondition(a, leased)
    /\ status' = [status EXCEPT ![a] = "IN_PROGRESS"]
    /\ attempt_count' = [attempt_count EXCEPT ![a] = @ + 1]
    /\ lease_until' = [lease_until EXCEPT ![a] = IF leased THEN "live" ELSE @]
    /\ UNCHANGED request_fingerprint

\* Mutant: the update is not conditional.
update_unconditionally(a, new, expected) ==
    /\ expected \in Statuses
    /\ status' = [status EXCEPT ![a] = new]
    /\ UNCHANGED <<attempt_count, lease_until, request_fingerprint>>

\* update_remediation_action: conditional on the expected status and nothing
\* else; in particular not on worker_id.
update_remediation_action(a, new, expected) ==
    /\ status[a] = expected
    /\ status' = [status EXCEPT ![a] = new]
    /\ UNCHANGED <<attempt_count, lease_until, request_fingerprint>>

\* Mutant: the exhaustion test is off by one.
ExhaustedEarly(a) == status[a] = "FAILED_RETRYABLE" /\ attempt_count[a] + 1 >= MaxAttempts

\* The exhaustion test of process_sync and process_async on the item just read.
Exhausted(a) == status[a] = "FAILED_RETRYABLE" /\ attempt_count[a] >= MaxAttempts

-----------------------------------------------------------------------------
(***************************************************************************)
(* Helpers of the steps.                                                   *)
(***************************************************************************)

Goto(p, l) == pc' = [pc EXCEPT ![p] = l]

\* process_sync returned a response or raised; its locals are gone.
Respond(p) == /\ Goto(p, "idle")
              /\ ctx' = [ctx EXCEPT ![p] = NoCtx]

\* Mutant: process_async ends without a verdict.
ReturnNothing(p, verdict) == verdict \in Locations /\ Respond(p)

\* process_async returned TRUE ("ack") or FALSE ("keep"), or raised and
\* process_message turned that into FALSE; process_sync just ends.
Return(p, verdict) ==
    IF p \in Workers THEN Goto(p, verdict) /\ UNCHANGED ctx ELSE Respond(p)

Fault == faults < MaxFaults /\ faults' = faults + 1
NoFault == UNCHANGED faults

History == <<calls, tagged, audit>>

\* A row of the audit log: the event, and the claim (attempt) it belongs to.
Log(a, event, n) == audit' = [audit EXCEPT ![a] = @ \cup {<<event, n>>}]

-----------------------------------------------------------------------------
(***************************************************************************)
(* process_sync up to the claim.                                           *)
(***************************************************************************)

\* A request arrives; its exemption check has been answered.
StartSync(p, a, fp, exempt) ==
    /\ pc[p] = "idle"
    /\ Goto(p, "create")
    /\ ctx' = [ctx EXCEPT ![p] = Context(a, fp, exempt)]
    /\ UNCHANGED <<store, History, faults>>

Create(p) ==
    LET a == ctx[p].action IN
    /\ pc[p] = "create"
    /\ \/ /\ create_remediation_action(a, ctx[p].fp, ctx[p].exempt)
          /\ Goto(p, IF ctx[p].exempt THEN "auditSkip" ELSE "claim")
       \/ /\ status[a] # "ABSENT"
          /\ Goto(p, "resolve")
          /\ UNCHANGED store
    /\ NoFault
    /\ UNCHANGED <<ctx, History>>

\* The put fails: the error is raised, or, when the first try did take effect
\* and the SDK's retry meets its own item, the put reports "exists".
CreateFault(p) ==
    LET a == ctx[p].action IN
    /\ pc[p] = "create"
    /\ Fault
    /\ \/ UNCHANGED store /\ Respond(p)
       \/ /\ create_remediation_action(a, ctx[p].fp, ctx[p].exempt)
          /\ \/ Respond(p)
             \/ Goto(p, "resolve") /\ UNCHANGED ctx
    /\ UNCHANGED History

\* Mutant: an existing action is resumed whatever the request asks for.
ResolveAnyFingerprint(p) ==
    LET a == ctx[p].action IN
    /\ pc[p] = "resolve"
    /\ NoFault
    /\ IF status[a] \notin Terminal \cup {"IN_PROGRESS"}
         THEN /\ Goto(p, "claim")
              /\ ctx' = [ctx EXCEPT ![p].exhausted = Exhausted(a)]
         ELSE Respond(p)
    /\ UNCHANGED <<store, History>>

\* The action exists: another fingerprint is a 409, a claimed or finished
\* action is returned as it is, the rest is claimed again.
Resolve(p) ==
    LET a == ctx[p].action IN
    /\ pc[p] = "resolve"
    /\ NoFault
    /\ IF request_fingerprint[a] = ctx[p].fp /\ status[a] \notin Terminal \cup {"IN_PROGRESS"}
         THEN /\ Goto(p, "claim")
              /\ ctx' = [ctx EXCEPT ![p].exhausted = Exhausted(a)]
         ELSE Respond(p)
    /\ UNCHANGED <<store, History>>

\* get_remediation_action swallowed an error and returned None: a 500.
ResolveFault(p) ==
    /\ pc[p] = "resolve"
    /\ Fault
    /\ Respond(p)
    /\ UNCHANGED <<store, History>>

\* Either the row is written or the insert raises; the request ends.
AuditSkip(p) ==
    /\ pc[p] = "auditSkip"
    /\ Respond(p)
    /\ \/ NoFault /\ Log(ctx[p].action, "SKIPPED", 0)
       \/ Fault /\ UNCHANGED audit
    /\ UNCHANGED <<store, calls, tagged>>

-----------------------------------------------------------------------------
(***************************************************************************)
(* process_async up to the claim.                                          *)
(***************************************************************************)

StartAsync(w, a) ==
    /\ pc[w] = "idle"
    /\ Goto(w, "read")
    /\ ctx' = [ctx EXCEPT ![w] = Context(a, None, FALSE)]
    /\ UNCHANGED <<store, History, faults>>

\* The tags a worker applies come from the item it read here.
Read(w) ==
    LET a == ctx[w].action IN
    /\ pc[w] = "read"
    /\ NoFault
    /\ Goto(w, CASE status[a] = "ABSENT"   -> "keep"
                 [] status[a] \in Terminal -> "ack"
                 [] OTHER                  -> "claim")
    /\ ctx' = [ctx EXCEPT ![w].fp = request_fingerprint[a]]
    /\ UNCHANGED <<store, History>>

ReadFault(w) ==
    /\ pc[w] = "read"
    /\ Fault
    /\ Goto(w, "keep")
    /\ UNCHANGED <<store, ctx, History>>

-----------------------------------------------------------------------------
(***************************************************************************)
(* The claim and what follows a refused one: common to both entry points.  *)
(***************************************************************************)

Claim(p) ==
    LET a == ctx[p].action IN
    /\ pc[p] = "claim"
    /\ NoFault
    /\ \/ /\ claim_remediation_action(a, p \in Workers)
          /\ Goto(p, "auditStart")
          /\ ctx' = [ctx EXCEPT ![p].attempt = attempt_count[a] + 1]
       \/ /\ ~ClaimCondition(a, p \in Workers)
          /\ Goto(p, "afterClaim")
          /\ UNCHANGED <<store, ctx>>
    /\ UNCHANGED History

\* Any error of the claim reads as "not claimed", also when it took effect.
ClaimFault(p) ==
    /\ pc[p] = "claim"
    /\ Fault
    /\ \/ claim_remediation_action(ctx[p].action, p \in Workers)
       \/ UNCHANGED store
    /\ Goto(p, "afterClaim")
    /\ UNCHANGED <<ctx, History>>

\* Mutant: an exhausted action is left to its next delivery.
AfterClaimWithoutExhaustion(p) ==
    /\ pc[p] = "afterClaim"
    /\ NoFault
    /\ Return(p, IF status[ctx[p].action] \in Terminal THEN "ack" ELSE "keep")
    /\ UNCHANGED <<store, History>>

\* Not claimed: look again, finish an exhausted action, else give up.
AfterClaim(p) ==
    LET a == ctx[p].action IN
    /\ pc[p] = "afterClaim"
    /\ NoFault
    /\ IF Exhausted(a)
         THEN Goto(p, "exhaust") /\ UNCHANGED ctx
         ELSE Return(p, IF status[a] \in Terminal THEN "ack" ELSE "keep")
    /\ UNCHANGED <<store, History>>

\* The re-read fails: process_async gives up, process_sync falls back on the
\* item it read before the claim.
AfterClaimFault(p) ==
    /\ pc[p] = "afterClaim"
    /\ Fault
    /\ IF p \in Callers /\ ctx[p].exhausted
         THEN Goto(p, "exhaust") /\ UNCHANGED ctx
         ELSE Return(p, "keep")
    /\ UNCHANGED <<store, History>>

\* FAILED_RETRYABLE -> FAILED (MAX_RETRIES_EXHAUSTED); a refused update ends
\* the call too, with the verdict TRUE.
Exhaust(p) ==
    LET a == ctx[p].action IN
    /\ pc[p] = "exhaust"
    /\ NoFault
    /\ \/ /\ update_remediation_action(a, "FAILED", "FAILED_RETRYABLE")
          /\ Goto(p, "auditExhausted")
          /\ UNCHANGED ctx
       \/ /\ status[a] # "FAILED_RETRYABLE"
          /\ Return(p, "ack")
          /\ UNCHANGED store
    /\ UNCHANGED History

ExhaustFault(p) ==
    /\ pc[p] = "exhaust"
    /\ Fault
    /\ \/ update_remediation_action(ctx[p].action, "FAILED", "FAILED_RETRYABLE")
       \/ UNCHANGED store
    /\ Return(p, "ack")
    /\ UNCHANGED History

AuditExhausted(p) ==
    /\ pc[p] = "auditExhausted"
    /\ \/ NoFault /\ Log(ctx[p].action, "FAILED", 0) /\ Return(p, "ack")
       \/ Fault /\ UNCHANGED audit /\ Return(p, "keep")
    /\ UNCHANGED <<store, calls, tagged>>

-----------------------------------------------------------------------------
(***************************************************************************)
(* The claimed action is executed.                                         *)
(***************************************************************************)

\* Mutant: an insert that raises does not stop the execution.
AuditStartBestEffort(p) ==
    /\ pc[p] = "auditStart"
    /\ \/ NoFault /\ Log(ctx[p].action, "STARTED", ctx[p].attempt)
       \/ Fault /\ UNCHANGED audit
    /\ Goto(p, "mutate")
    /\ UNCHANGED <<store, ctx, calls, tagged>>

\* REMEDIATE_STARTED; when the insert raises, the claim is simply abandoned.
AuditStart(p) ==
    /\ pc[p] = "auditStart"
    /\ \/ /\ NoFault
          /\ Log(ctx[p].action, "STARTED", ctx[p].attempt)
          /\ Goto(p, "mutate")
          /\ UNCHANGED ctx
       \/ Fault /\ UNCHANGED audit /\ Return(p, "keep")
    /\ UNCHANGED <<store, calls, tagged>>

\* Mutant: failed_resources is not looked at.
ResultsIgnoringFailures ==
    { [new |-> "FAILED",    called |-> 0, hit |-> FALSE],
      [new |-> "COMPLETED", called |-> 1, hit |-> TRUE],
      [new |-> "COMPLETED", called |-> 1, hit |-> FALSE] }

\* What _execute_tag_mutation can come to: strict-mode validation rejects the
\* tags and AWS is not called; AWS applies them; AWS reports the resource as
\* throttled, or as failed for another reason; or the call raises, before or
\* after AWS applied the tags, which tag_resources reports as "ClientError".
MutationResults ==
    { [new |-> "FAILED",           called |-> 0, hit |-> FALSE],
      [new |-> "COMPLETED",        called |-> 1, hit |-> TRUE],
      [new |-> "FAILED_RETRYABLE", called |-> 1, hit |-> FALSE],
      [new |-> "FAILED",           called |-> 1, hit |-> FALSE],
      [new |-> "FAILED",           called |-> 1, hit |-> TRUE] }

Mutate(p) ==
    LET a == ctx[p].action
        n == ctx[p].attempt IN
    /\ pc[p] = "mutate"
    /\ \E r \in MutationResults :
          /\ calls' = [calls EXCEPT ![a][n] = @ + r.called]
          /\ tagged' = [tagged EXCEPT ![a] = IF r.hit THEN @ \cup {ctx[p].fp} ELSE @]
          /\ ctx' = [ctx EXCEPT ![p].outcome = r.new]
    /\ Goto(p, "update")
    /\ UNCHANGED <<store, audit, faults>>

\* The result of the update is ignored: refused or failed, the code goes on.
Update(p) ==
    /\ pc[p] = "update"
    /\ \/ /\ NoFault
          /\ \/ update_remediation_action(ctx[p].action, ctx[p].outcome, "IN_PROGRESS")
             \/ status[ctx[p].action] # "IN_PROGRESS" /\ UNCHANGED store
       \/ Fault /\ UNCHANGED store
    /\ Goto(p, "auditEnd")
    /\ UNCHANGED <<ctx, History>>

\* REMEDIATE_FINISHED with this process's own outcome, then the verdict.
AuditEnd(p) ==
    /\ pc[p] = "auditEnd"
    /\ \/ /\ NoFault
          /\ Log(ctx[p].action, ctx[p].outcome, ctx[p].attempt)
          /\ Return(p, IF ctx[p].outcome = "FAILED_RETRYABLE" THEN "keep" ELSE "ack")
       \/ Fault /\ UNCHANGED audit /\ Return(p, "keep")
    /\ UNCHANGED <<store, calls, tagged>>

\* The worker loop has taken the verdict.
Finish(w) ==
    /\ pc[w] \in {"ack", "keep"}
    /\ Respond(w)
    /\ UNCHANGED <<store, History, faults>>

-----------------------------------------------------------------------------
(***************************************************************************)
(* The environment.                                                        *)
(***************************************************************************)

\* A deferred request: the producer of asynchronous work is not part of this
\* repository; it creates the item with create_remediation_action and leaves
\* its execution to the workers.
CreateDeferred(a, fp, exempt) ==
    /\ create_remediation_action(a, fp, exempt)
    /\ UNCHANGED <<pc, ctx, History, faults>>

\* The process dies (or its container is replaced) with its locals, and is
\* started again.
Crash(p) ==
    /\ Fault
    /\ Respond(p)
    /\ UNCHANGED <<store, History>>

\* now() passes lease_until.  Unless stalls may outlast the lease, a worker
\* that claimed the action is done with it by then.
LeaseExpires(a) ==
    /\ lease_until[a] = "live"
    /\ StallsOutlastLease \/ \A w \in Workers : ~(pc[w] \in Executing /\ ctx[w].action = a)
    /\ lease_until' = [lease_until EXCEPT ![a] = "expired"]
    /\ UNCHANGED <<status, attempt_count, request_fingerprint, pc, ctx, History, faults>>

-----------------------------------------------------------------------------

SyncStep(p) == \/ Create(p) \/ CreateFault(p) \/ Resolve(p) \/ ResolveFault(p) \/ AuditSkip(p)

AsyncStep(w) == Read(w) \/ ReadFault(w)

CommonStep(p) ==
    \/ Claim(p) \/ ClaimFault(p) \/ AfterClaim(p) \/ AfterClaimFault(p)
    \/ Exhaust(p) \/ ExhaustFault(p) \/ AuditExhausted(p)
    \/ AuditStart(p) \/ Mutate(p) \/ Update(p) \/ AuditEnd(p)

Next ==
    \/ \E p \in Callers, a \in Actions, fp \in Fingerprints, exempt \in BOOLEAN :
          StartSync(p, a, fp, exempt)
    \/ \E p \in Callers : SyncStep(p)
    \/ \E a \in Actions, fp \in Fingerprints, exempt \in BOOLEAN : CreateDeferred(a, fp, exempt)
    \/ \E w \in Workers, a \in Actions : StartAsync(w, a)
    \/ \E w \in Workers : AsyncStep(w) \/ Finish(w)
    \/ \E p \in Procs : CommonStep(p) \/ Crash(p)
    \/ \E a \in Actions : LeaseExpires(a)

Spec == Init /\ [][Next]_vars

-----------------------------------------------------------------------------
(***************************************************************************)
(* Properties.                                                             *)
(***************************************************************************)

StoreTypeOK ==
    /\ status \in [Actions -> Statuses]
    /\ attempt_count \in [Actions -> 0..MaxAttempts]
    /\ lease_until \in [Actions -> {"none", "live", "expired"}]
    /\ request_fingerprint \in [Actions -> Fingerprints \cup {None}]

Contexts == [action : Actions \cup {None}, fp : Fingerprints \cup {None},
             exempt : BOOLEAN, exhausted : BOOLEAN,
             outcome : Outcomes \cup {None}, attempt : 0..MaxAttempts]

ProcessTypeOK ==
    /\ pc \in [Procs -> Locations]
    /\ ctx \in [Procs -> Contexts]

Rows == ({"SKIPPED", "STARTED"} \cup Outcomes) \X (0..MaxAttempts)

HistoryTypeOK ==
    /\ calls \in [Actions -> [1..MaxAttempts -> Nat]]
    /\ tagged \in [Actions -> SUBSET Fingerprints]
    /\ audit \in [Actions -> SUBSET Rows]
    /\ faults \in 0..MaxFaults

\* Every variable keeps its shape: statuses, leases and program locations are
\* the ones the code writes, and an action is never claimed more than
\* MAX_REMEDIATION_ATTEMPTS times.
TypeOK == StoreTypeOK /\ ProcessTypeOK /\ HistoryTypeOK

\* Each claim pays for at most one AWS call, and no call is made for a claim
\* that was never recorded: duplicates, takeovers, lost replies and crashes
\* never make the engine call AWS more than MAX_REMEDIATION_ATTEMPTS times
\* for one action (claim_remediation_action is the only gate).
OneCallPerAttempt ==
    \A a \in Actions, n \in 1..MaxAttempts :
        /\ calls[a][n] <= 1
        /\ n > attempt_count[a] => calls[a][n] = 0

\* An item says COMPLETED only if AWS did apply the tags of that item,
\* although update_remediation_action does not check who is writing.
CompletedMeansTagged ==
    \A a \in Actions : status[a] = "COMPLETED" => request_fingerprint[a] \in tagged[a]

\* Under one idempotency key only the tags of the request that created the
\* item are ever applied: the 409 of process_sync closes the other way in.
OnlyRequestedTags ==
    \A a \in Actions : tagged[a] \subseteq {request_fingerprint[a]}

\* An action that is exempt, or that nobody claimed yet, has not touched AWS.
UnclaimedIsUntouched ==
    \A a \in Actions :
        status[a] \in {"ABSENT", "PENDING", "SKIPPED_EXEMPT"} =>
            tagged[a] = {} /\ \A n \in 1..MaxAttempts : calls[a][n] = 0

\* The audit log accounts for AWS: every call was announced by a
\* REMEDIATE_STARTED row of its claim, and a REMEDIATE_FINISHED / COMPLETED
\* row is written only for tags that were applied.
AuditTrail ==
    \A a \in Actions, n \in 1..MaxAttempts :
        /\ calls[a][n] > 0 => <<"STARTED", n>> \in audit[a]
        /\ <<"COMPLETED", n>> \in audit[a] => request_fingerprint[a] \in tagged[a]

\* No step of any process ever changes the status of a finished action.
TerminalIsFinal ==
    [][\A a \in Actions : status[a] \in Terminal => status'[a] = status[a]]_vars

\* The engine implements the life cycle of an action.
Lifecycle ==
    INSTANCE ActionLifecycle
    WITH applied <- [a \in Actions |-> request_fingerprint[a] \in tagged[a]]
LifecycleSpec == Lifecycle!Spec

\* At most one process is between its claim and its update for an action.
OneExecutor ==
    \A p, q \in Procs :
        (pc[p] \in Executing /\ pc[q] \in Executing /\ ctx[p].action = ctx[q].action) => p = q
=============================================================================
