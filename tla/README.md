# Verification of aws-tagging-utils

TLA+ models of the parts of the repository that decide, write and remember tags,
TLC runs that check them on small instances, and proofs that hold for every
instance. File names below are relative to the repository
(`src/governance/state.py`, `web/app.py`, `docs/...`).

    tlasany Remediation.tla                                      # parse
    tlc -workers 2 -config Remediation_mixed.cfg MCRemediation   # model-check
    tlapm RemediationProofs.tla                                  # check the proofs

`PROJECT.json` maps every definition to the lines it models and lists the runs,
the mutants (one plausible bug for each checked property, which TLC must find),
the hazards and the theorems. A definition introduced by `\* Mutant:` is such a
bug and is not part of the model.

## 1. The system

A Flask application (one gunicorn process with many threads, `Dockerfile`), an
SQS worker and EventBridge Lambdas work on AWS tags. They share a DynamoDB
table, an SQLite file, and AWS itself, where other people edit tags too.

| Component | State | Operations | Interacts with |
|---|---|---|---|
| Remediation engine (`governance/remediation.py`) | none of its own | `process_sync`, `process_async` | state store, audit log, tag writer; called by request threads, the Lambda, the worker |
| Action state store (`governance/state.py`) | `ACTION#`, `RES#`, `EXEMPTION#` items | conditional create, claim, update; get; put | engine, protected tags, exemptions |
| SQS worker (`worker.py`) | current batch, shutdown flag | `run_worker`, `process_message`, signal handler | queue, engine |
| Change sets (`changesets.py`) | `change_sets` rows | `preview`, `apply`, `undo` | tag writer, propagation operations |
| Tag propagation (`propagation.py`, `tag_sync.py`) | stored runs, running flag, last error | check, fix plan, Auto Scaling and ECS operations, one-parent synchronization | change sets |
| Protected tags (`protected_tags.py`) | baselines in `RES#` items | record, seed, drift handling | tag writer, scans, enforcement Lambda |
| Compliance cache (`cache_manager.py`, `db.py`) | scans and resource rows, refresh lock and flag, error | refresh, save, prune, read | report tool, scheduler, endpoints |
| FinOps cache (`finops/cache_manager.py`) | snapshots, lock and flag | refresh, read | Cost Explorer, endpoints |
| Exemptions (`governance/exemptions.py`, `_TTLCache` of `web/app.py`) | `EXEMPTION#` items; the cached list | create, revoke, `is_exempt`, load, invalidate | engine, protected tags, compliance page |
| Governance rules (`governance/engine.py`, `validators.py`, `normalizer.py`, `policy.py`, `schema_provider.py`) | none | normalize, evaluate | everything that judges tags |
| Authorization (`authorization/`, `insights.py`) | none | role policy, owner rule, protected keys | tag writes, remediation |
| Tag writer (`tag_writer.py`, `/api/write`) | audit rows | authorize, validate, write by region and batch | AWS, audit log |
| Plain tag write (`tag_write.py`) | none | write by region and batch, without rules | AWS |
| Tag on create (`tag_on_create.py`) | none | extract ARNs, look up, tag owners; discovery scan | Lambda, CloudTrail, AWS |
| Enforcement Lambda (`enforcement.py`) | none | evaluate new resources, start remediation, drift | extractors, rules, engine, protected tags |
| Audit log (`db.py`, `governance/audit.py`) | `audit_log` rows | insert | engine, tag writer, change sets |
| Sessions, reports, front ends, metrics, settings | credential caches, counters | read-mostly | web application |

**What is hard here.** No component holds a lock across an AWS call. Remediation
relies on conditional writes and a lease that is never renewed; messages come at
least once; each process may die between any two calls; the outcome of an AWS
call may be lost. Change sets and propagation fixes plan from tags read earlier
than they are written, and propagation compares parents and children that were
read at different times. Baselines are read and put as whole items by three kinds
of process, and the events that are judged against them arrive late and
unordered. Exemptions are listed, then put, without condition, and every read of
the governance table may return an old version of an item. The owner of a new
resource is looked up with pauses before it is written, by Lambdas that may see
an event twice. The cache is read in two statements while saves and pruning go
on. What each component must guarantee is stated next to its module below; the
full list of hazards, with lines and with those no property covers, is in
`PROJECT.json`.

## 2. Modules

```
ActionLifecycle <-- implemented by -- Remediation <-- extended by -- WorkerLoop
                                       |                               |
                                                          RemediationProofs

GovernanceRules <-- Authorization <-- TagOnCreate --> CreateEvents
      |    ^                               |
      |    +-- PropagationRules      TagOnCreateProofs
      |                ^
GovernanceRulesProofs  Propagation <-- PropagationProofs

ChangeSets <-- ChangeSetsProofs          ProtectedTags <-- ProtectedTagsProofs
ScanCache  <-- ScanCacheProofs           Exemptions    <-- ExemptionsProofs

MCxxx         instances for TLC: bodies, requests, payloads, stories, symmetry
```

An arrow points to the module that is extended (or instantiated: `CreateEvents`,
and `ActionLifecycle` with a refinement mapping).

### ActionLifecycle and Remediation

`ActionLifecycle` is the contract of one `ACTION#` item: the states of the
Phase 2C machine, the attempt budget, and `applied`, that the requested tags
have reached AWS. `Remediation` is the code. One `pc`/`ctx` pair per process
holds the locals of `process_sync` (request threads, `Callers`) or
`process_async` (`Workers`); one action is one call or statement that another
process can interleave with.

| Code | Actions |
|---|---|
| `process_sync` up to the claim (32-115) | `StartSync`, `Create`, `Resolve` (existing item, fingerprint comparison, terminal return, the exhausted branch), `AuditSkip` |
| `process_async` up to the claim (202-221) | `StartAsync`, `Read` |
| `claim_remediation_action` and what follows a refusal | `Claim`, `AfterClaim`, `Exhaust`, `AuditExhausted` |
| `REMEDIATE_STARTED`, AWS, update, `REMEDIATE_FINISHED` | `AuditStart`, `Mutate`, `Update`, `AuditEnd` |
| `process_message` taking the verdict | `Finish` |
| a store call that fails, before or after it took effect | `CreateFault`, `ResolveFault`, `ReadFault`, `ClaimFault`, `AfterClaimFault`, `ExhaustFault`, the second disjunct of `Update` |
| process death, time, the producer of deferred actions | `Crash`, `LeaseExpires`, `CreateDeferred` |

The store variables carry the names of the item attributes. `lease_until` is
abstracted to none, live or expired. Only what `claim_remediation_action` looks
at is kept; timestamps and error texts are not. `MutationResults` lists what
`_execute_tag_mutation` can come to, including a call that raises after AWS
applied the tags. `calls`, `tagged` and `audit` are history: they record what
AWS and the audit log saw.

The reads (`state.py:172`) are modelled as current, though DynamoDB promises that
only with `ConsistentRead`. Every decision that writes is left to a conditional
write, which DynamoDB evaluates on the current item. An old version can therefore
only delay: the fingerprint never changes after the create, a terminal or an
exhausted status that was once read is never claimed again, an old PENDING leads
to a claim that is refused, and an item not yet seen is treated as a failed read
(`ResolveFault`, `ReadFault`). `WorkerLoop_liveness` has no such reads, as it has no
faults: a message that meets too many of them goes to the dead letter queue.

`StallsOutlastLease` says whether a lease may run out while its worker is still
between claim and update. `docs/phase-2d-architecture.md:73` asks long-running
jobs to renew their lease, the code never does, so both values are real: with
`TRUE`, every safety property but the exclusion of workers must still hold.

### WorkerLoop

`run_worker` around the engine: `Receive` (up to MaxBatch messages), one
message at a time (`HandleRemediation`, `HandleHealthCheck`, `LeaveToDLQ`),
`Settle` (delete on true, keep on false), `handle_shutdown_signal`, `Exit`,
`WorkerCrash`. The queue is external: a visibility timeout that ends only when
the worker is done with the message, or at any time if `EarlyRedelivery`; and
the redrive policy `MaxReceives`. The JSON and field checks of
`validate_message` become the three kinds of body: an action, a health check, a
malformed or unsupported message.

### ChangeSets

Requests are `apply` (with or without a preview token, with or without
overwrite) and `undo`. A request reads each resource (`Fetch`), builds its plan,
writes batches of set and remove calls (`TagCall`) and configuration operations
(`OpCall`), and records the result (`_record`). Between any two of these other
requests run, and other tools edit tags and settings (`Edit`, `EditSetting`).
`hit` in an item is the truth about AWS, `result` what the code concluded.
`touched` is history: what changed under a request since it read.
`_tag_batches` groups resources by payload; `Payload` keeps the grouping because
a failing call takes its whole group with it.

### ProtectedTags

The tags of one resource (resources share no state), its baseline, and tag
change events on their way. Writers tag and then record the baseline, a scan
seeds missing baselines, Lambda invocations handle events; each of them reads
the whole item and puts it back later. A failing read is "no baseline"
(`state.py:76`), a failing put is only logged. `wasLive` and `calm` are history. `Got` takes the
`get_item` (`state.py:73`) to return what was put last, which DynamoDB promises
only with `ConsistentRead`. A read that returns an earlier baseline is to be
counted as one that overlapped the put it missed, so not as calm:
`CalmMeansProtected` holds of histories in which no such read occurs, and of no
others.

### ScanCache

Scans of accounts and regions. `Spawn` .. `Release` is `background_refresh`, from
the endpoint or the scheduler; `StartReport`, `Report`, `Ensure` is `/api/report`,
which stores its result without the lock; `Insert` and `prune_scans` are the two
transactions of `insert_scan`; `ReadHead` and `ReadRows` are the two statements
of `get_latest_scan_report`. `EnsureDb` includes the JSON migration. What an
account has in a region is one row; the counts and stats derived from rows are
left out.

### Exemptions

`Scopes` are combinations of the four scope fields; `is_valid_scope`, `_matches`
and `_get_scope_rank` are the rules that `is_exempt` goes by, with the
fail-closed answer when several exemptions of the best rank apply. A creation is
`StartCreate`, the scan, `ListForCreate` (the conflict test), `PutNew`,
`AnswerCreate` (which drops the cached list); a revocation is `StartRevoke`,
`GetForRevoke`, `PutRevoked`, `AnswerRevoke`. A put may fail after it took effect,
and the SDK may send it again (`PutRepeated`). Those who ask are remediation
requests (`StartAsk`, the scan, `AskForRemediation`), drift invocations
(`AskForDrift`, which pass the environment, as remediation does not) and pages
that read through `_TTLCache`: `StartPage`, `Hit`, or `Load`, the scan,
`LoaderReturns` and `Loaded`, all under the lock. `Tick` lets the cache grow old
and exemptions expire.

No read of the code asks for consistency (`state.py:98`, `117`), so the table has
replicas. `replicas[i]` is the set of versions of item i that some replica still
holds: a put adds one, and `Settle` leaves only the latest. `get_item` and the scan
may return any of them. The scan is paginated, so it is many steps (`ScanItem`, one
for each item, in any order), between which anything may happen. Puts are not
affected: the latest put is what the replicas end with.

Two things follow for what the code can promise, and the properties say just
that. Two creations of one scope may both stay active if the later one begins
before the put of the earlier one is on every replica, although the earlier one was
answered (`OverlapOnly`, with `OnAllReplicas` in `before`). And a page that is asked
for after a revocation was answered may still show the exemption, if the load of
its list met a lagging replica, and then for the lifetime of the list
(`RevokeIsSeen`, with `Excused`: until the last replica has known for `TTL` and the
time of the load). `before`, `answered`, `gone`, `began`, `missed` and `settled` are
history.

### GovernanceRules and Authorization

Pure operators over tag sets, which are functions from keys to values:
`Canonical` and `normalize` (own key, case, aliases, with the later rule's alias
winning), `Conflicts`, the validators, and `Violations` with the options
`partial`, `extra` and `warn`. When several keys of a tag set have one canonical
key the code keeps the first in dictionary order; AWS and callers choose that
order, so `normalize` gives the set of possible results and every use picks one.
A schema that does not load counts as an empty one, as in the code.

`Authorization` has the role policy, the owner rule (owner tags, in any case,
whole or after a slash) and the check of protected keys, which looks at keys as
they were sent, so before normalization. An identity is a set of names and of
roles.

### CreateEvents and TagOnCreate

`CreateEvents` is `EVENT_EXTRACTORS`: what each of the create calls of the table
gives as ARNs, with every alternative of every extractor, and the caller of an
event (`owner_from_user_identity`). An ARN is a record of its fields.

`TagOnCreate` puts those together who write tags by rule or by request, around
resources that users create and edit.

| Code | Actions |
|---|---|
| `lambda_handler` of `tag_on_create.py` for an event | `StartAuto`, `FetchRegion`, `FetchBatch`, `NextAttempt` (the retries), `DecideTag`, `TagBatch`, `EndAuto` |
| its discovery scan | `StartScan`, `get_all_regions`, `ScanRegion`, `Lookup` (CloudTrail), `EndRegion`, `EndScan` |
| `enforcement.py` for a creation event | `StartEnforcer`, `StartEvaluation`, `Evaluate`, `Mutate`, `Mutated`, `EndEnforcer` |
| `/api/write` and `tag_writer.py` | `StartWrite`, `Authorize`, `WriteRegion`, `WriteBatch`, `WriteRaises`, `AuditWrite`, `EndWrite` |
| `tag_write.py` | `StartPlainWrite`, the same region and batch steps, `EndPlainWrite` |
| users, EventBridge | `MakeCall`, `Edit`; events are delivered at least once, in any order |

The tagging API knows a resource only from its first tag on (`listed`), which is
why tags are looked up several times and why an untagged resource is invisible
to the scan. `process_sync` is one step here; its protocol is in `Remediation`.
The engine's exemptions and the baselines that writes record are in their own
modules. The enforcement Lambda asks one region, that of the event, for the tags
of all ARNs (`enforcement.py:77`); the others group ARNs by region (`InReach`).
`Observe` maintains the history `seen`.

### PropagationRules and Propagation

`PropagationRules` has the ten rules of `RULES`. Each is given two views of the
tags, because each describes parents and children in calls apart: what a rule
reads in its first call and what it reads later. `findings_for`, `fix_plan` and
`build_plan` are what follows from the result. `IsChild` says, apart from the
rules, which children AWS knows of which parent. `Propagation` runs the rules:
`run_in_background`, `ReadFirst` and `ReadSecond` for each account, region and
rule, `RuleFails`, `save_run`, `CheckRaises`, `EndCheck`; preview and apply of the
latest run (`api_propagation_preview`, `StartApply`, `TagChild`, `DoOp`,
`EndApply`; `StartApply` may be refused, because the user may not write to the
targets or because there are too many); and `tag_sync` for one parent (`propagate`, `SyncApply`,
`SyncRaises`), while others edit. What is undone, and how a change set is
recorded, is in `ChangeSets`. `stayed`, `rounds` and `calm` are history.

A *round* is a check and then an apply of all that it found, without overwriting.
Whatever else writes tags disturbs it (an edit, a fix of selected findings, one of
an older run or one that overwrites, a synchronization, an operation that changes
a tag), and so does a call that fails, unless it is one for what is no resource:
those fail every time. `rounds` counts rounds and disturbances, and `calm` is its
value after the last disturbance, so `rounds - calm` is the number of rounds
without any. Several applies of a round may run at once.

## 3. Runs

Passing runs:

| Run | Instance | Shows |
|---|---|---|
| `Remediation_mixed` | 1 action, 2 workers, 1 request thread, 2 fingerprints, 2 attempts, 2 faults, stalls outlast leases | type invariant; one AWS call per claim; COMPLETED means tagged; only the first request's tags are applied; the audit log announces each call; terminal statuses are final; `ActionLifecycle` is implemented |
| `WorkerLoop_safety` | 2 workers, 2 messages (an action, a health check), early redelivery, 1 fault | no message is deleted unhandled; without stalls two workers never execute one action |
| `WorkerLoop_liveness` | 2 workers, a message for an action and a malformed one, 4 receives, one worker may be stopped | the action finishes, the malformed message reaches the DLQ, shutdown completes |
| `ChangeSets_apply_undo` | 2 users, 2 resources, 1 key, 2 values, 1 setting, 3 rows, 1 edit, 1 fault | no blind write; SUCCESS is real; a preview binds; UNDONE means restored |
| `ProtectedTags_drift` | 2 keys, 2 values, 1 writer, 1 scan, 2 invocations, 1 write, 1 edit, 1 fault, three modes | baselines are never made up; calm histories end protected; reverts die out |
| `ScanCache_refresh` | 2 refresh threads, 1 report thread, 1 reader, 2 regions, retention 1, a legacy file, 2 scans, 1 fault | one refresh at a time; the latest scan is whole and never lost; a torn read needs retention to overtake the reader; the lock comes free |
| `Exemptions_requests` | 2 ids, 2 scopes (one of them unsupported), 2 expiries (none, one that does not parse), lagging replicas, 2 administrators, 1 caller, 2 pages, cache lifetime 1, 1 tick, 4 requests, 1 fault | two active exemptions of one scope come only from requests that overlapped or outran the replicas; what a page shows after a revocation was answered comes from a list read on a lagging replica, and not for long; a revocation is final but for a repeated put |
| `TagOnCreate_events` | 1 invocation of each kind, 1 request thread, batches of 1, 2 lookup attempts, pages of 1, strict mode; a story for each create call, alternative and kind of caller, and five in which calls or Lambdas meet | an owner is not replaced; SUCCESS rows are real; writes keep compliance; owners write only their own; new resources get an owner |
| `Propagation_checks` | 2 check threads, 1 user, 2 runs kept, 2 tasks looked at; a story for each rule, and four in which rules, parents and accounts meet | a gap that stays is found or its rule reported as failed; rounds of checks and fixes end with no fixable gap |

Runs that TLC refutes, each a disagreement between the code and a text of the
repository:

| Run | Claim | What happens |
|---|---|---|
| `WorkerLoop_recovery` | `docs/phase-2d-architecture.md:77`: after a lost state update the lease expires and the recovering worker retries | `process_async` ignores the failed update and returns true; the message is deleted, the action stays IN_PROGRESS |
| `Exemptions_environment` | `RUN_AND_TEST_GUIDE.md:486`: a request for a resource with an active exemption returns SKIPPED_EXEMPT | `process_sync` asks without the environment, so exemptions with an environment, which the page shows, never skip a remediation |
| `TagOnCreate_enforcement` | `docs/ARCHITECTURE.md:5`: non-compliant resources are detected and remediated | in strict mode the engine validates the set that was just found to be invalid, and the remediation ends FAILED |

**Bounds and why they are enough.** Two attempts are the smallest budget with
both a retry and an exhausted state. Two faults allow a crash followed by a lost
reply, or a lost update followed by a takeover. One action is enough because no
operation reads two `ACTION#` items; one resource in `ProtectedTags` for the same
reason. Two fingerprints are the smallest conflict. Three workers add nothing a
claim by a second one does not: a claim excludes on status, count and lease only
(and the proofs cover any number). Three `rows` in `ChangeSets` are an apply, its
undo and a competing undo. In `ScanCache` two started scans and the legacy scan
let retention (1) overtake a reader and expiry reach all but the newest. MaxEdits
and MaxWrites of 1 still give, with several processes, every order of write,
edit, read and event. In `Exemptions` two administrators can overlap in every
order, one can revoke what the other creates or repeats, and a page can load
before and be asked after; two ids are the smallest scan with an item read before
and one after a put. One tick passes the lifetime of the list and the limit in
`Excused`: a page that hits the list longer than that is refuted by TLC. Dates
that pass would triple the states of `Exemptions_requests`; an exemption that
expires only leaves the sets the two invariants speak of, `Exemptions_environment`
has such dates, and the theorems are for all of them.

`TagOnCreate` and `Propagation` choose a *story* first: the create calls or the
inventory, who reacts, and how much else may happen (`room`: edits, scans and
faults together). All create calls at once would multiply states without adding
an interleaving, since one invocation looks at one event; what matters is that
every extractor runs, and that events of two calls for one resource meet (the
stories Race and TaggedRace: a bucket, and a failed call of another user for the
same name), that one call makes two resources (Run), that ARNs lie in two
regions (OfBob), and that delivery is repeated. In `Propagation` each rule has a
parent, a child and something that it must leave out; Chain needs two rules in a
row, Conflict has two parents that disagree, Refused a value that the schema does
not allow, Two a second account. `levels` is how deep parents and children are
nested in the story; `IsStory` asks that they are (a child has a higher level than
any resource that may hand tags on to it, `HandsOn`), and TLC evaluates it. Three or four requests are a check, a fix and a
check again.

Apart from `story` and `room` the bounds are guards on what the environment
begins; no bound stops a process in the middle of its work. The sets of inputs
(`Requests`, `Payloads`, `Body`, `Stories`) are in the MC modules.

**Symmetry** is declared on processes, identifiers and fingerprints in runs
without liveness properties only. `CHECK_DEADLOCK FALSE` appears where the
environment's bounds let the system come to rest: a worker with an empty queue,
users without requests left, events all delivered.

**Fairness.** `WorkerLoop`: a running worker keeps running and time passes
(leases and visibility timeouts end), as `run_worker` never blocks except in a
bounded long poll; producers, signals, failures and crashes are not fair.
`ProtectedTags`: a thread that has begun goes on, and an event raised is delivered
in the end (EventBridge retries). `ScanCache`: refresh threads that have begun go
on. `TagOnCreate`: EventBridge delivers each event and Lambda runs an invocation
to its end, a scan that has begun included; users, the start of scans, and
failures are not fair. `ActionsFinish` is checked
without faults, for a reason: after a crash in the last permitted attempt, or in a
request thread (which takes no lease), nothing in the code recovers the action;
both are listed as hazards. `OwnedInTheEnd` excepts behaviours with a failing call
or an edit: a tagging call that fails is answered with 200, so the event does not
come again.

**Disagreements that no run keeps.** Five more were refuted with these models
(other constants, or a property of its own) and are recorded here only:

* `RUN_AND_TEST_GUIDE.md:164` says an action becomes FAILED after
  MAX_REMEDIATION_ATTEMPTS failures. That transition takes one more delivery; with
  the suggested `maxReceiveCount` there is none.
* `docs/phase-2d-architecture.md:76` says a duplicate fails lease acquisition. A
  claim without `worker_id` (that of `process_sync`) keeps the old `lease_until`, so
  a worker may claim the running action at once.
* `changesets.py:15` says undo restores only what is still as written.
  Configuration operations are undone without looking.
* `protected_tags.py:14` says that seeding only fills in missing baselines. A
  failing read is taken for a missing baseline.
* `enforcement.py:108` says that drift is a change made outside the app. An event
  that overtakes `record_write` gets the app's own write reverted.

## 4. Proofs

Eight modules, checked by TLAPS for every value of the constants. Assumptions:
those named in the modules (`ASSUME` on constants, which TLC evaluates in the
runs), nothing else, except for the premises of `OneExecutorHolds`,
`DeletedMeansHandledHolds` and `CoveredIsSkippedElsewhere`, which are written in
their statements.

**The engine** (`RemediationProofs`). The inductive invariant `IInv` has three
named parts.

* `ItemInv(a)` ties one item to what AWS and the audit log have seen of it: no
  call beyond `attempt_count`, at most one per attempt, every call announced,
  COMPLETED only over applied tags.
* `ProcInv(p)` is what a process knows at its location: past the resolve it works
  for the fingerprint of the item; past the claim its attempt number is one the
  item has counted; before `Mutate` that attempt has made no call; an outcome of
  COMPLETED means the tags are there.
* `PairInv(p, q)`: two processes never hold the same attempt number of an action.

The checked properties are not inductive by themselves: "one call per attempt"
needs that the process about to call owns the attempt (`PairInv`) and that it has
not called yet (`ProcInv`), which in turn needs that claims count upwards
(`ClaimIsFresh`). The proof is organised by frames: each action is shown to move
one process (`Moves`), to let items only evolve (`StoreEvolves`,
`HistoryEvolves`), and to re-establish the invariant of that process; the lemmas
`Frame` and `LocalFrame` do the rest, once. `StepKinds` then gives
`TerminalIsFinal` and, step by step, the refinement `LifecycleHolds` with the
mapping `applied = request_fingerprint \in tagged`.

`OneExecutorHolds` has two premises, `Callers = {}` and `~StallsOutlastLease`.
Both are needed: a claim of `process_sync` sets no lease, so it leaves an old one
in place that lets a worker in; and a stall that outlasts the lease defeats any
lease that is neither renewed nor fenced. `LeaseInv` is its invariant: who
executes holds the lease.

**The worker** (also `RemediationProofs`). Every step of the loop is a step of the
engine or leaves it alone (`LoopImplementsEngine`), so all engine theorems hold of
the worker; `LoopTypeCorrect` needs that the engine never touches an idle worker.
`DeletedMeansHandledHolds` adds `VerdictInv`: what a worker about to acknowledge a
message knows of the item, namely that it was claimed once, and that without
failures it is final. Its step is `StatusGoesOn`, that no other process can undo
this; for `LeaseInv` it has the premises of `OneExecutorHolds`.

**Change sets** (`ChangeSetsProofs`). `Inv` says what each request knows. While
it reads (`ReadInv`): what it has read still holds or is in `touched`. As it
writes: goal, items and token are those of the plan made from what it read
(`Planned`), what it is still going to write holds what was read or was touched
(`Current`), a SUCCESS for which nothing is outstanding was accepted by AWS
(`Real`), and an undo has put back what it is not still going to (`Restored`).
`RowInv` and `UndoInv` keep rows in order, so that an undo and its change set are
different rows, and `RoomInv` counts requests against the bound on rows.
`SuccessIsReal`, `NoBlindWrite`, `PreviewIsBinding` and `UndoneMeansRestored`
follow from it.

**Protected tags** (`ProtectedTagsProofs`). `Inv` follows every copy of a value:
the live tags, the baseline, the events on their way and the locals of each
process hold only values that the tag has had (`Had(wasLive, ...)`). Since
`wasLive` only grows (`Grown`), a copy can be old but never made up, which is
`BaselineWasLive`, with lost puts, failing reads and crashes.

`CalmMeansProtected` says what an administrator expects when nothing unusual
happens, and needs events and baselines to be followed against each other
(`CalmInv`). In a calm behaviour at most one process is at work (`Serial`); the
value that an event tells of is the live one, or a later event tells of the key
again (`InOrder`); a tag that is not what its baseline says is told of by an event
or in the hands of the process at work (`Watched`), and what that process has read
is still true (`Knows`).

**The compliance cache** (`ScanCacheProofs`). `OneRefreshHolds` needs one fact
beyond itself: the thread about to release the lock has already taken the flag
down (`LockInv`), the order of the two statements in `finally`. It does not say
that the lock is always released; when `_ensure_db` raises it is not. For the
tables, `TypeCorrect` rests on there being only two ways to change them,
`insert_scan` and `prune_scans` (`InsertTables`, `PruneTables`). `LatestIsWhole`
speaks of the scan with the highest id, wherever it came from; its inductive form
`LatestInv` says which one that is, the scan inserted last (`nextId - 1`). Nothing
is newer than that, so it is never expired, and since `Keep` is at least 1 it
keeps its rows. `ServedIsWholeHolds` is about a reader between its two statements:
the scan that it chose is whole, or it is so old that `Keep` scans have landed
since or its time has come (`ServeInv`). That pruning spares the others is a
matter of counting: the scans newer than one of them have ids of their own
(`NewerBound`).

**Exemptions** (`ExemptionsProofs`). `Inv` says what each administrator's request
knows of the item it works on and of what its scan has found (`Found`), that two
creations draw different ids, and what outlives requests: what a creation should
meet is on every replica until it is revoked (`KnownInv`), no item is active beside
one that it should have met (`Clear`), what is gone is revoked, and the cached list,
if it may be served or its load is over, holds nothing that is gone but what the
load missed (`CleanInv`), which lags, or lagged when the load began (`LagInv`). A
scan reads items one by one while they change; that it still finds what it should
rests on `KnownInv`: until such an item is revoked it has one version only.
`CleanInv` is where the order in `AnswerRevoke` matters: first the put, then the
drop of the list, then the answer; `LagInv` gives the limit in time
(`ServeIsClean`).

`CoveredIsSkipped` does not hold (section 3), because remediation asks without the
environment. What does hold is proved: when a remediation goes on although its
resource is covered, it always missed an exemption by environment
(`MissedByEnvironmentOnly`), and where no scope names an environment
(`NoScopeByEnvironment`), covered resources are skipped
(`CoveredIsSkippedElsewhere`). The divergence has no second cause.

**Governance rules** (`GovernanceRulesProofs`). For every schema:
`CanonicalIsIdempotent`, although aliases may name other rules;
`PartialNeverMissing`; and `ValidWritesKeepCompliance`, the reason why a writer
may validate its own keys only. Its hypotheses are where it ends: the resource's
keys must be canonical already, and the write must blank nothing.

**Tag writers** (`TagOnCreateProofs`). `WriterInv` says of a request that what it
carries passed the rules, that it has judged what it is about to write, and that
every resource it was asked for is done, failed or still to come; `AutoInv` says of
an invocation that what it takes for ownerless had been ownerless since it began.
Other threads only change tags, and `seen` only grows, so both are kept by their
steps. `WriteKeepsComplianceHolds` combines this with
`ValidWritesKeepCompliance`.

`TypeCorrect` says where the resources of a request can be: one that is queued has
not been tagged and waits for no other attempt, and whatever is queued was asked
for or named by an event (`Mentioned`), for any table of calls.

**Propagation** (`PropagationProofs`). `GapsAreFoundHolds` is about the whole path
from AWS to the stored run, for any inventory and any number of other actors: an
inherited tag that a child lacks, or has with another value, and that stays so
while a check runs, is in the run or its rule is among the errors. It has three
parts.

* Lists. The rules build sequences by filtering and joining; `WhereMembers`,
  `FlattenMembers`, `SetToSeqMembers` and `TasksMembers` say what is in them. A
  fold of the library has no induction theorem that could be used here, but
  `FlattenSeq` is a recursive function, and induction over a set of numbers
  (`Counting`) follows from the fact that a set of numbers has a least one.
* Rules. `RulesReport`: given two views, each rule reports (`Reports`) every child
  that AWS knows (`IsChild`) with a gap that is in both views (`GapIn`). It may
  describe the parent in one view and the child in the other; that is why both
  must have the gap. `RelFindingsFacts` turns what is shown into a finding.
* The check. `GapsInv`: a gap that has stayed since the check began is known, or
  reported as failed, or its rule is still to come in its place (`Pursued`);
  between the two reads of a rule the view kept from the first one has the gap.

`TypeCorrect` is its first half (`Typed`) and of use by itself: plans, operations
and synchronizations write nothing but tags, which takes that normalization of
tags always has a result (`SomeNormalized`), and at most one check is at work
(`OneCheck`), the flag being set and read under the lock. What the stories must
satisfy is `IsStory`: inventories list resources that have tags, edits write tags,
the children looked at are children that AWS knows, and nothing hangs on itself
through others.

`RoundsConvergeHolds` says how long one must go on checking and fixing: as many
rounds as there are levels of parents, for any inventory and schema and whatever
is done at the same time that does not disturb. The argument has four parts.

* What is asked. `AskOf` is the value that the findings ask for one key of one
  child, the last one that asks having its way; it is computed finding by finding
  (`AskOfTwo`, `AskOfMany`). `FixPlanAsks`: without overwriting, `fix_plan` wants
  just that. `RulesShape`: which parents a rule looks at, which children it reports
  and which of them it has described depends on the inventory only, not on the
  tags; so does what it asks of a child on anything but the tags of its parents
  and of the child (`RuleAsksAlike`). `Wish` is what all rules in all places
  together ask.
* Levels. A child is `Done` when it has all that is wished for it, or when the
  schema does not accept what is (`Accepted`; `build_plan` then leaves the child
  alone). `Later(n)` relates two views of the tags between which nothing but a
  round was at work, n levels being done: below level n + 1 nothing has changed,
  and at level n + 1 a child has what it had or is complete.
* The invariant, `RoundsInv`. All children up to level `rounds - calm` are done. A
  check of this round knows, for a child at the next level that is not complete,
  exactly what is wished, taking its findings with what the rules still to come
  will ask (`Looked`); so does each stored run of this round. An apply of this
  round has left, at the next level, only writes that complete a child, and the
  children it has not left are done (`Applies`). Nothing is claimed of checks and
  applies of earlier rounds, which is why they disturb when they write.
* The end. `GapWish`: a gap without a value is a wish of some rule; it is at no
  level above `levels`, so its child is done, and as it lacks the key, what is
  wished is not accepted. But tags that are accepted one by one are accepted
  together (`ValidInParts`), so the gap is none that can be fixed (`Fixable`).

The conditions of the property are needed. Fixes of selected findings, of an older
run or with overwriting are allowed at any time but disturb, because between the
check and the apply of a round they can give a child at a level that is done a tag
that its own children lack then. And `Fixable` is about all that others hand on to
the child (`Lacking`), not only the parents of the pairs that are looked at, since
one value that the schema refuses keeps the whole plan for the child from being
applied.

**Only model-checked.** All liveness (it needs ENABLED): `ActionsFinish`,
`PoisonEndsInDLQ`, `ShutdownCompletes`, `RevertsDieOut`, `RefreshReleasesLock`,
`OwnedInTheEnd`. The properties that are violated. Every other property that a run
checks is stated by a theorem.

## 5. Not modelled, and why

* FinOps cache: the refresh protocol of the compliance cache once more, over
  single rows and without retention.
* AWS sessions: credential caches keyed by account. No other component decides
  anything by them.
* Collectors, reports, insights, CMDB and cost reports: read-only I/O and
  aggregation. A scan is modelled by which accounts and regions answered.
* How an identity is read from the load balancer's token or the session;
  routing, rendering, CLI, MCP server, UI, metrics and settings. The
  environment variables that change decisions are CONSTANTS.
* `AuditLogger` and the audit rows of change sets: best effort, nothing reads
  them back to decide.
* The seeding of baselines by `save_report` is in `ProtectedTags`, not in
  `ScanCache`: it touches none of the cache's state.

What the models show and no property claims, because no document promises
otherwise:

* `_ensure_db` raising between the acquire and the `try` leaves the lock taken
  (`Begin`).
* Regions asked for twice in one refresh are counted once when they fail
  (`FailedRegions`, `AllFailed`); the run asks for distinct regions.
* The operation that switches PropagateAtLaunch on sets the group's tags to the
  values that the check read, which the preview token does not cover (`DoOp`).
* Findings compare keys as they are, fixes write canonical keys, so a finding for
  an alias comes back after its fix (`Fixable` excludes it). The same holds for
  children that are found without account (`NoAccount`): terminated instances
  that an Auto Scaling group still names.
* `max_tasks` cuts off the children of large services.
* A failing tag call of the tag-on-create Lambda is answered with 200.
* Authorization looks at the keys as they are sent; normalization comes after it
  (`touched`).

## 6. Plan

1. That `Propagation` and the bulk fixes of the application are requests of
   `ChangeSets`, by refinement.
2. The FinOps cache, with `ScanCache` parameterised by its storage.
3. Exemptions inside `Remediation`, which now takes `exempt` as an input: a grant
   or a revocation while an action runs.
