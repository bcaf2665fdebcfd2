----------------------------- MODULE Exemptions -----------------------------
(***************************************************************************)
(* Exemptions (src/src/governance/exemptions.py), their items in the       *)
(* governance table, the endpoints that create and revoke them, and those  *)
(* who ask: remediation requests, drift invocations, and the compliance    *)
(* page through the _TTLCache of src/web/app.py.                           *)
(*                                                                         *)
(* An exemption is created by a listing and a put and revoked by two gets  *)
(* and a put; nothing is locked meanwhile, and puts carry no condition.  A *)
(* put may fail after it took effect, and the SDK may send it twice.       *)
(*                                                                         *)
(* No read asks for consistency: table.scan and get_item return, of each   *)
(* item, any version that a replica still holds, and a scan goes through   *)
(* the table page by page, here item by item.  Time is counted in ticks of *)
(* the cache's granularity.                                                *)
(***************************************************************************)
EXTENDS Naturals, FiniteSets

CONSTANTS
    None,         \* no value
    Bad,          \* an expires_at that does not parse
    Ids,          \* uuids that creations can draw
    Scopes,       \* scopes that are asked for
    Expiries,     \* values of expires_at that are asked for
    Resources,    \* records [resource_id, resource_type, environment, account_id]
    Admins,       \* request threads that create and revoke
    Callers,      \* remediation requests and drift invocations
    Pages,        \* request threads that show exemption states
    TTL,          \* lifetime of the cached list, in ticks
    MaxTime,      \* bound: ticks
    MaxRequests,  \* bound: requests that are begun
    MaxFaults     \* bound: failing or repeated calls

ScopeFields == {"resource_id", "resource_type", "environment", "account_id"}

ASSUME ExemptionsAssumption ==
    /\ Admins \cap Callers = {} /\ (Admins \cup Callers) \cap Pages = {}
    /\ None \notin {Bad, "ACTIVE", "REVOKED"} /\ None \notin Scopes
    /\ None \notin Ids \cup Admins \cup Callers \cup Pages
    /\ \A x \in Scopes \cup Resources : DOMAIN x = ScopeFields
    /\ Expiries \subseteq {None, Bad} \cup Nat
    /\ TTL \in Nat \ {0} /\ MaxTime \in Nat /\ MaxRequests \in Nat /\ MaxFaults \in Nat

VARIABLES
    exemptions,   \* EXEMPTION# items by id, as last put
    replicas,     \* by id, the versions that some replica still holds
    now,          \* time
    value, error, at,  \* _TTLCache._value, _error and _at
    lock,         \* the thread that holds _TTLCache._lock
    pc, ctx,      \* where each thread is, and its locals
    requests, faults,
    answered,     \* history: creations that were answered, with or without success
    before,       \* history: by creation, those that were answered, and on every
                  \* replica, when its request began
    gone,         \* history: exemptions whose revocation was answered with success,
                  \* and had begun after their creation was answered
    began,        \* history: when the load of the cached list began
    missed,       \* history: exemptions of which that load read a version older
                  \* than their revocation, although the revocation was put
    settled       \* history: when the last replica learned of the revocation

table == <<exemptions, replicas, settled>>
cache == <<value, error, at, lock, began, missed>>
bounds == <<requests, faults>>
history == <<answered, before, gone>>
vars == <<exemptions, replicas, settled, now, value, error, at, lock, began, missed, pc, ctx,
          requests, faults, answered, before, gone>>

Threads == Admins \cup Callers \cup Pages
NoItem == [status |-> None, scope |-> None, expires_at |-> None]
NoCtx == [id |-> None, item |-> NoItem, todo |-> {}, list |-> {}, known |-> {}]

Init ==
    /\ exemptions = [i \in Ids |-> NoItem] /\ replicas = [i \in Ids |-> {NoItem}]
    /\ settled = [i \in Ids |-> 0] /\ now = 0
    /\ value = {} /\ error = FALSE /\ at = None /\ lock = None /\ began = 0 /\ missed = {}
    /\ pc = [t \in Threads |-> "idle"] /\ ctx = [t \in Threads |-> NoCtx]
    /\ requests = 0 /\ faults = 0
    /\ answered = {} /\ before = [i \in Ids |-> {}] /\ gone = {}

-----------------------------------------------------------------------------
(***************************************************************************)
(* Scopes and precedence                                                   *)
(***************************************************************************)
Given(scope) == {f \in ScopeFields : scope[f] # None}

\* 5 is the most specific; combinations that are not listed are unsupported.
_get_scope_rank(scope) ==
    CASE Given(scope) = {"resource_id"} -> 5
      [] Given(scope) = {"resource_type", "environment"} -> 4
      [] Given(scope) = {"resource_type"} -> 3
      [] Given(scope) = {"account_id", "environment"} -> 2
      [] Given(scope) = {"account_id"} -> 1
      [] OTHER -> 0

is_valid_scope(scope) == _get_scope_rank(scope) > 0

\* An exemption matches on the fields of its rank.  env is what the caller
\* passes as the environment, which is not always what the resource carries.
_matches(scope, res, env) ==
    /\ is_valid_scope(scope)
    /\ \A f \in Given(scope) :
          scope[f] = (IF f = "environment" THEN env ELSE res[f])

_is_active(item) ==
    /\ item.status = "ACTIVE"
    /\ item.expires_at # Bad
    /\ item.expires_at # None => now <= item.expires_at

\* What list_active_exemptions returns, of the entries that a scan has found.
list_active_exemptions(found) == {e \in found : _is_active(e.item)}

\* The exemption of the highest rank; two of that rank exempt nothing.
is_exempt(res, env, active) ==
    LET matching == {e \in active : _matches(e.item.scope, res, env)}
        highest == {e \in matching : \A o \in matching :
                       _get_scope_rank(o.item.scope) <= _get_scope_rank(e.item.scope)}
    IN IF Cardinality(highest) = 1 THEN (CHOOSE e \in highest : TRUE).id ELSE None

\* Mutant: only exemptions of single resources are compared.
ConflictOfResources(scope, active) ==
    \E e \in active : _get_scope_rank(e.item.scope) = 5 /\ e.item.scope = scope

Conflict(scope, active) ==
    \E e \in active :
        _get_scope_rank(e.item.scope) = _get_scope_rank(scope) /\ e.item.scope = scope

-----------------------------------------------------------------------------
Goto(t, l) == pc' = [pc EXCEPT ![t] = l]
Return(t) == Goto(t, "idle") /\ ctx' = [ctx EXCEPT ![t] = NoCtx]
At(t, l) == pc[t] = l
Request == requests < MaxRequests /\ requests' = requests + 1
Fault == faults < MaxFaults /\ faults' = faults + 1

\* A put is durable when it is answered; replicas may still hold what was there.
put_exemption(i, item) ==
    /\ exemptions' = [exemptions EXCEPT ![i] = item]
    /\ replicas' = [replicas EXCEPT ![i] = @ \cup {item}]
    /\ UNCHANGED settled

\* A replica that does not know of a revocation still holds the exemption.
Lagging(i) == exemptions[i].status = "REVOKED" /\ \E v \in replicas[i] : v.status = "ACTIVE"

\* The last replica learns of the latest version.
OnAllReplicas(i) == replicas[i] = {exemptions[i]}
Settle(i) ==
    /\ ~OnAllReplicas(i)
    /\ replicas' = [replicas EXCEPT ![i] = {exemptions[i]}]
    /\ settled' = IF Lagging(i) THEN [settled EXCEPT ![i] = now] ELSE settled
    /\ UNCHANGED <<exemptions, now, cache, pc, ctx, bounds, history>>

\* list_exemptions: the scan goes through the items, whatever their status.
Scanning == {"list", "askRemediation", "askDrift", "loading"}

ScanItem(t) ==
    /\ pc[t] \in Scanning
    /\ \E i \in ctx[t].todo : \E v \in replicas[i] :
          /\ ctx' = [ctx EXCEPT ![t].todo = @ \ {i}, ![t].list = @ \cup {[id |-> i, item |-> v]}]
          /\ missed' = IF t \in Pages /\ exemptions[i].status = "REVOKED" /\ v.status = "ACTIVE"
                         THEN missed \cup {i} ELSE missed
    /\ UNCHANGED <<table, now, value, error, at, lock, began, pc, bounds, history>>

Scanned(t, l) == At(t, l) /\ ctx[t].todo = {}

\* Mutant: an id that repeats what was there for this scope.
IdBy(scope) ==
    {i \in Ids : exemptions[i] = NoItem \/ exemptions[i].scope = scope}

\* uuid4 draws an id that nobody has, is about to have or has had.
uuid4(scope) ==
    {i \in Ids \ answered : exemptions[i] = NoItem /\ \A t \in Admins : ctx[t].id # i}

-----------------------------------------------------------------------------
(***************************************************************************)
(* POST /api/exemptions                                                    *)
(***************************************************************************)

\* Mutant: what does not parse is stored, as a date that never passes.
RefusedByScope(scope, expires) == ~is_valid_scope(scope)

\* The checks before the table is read: scope, then expires_at.
Refused(scope, expires) == ~is_valid_scope(scope) \/ expires = Bad

StartCreate(t, scope, expires) ==
    /\ At(t, "idle") /\ Request
    /\ ~Refused(scope, expires)
    /\ \E i \in uuid4(scope) :
          /\ ctx' = [ctx EXCEPT ![t].id = i,
                        ![t].item = [status |-> "ACTIVE", scope |-> scope, expires_at |-> expires],
                        ![t].todo = Ids]
          /\ before' = [before EXCEPT ![i] = {k \in answered : OnAllReplicas(k)}]
    /\ Goto(t, "list")
    /\ UNCHANGED <<table, now, cache, faults, answered, gone>>

\* The list of active exemptions decides; a failing read is an error.
ListForCreate(t) ==
    /\ \/ /\ Scanned(t, "list")
          /\ IF Conflict(ctx[t].item.scope, list_active_exemptions(ctx[t].list))
               THEN Return(t) ELSE Goto(t, "put") /\ ctx' = [ctx EXCEPT ![t].list = {}]
          /\ UNCHANGED faults
       \/ At(t, "list") /\ Fault /\ Return(t)
    /\ UNCHANGED <<table, now, cache, requests, history>>

PutNew(t) ==
    /\ At(t, "put")
    /\ put_exemption(ctx[t].id, ctx[t].item)
    /\ Goto(t, "invalidate")
    /\ UNCHANGED <<now, cache, ctx, requests, faults, history>>

\* The put takes effect, but its answer is late: the SDK will send it again.
PutRepeated(t) ==
    /\ At(t, "put") /\ Fault
    /\ put_exemption(ctx[t].id, ctx[t].item)
    /\ UNCHANGED <<now, cache, pc, ctx, requests, history>>

\* The put fails, before or after it took effect; the request fails with it.
PutFails(t) ==
    /\ At(t, "put") /\ Fault
    /\ put_exemption(ctx[t].id, ctx[t].item) \/ UNCHANGED table
    /\ answered' = answered \cup {ctx[t].id}
    /\ Return(t)
    /\ UNCHANGED <<now, cache, requests, before, gone>>

\* The audit rows are written (their failure is only logged), the cached list
\* is dropped, and the request is answered.
AnswerCreate(t) ==
    /\ At(t, "invalidate") /\ lock = None
    /\ at' = None
    /\ answered' = answered \cup {ctx[t].id}
    /\ Return(t)
    /\ UNCHANGED <<table, now, value, error, lock, began, missed, bounds, before, gone>>

-----------------------------------------------------------------------------
(***************************************************************************)
(* DELETE /api/exemptions/<id>                                             *)
(***************************************************************************)

\* The endpoint looks the exemption up; one that the replica does not know
\* ends the request here.
StartRevoke(t, i) ==
    /\ At(t, "idle") /\ Request
    /\ \E v \in replicas[i] : v # NoItem
    /\ ctx' = [ctx EXCEPT ![t].id = i, ![t].known = answered]
    /\ Goto(t, "get")
    /\ UNCHANGED <<table, now, cache, faults, history>>

\* revoke_exemption reads the whole item again, whatever its status; another
\* replica may not know it, and the request ends with NOT_FOUND.
GetForRevoke(t) ==
    /\ At(t, "get")
    /\ \/ \E v \in replicas[ctx[t].id] \ {NoItem} :
             /\ ctx' = [ctx EXCEPT ![t].item = [v EXCEPT !.status = "REVOKED"]]
             /\ Goto(t, "putRevoked") /\ UNCHANGED faults
       \/ NoItem \in replicas[ctx[t].id] /\ Return(t) /\ UNCHANGED faults
       \/ Fault /\ Return(t)
    /\ UNCHANGED <<table, now, cache, requests, history>>

PutRevoked(t) ==
    /\ At(t, "putRevoked")
    /\ put_exemption(ctx[t].id, ctx[t].item)
    /\ Goto(t, "invalidateRevoked")
    /\ UNCHANGED <<now, cache, ctx, bounds, history>>

PutRevokedFails(t) ==
    /\ At(t, "putRevoked") /\ Fault
    /\ put_exemption(ctx[t].id, ctx[t].item) \/ UNCHANGED table
    /\ Return(t)
    /\ UNCHANGED <<now, cache, requests, history>>

\* Mutant: the list is left to expire.
AnswerWithoutInvalidate(t) ==
    /\ At(t, "invalidateRevoked")
    /\ gone' = gone \cup ({ctx[t].id} \cap ctx[t].known)
    /\ Return(t)
    /\ UNCHANGED <<table, now, cache, bounds, answered, before>>

AnswerRevoke(t) ==
    /\ At(t, "invalidateRevoked") /\ lock = None
    /\ at' = None
    /\ gone' = gone \cup ({ctx[t].id} \cap ctx[t].known)
    /\ Return(t)
    /\ UNCHANGED <<table, now, value, error, lock, began, missed, bounds, answered, before>>

-----------------------------------------------------------------------------
(***************************************************************************)
(* Those who ask                                                           *)
(***************************************************************************)

\* What a caller was told: what was active, and the answer.
Told(t, active, id) ==
    ctx' = [ctx EXCEPT ![t].list = active, ![t].id = id]

\* A remediation request or a drift invocation lists the exemptions.
StartAsk(t, res, l) ==
    /\ At(t, "idle") /\ Request
    /\ ctx' = [ctx EXCEPT ![t].item = res, ![t].todo = Ids]
    /\ Goto(t, l)
    /\ UNCHANGED <<table, now, cache, faults, history>>

\* process_sync asks without an environment; a failing read fails the request.
AskForRemediation(t) ==
    /\ \/ /\ Scanned(t, "askRemediation")
          /\ LET active == list_active_exemptions(ctx[t].list)
             IN Told(t, active, is_exempt(ctx[t].item, None, active))
          /\ Goto(t, "remediation") /\ UNCHANGED faults
       \/ At(t, "askRemediation") /\ Fault /\ Return(t)
    /\ UNCHANGED <<table, now, cache, requests, history>>

\* The drift handler passes the Environment tag; a failing read exempts nothing.
AskForDrift(t) ==
    /\ \/ /\ Scanned(t, "askDrift")
          /\ LET active == list_active_exemptions(ctx[t].list)
             IN Told(t, active, is_exempt(ctx[t].item, ctx[t].item["environment"], active))
          /\ UNCHANGED faults
       \/ At(t, "askDrift") /\ Fault /\ ctx' = [ctx EXCEPT ![t].todo = {}, ![t].list = {}]
    /\ Goto(t, "drift")
    /\ UNCHANGED <<table, now, cache, requests, history>>

\* The caller has acted on what it was told.
Acted(t) ==
    /\ pc[t] \in {"remediation", "drift", "shown"}
    /\ Return(t)
    /\ UNCHANGED <<table, now, cache, bounds, history>>

\* The compliance page: _TTLCache.get.
StartPage(t) ==
    /\ At(t, "idle") /\ Request
    /\ ctx' = [ctx EXCEPT ![t].known = gone]
    /\ Goto(t, "enter")
    /\ UNCHANGED <<table, now, cache, faults, history>>

Fresh == at # None /\ now < at + TTL

\* What the cached list may show although it was revoked: the load read it on
\* a replica that lagged, and since then no lifetime has passed, nor the time
\* that the load, which ended at end, took.
Excused(end) ==
    {i \in missed : Lagging(i) \/ now < settled[i] + TTL + (end - began)}

\* The page has its list, loaded at end.
Serve(t, end) ==
    /\ ctx' = [ctx EXCEPT ![t].list = IF error THEN {} ELSE value, ![t].known = @ \ Excused(end)]
    /\ Goto(t, "shown")

\* Within its lifetime the cached answer serves, also when it is a failure.
Hit(t) ==
    /\ At(t, "enter") /\ lock = None /\ Fresh
    /\ Serve(t, at)
    /\ UNCHANGED <<table, now, cache, bounds, history>>

\* The loader runs under the lock.
Load(t) ==
    /\ At(t, "enter") /\ lock = None /\ ~Fresh
    /\ lock' = t /\ began' = now /\ missed' = {}
    /\ ctx' = [ctx EXCEPT ![t].todo = Ids]
    /\ Goto(t, "loading")
    /\ UNCHANGED <<table, now, value, error, at, bounds, history>>

\* It has read the table, or fails.
LoaderReturns(t) ==
    /\ \/ /\ Scanned(t, "loading")
          /\ value' = list_active_exemptions(ctx[t].list) /\ error' = FALSE
          /\ UNCHANGED faults
       \/ At(t, "loading") /\ Fault /\ value' = {} /\ error' = TRUE
    /\ ctx' = [ctx EXCEPT ![t].todo = {}, ![t].list = {}]
    /\ Goto(t, "loaded")
    /\ UNCHANGED <<table, now, at, lock, began, missed, requests, history>>

\* The lifetime begins when the loader has returned.
Loaded(t) ==
    /\ At(t, "loaded")
    /\ at' = now /\ lock' = None
    /\ Serve(t, now)
    /\ UNCHANGED <<table, now, value, error, began, missed, bounds, history>>

\* _annotate_exemptions: what the page says of a resource.
ShownExemption(t, res) == is_exempt(res, res["environment"], ctx[t].list)

-----------------------------------------------------------------------------
Tick ==
    /\ now < MaxTime /\ now' = now + 1
    /\ UNCHANGED <<table, cache, pc, ctx, bounds, history>>

AdminStep(t) ==
    \/ ScanItem(t) \/ ListForCreate(t) \/ PutNew(t) \/ PutRepeated(t) \/ PutFails(t) \/ AnswerCreate(t)
    \/ GetForRevoke(t) \/ PutRevoked(t) \/ PutRevokedFails(t) \/ AnswerRevoke(t)

Next ==
    \/ \E t \in Admins : \/ \E s \in Scopes, e \in Expiries : StartCreate(t, s, e)
                         \/ \E i \in Ids : StartRevoke(t, i)
                         \/ AdminStep(t)
    \/ \E t \in Callers : \/ \E r \in Resources, l \in {"askRemediation", "askDrift"} : StartAsk(t, r, l)
                          \/ ScanItem(t) \/ AskForRemediation(t) \/ AskForDrift(t) \/ Acted(t)
    \/ \E t \in Pages : \/ StartPage(t) \/ Hit(t) \/ Load(t) \/ ScanItem(t)
                        \/ LoaderReturns(t) \/ Loaded(t) \/ Acted(t)
    \/ \E i \in Ids : Settle(i)
    \/ Tick

Spec == Init /\ [][Next]_vars

-----------------------------------------------------------------------------
(***************************************************************************)
(* Properties                                                              *)
(***************************************************************************)
Item == {NoItem} \cup [status : {"ACTIVE", "REVOKED"}, scope : Scopes, expires_at : Expiries]
Entry == [id : Ids, item : Item]

\* Items are whole, the lock belongs to the page that is loading, an admin's
\* locals are an item of its own id, and versions differ in their status only.
TypeOK ==
    /\ exemptions \in [Ids -> Item] /\ replicas \in [Ids -> SUBSET Item]
    /\ \A i \in Ids : /\ exemptions[i] \in replicas[i] /\ settled[i] \in 0..now
                       /\ \A v \in replicas[i] : v = NoItem \/ v.scope = exemptions[i].scope
    /\ began \in 0..now /\ missed \subseteq Ids
    /\ now \in 0..MaxTime /\ requests \in 0..MaxRequests /\ faults \in 0..MaxFaults
    /\ value \subseteq Entry /\ error \in BOOLEAN /\ at \in {None} \cup 0..now
    /\ \A t \in Threads : lock = t <=> pc[t] \in {"loading", "loaded"}
    /\ \A t \in Threads : ctx[t].todo \subseteq Ids /\ (ctx[t].todo # {} => pc[t] \in Scanning)
    /\ \A t \in Admins : /\ ctx[t].id \in Ids \cup {None} /\ ctx[t].item \in Item
                         /\ pc[t] \notin {"idle", "get"} => ctx[t].item # NoItem
    /\ \A i \in Ids : exemptions[i] = NoItem \/ is_valid_scope(exemptions[i].scope)
    /\ \A i \in Ids : exemptions[i].expires_at # Bad

\* Two active exemptions of one scope, which exempt nothing, come from
\* requests that overlapped or followed each other faster than the replicas:
\* a request that begins when another was answered, and its put has reached
\* every replica, never ends beside what that one left active, although its
\* scan reads other items while they change, and in any order.
OverlapOnly ==
    \A i, j \in Ids :
        (i # j /\ _is_active(exemptions[i]) /\ _is_active(exemptions[j])
               /\ exemptions[i].scope = exemptions[j].scope)
        => i \notin before[j]

\* Once the revocation of an exemption whose creation had been answered is
\* answered, a page that is asked for later shows the exemption only if the
\* load of its list met a replica that had not learned of the revocation, and
\* not any more when the last replica has known for the lifetime of the list
\* and the time its load took.  A list that was read before the revocation was
\* put is never among those, however loads, puts and invalidations interleave.
RevokeIsSeen ==
    \A t \in Pages, r \in Resources :
        pc[t] = "shown" => ShownExemption(t, r) \notin ctx[t].known

\* A revocation is final, with one exception: the put that created the
\* exemption is still being repeated by the SDK of its own request.
RevokedStaysRevoked ==
    [][\A i \in Ids : exemptions[i].status = "REVOKED" =>
          \/ exemptions'[i].status = "REVOKED"
          \/ \E t \in Admins : pc[t] = "put" /\ ctx[t].id = i /\ i \notin answered]_vars

\* A remediation request for a resource that an active exemption covers, as
\* the compliance page would show it from the same list, is skipped
\* (RUN_AND_TEST_GUIDE.md:486: "with an active exemption on the resource (8.9),
\* a new request returns SKIPPED_EXEMPT").
CoveredIsSkipped ==
    \A t \in Callers :
        pc[t] = "remediation" =>
            (is_exempt(ctx[t].item, ctx[t].item["environment"], ctx[t].list) # None
                => ctx[t].id # None)
=============================================================================
