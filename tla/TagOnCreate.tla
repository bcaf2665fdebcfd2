----------------------------- MODULE TagOnCreate -----------------------------
(***************************************************************************)
(* Those who tag resources by rule: the tag-on-create Lambda, for events   *)
(* and as a discovery scan (src/src/tag_on_create.py), the enforcement     *)
(* Lambda on the same events (enforcement.py), and tag writes through the  *)
(* application (tag_writer.py, api_write of src/web/app.py) and the plain  *)
(* tag_write Lambda, around resources that users create and tag            *)
(* themselves.                                                             *)
(*                                                                         *)
(* Every call of the tagging API is one step: a call covers one batch of   *)
(* ARNs, and may fail, also after it took effect.  The tagging API does    *)
(* not know a resource before its first tag.  Events are delivered at      *)
(* least once, in any order.                                               *)
(***************************************************************************)
EXTENDS Authorization, FiniteSets

CONSTANTS
    Stories,        \* what may happen: records [calls, targets, room] of the create
                    \* calls that users make, the Lambdas that EventBridge sends
                    \* their events to, and a bound on what else happens: scans,
                    \* writes and edits by users, and faults
    Autos,          \* invocations of the tag-on-create Lambda
    Enforcers,      \* invocations of the enforcement Lambda
    Writers,        \* requests to /api/write
    Requests,       \* what they ask: records [caller, arns, tags, region];
                    \* without caller, invocations of the tag_write Lambda
    Editions,       \* what users do to tags by themselves: records [arn, tags, userIdentity]
    DEFAULT_REGION, OWNER_TAG_KEY, TAG_API_BATCH, TAG_LOOKUP_RETRIES,
    GOVERNANCE_STRICT_MODE, GOVERNANCE_REMEDIATION_ENABLED,
    PageSize        \* CloudTrail events on a page

INSTANCE CreateEvents

Threads == Autos \cup Enforcers \cup Writers
Calls == UNION {s.calls : s \in Stories}
Arns == (UNION {c.makes : c \in Calls}) \cup (UNION {r.arns : r \in Requests})

ASSUME TagOnCreateAssumption ==
    /\ Autos \cap Enforcers = {} /\ (Autos \cup Enforcers) \cap Writers = {}
    /\ TAG_API_BATCH \in 1..20 /\ TAG_LOOKUP_RETRIES \in Nat \ {0} /\ PageSize \in Nat \ {0}
    /\ GOVERNANCE_STRICT_MODE \in BOOLEAN /\ GOVERNANCE_REMEDIATION_ENABLED \in BOOLEAN
    /\ \A s \in Stories : s.targets \subseteq {"tag-on-create", "enforcement"} /\ s.room \in Nat
    /\ \A c \in Calls : c.detail # None /\ IsTagSet(c.tags)
    /\ \A r \in Requests \cup Editions : IsTagSet(r.tags)
    /\ \A e \in {c.detail : c \in Calls} \cup Editions :
          owner_from_user_identity(e.userIdentity) \in Values \cup {None}
    \* As in the configuration the code ships with.
    /\ OWNER_TAG_KEY \in Keys /\ Canonical(OWNER_TAG_KEY) = OWNER_TAG_KEY

VARIABLES
    story,        \* what may happen in this behaviour
    trail,        \* CloudTrail: what happened, in order
    tags,         \* tags of the resources that were created
    listed,       \* resources that the tagging API knows
    deliveries,   \* events that EventBridge has still to deliver
    actions,      \* remediation actions that reached a final status
    pc, ctx,      \* where each invocation is, and its locals
    scans, edits, faults,
    seen          \* history: by invocation, resources that were without owner since its start;
                  \* by request, those that could be taken for its caller's

aws == <<tags, listed>>
users == <<story, trail>>
bounds == <<scans, edits, faults>>
vars == <<story, trail, tags, listed, deliveries, actions, pc, ctx, scans, edits, faults, seen>>

NoTags == [k \in {} |-> None]
NoCtx == [owner |-> None, region |-> None, regions |-> {}, left |-> {}, group |-> {}, queue |-> {}, retry |-> {},
          attempt |-> 0, found |-> NoTags, set |-> NoTags, failed |-> {}, done |-> {}, asked |-> {},
          caller |-> None, outcome |-> None]

exists == DOMAIN tags
is_missing_owner_tag(ts) == ~Filled(ts, OWNER_TAG_KEY)
Ownerless == {a \in exists : is_missing_owner_tag(tags[a])}

Init ==
    /\ story \in Stories /\ trail = <<>>
    /\ tags = NoTags /\ listed = {}
    /\ deliveries = {} /\ actions = {}
    /\ pc = [t \in Threads |-> "idle"] /\ ctx = [t \in Threads |-> NoCtx]
    /\ scans = 0 /\ edits = 0 /\ faults = 0
    /\ seen = [t \in Threads |-> {}]

Goto(t, l) == pc' = [pc EXCEPT ![t] = l]
Return(t) == Goto(t, "idle") /\ ctx' = [ctx EXCEPT ![t] = NoCtx]
At(t, l) == pc[t] = l
Room == scans + edits + faults < story.room
Fault == Room /\ faults' = faults + 1
Batches(arns) ==
    {b \in SUBSET arns : Cardinality(b) = IF Cardinality(arns) < TAG_API_BATCH
                                          THEN Cardinality(arns) ELSE TAG_API_BATCH}

-----------------------------------------------------------------------------
(***************************************************************************)
(* Users and AWS                                                           *)
(***************************************************************************)
Event(c, to) == [detail |-> c.detail, envelope |-> c.envelope, bare |-> None, to |-> to]
Names(c) == EVENT_EXTRACTORS(c.detail, c.envelope)

\* Whatever events may name, requests ask for or calls make.
Mentioned == Arns \cup UNION {Names(c) : c \in Calls}

\* A create call, which makes nothing when it fails.  CloudTrail logs it and
\* EventBridge forwards it either way.
MakeCall(c) ==
    /\ \A i \in DOMAIN trail : trail[i].call # c
    /\ c.makes \cap exists = {}
    /\ trail' = Append(trail, [call |-> c, names |-> Names(c), userIdentity |-> c.detail.userIdentity])
    /\ tags' = [a \in exists \cup c.makes |-> IF a \in c.makes THEN c.tags ELSE tags[a]]
    /\ listed' = IF c.tags = NoTags THEN listed ELSE listed \cup c.makes
    /\ deliveries' = deliveries \cup {Event(c, to) : to \in story.targets}
    /\ UNCHANGED <<story, actions, pc, ctx, bounds>>

\* Someone sets a resource's tags outside the app, which CloudTrail logs as
\* CreateTags.
Edit(e) ==
    /\ e.arn \in exists /\ Room /\ edits' = edits + 1
    /\ tags' = [tags EXCEPT ![e.arn] = e.tags]
    /\ listed' = listed \cup {e.arn}
    /\ trail' = Append(trail, [call |-> None, names |-> {e.arn}, userIdentity |-> e.userIdentity])
    /\ UNCHANGED <<story, deliveries, actions, pc, ctx, scans, faults>>

\* TagResources of set on a batch, of which AWS tags arns and refuses the rest.
Tagged(arns, set) ==
    /\ tags' = [a \in exists |-> IF a \in arns THEN Written(tags[a], set) ELSE tags[a]]
    /\ listed' = listed \cup arns

\* What can become of a batch: the resources tagged and those refused.  A
\* resource that does not exist is refused.
Outcomes(batch) ==
    {o \in [tagged : SUBSET batch, refused : SUBSET batch] :
        o.tagged \subseteq exists /\ o.refused = batch \ o.tagged}
Expected(batch, o) == o.refused = batch \ exists

\* Delivery: the event is gone, or will come once more.
Receive(e, to) ==
    /\ e \in deliveries /\ e.to = to
    /\ \/ deliveries' = deliveries \ {e} /\ UNCHANGED faults
       \/ Fault /\ UNCHANGED deliveries

-----------------------------------------------------------------------------
(***************************************************************************)
(* Looking up tags: fetch_tags_for_arns, for the ARNs of ctx.group         *)
(***************************************************************************)
\* Enforcement asks the region of the event for all ARNs, others the region of
\* each; a region knows its own resources.
InReach(t) ==
    IF t \in Enforcers THEN {a \in listed : get_region_from_arn(a, ctx[t].region) = ctx[t].region}
    ELSE listed

FetchBatch(t) ==
    /\ At(t, "fetch")
    /\ \E batch \in Batches(ctx[t].queue) :
          /\ batch # {}
          /\ \/ /\ ctx' = [ctx EXCEPT ![t].queue = @ \ batch, ![t].retry = @ \cup (batch \ InReach(t)),
                       ![t].found = Written(@, [a \in batch \cap InReach(t) |-> tags[a]])]
                /\ UNCHANGED faults
             \/ Fault /\ ctx' = [ctx EXCEPT ![t].queue = @ \ batch, ![t].retry = @ \cup batch]
    /\ UNCHANGED <<aws, users, deliveries, actions, pc, scans, edits>>

\* Mutant: what is asked for again stays on the list.
NextAttemptOfAll(t) ==
    /\ At(t, "fetch") /\ ctx[t].queue = {} /\ ctx[t].retry # {}
    /\ ctx[t].attempt < TAG_LOOKUP_RETRIES
    /\ ctx' = [ctx EXCEPT ![t].queue = ctx[t].retry, ![t].attempt = @ + 1]
    /\ UNCHANGED <<aws, users, deliveries, actions, pc, bounds>>

\* ARNs that were not found, or whose batch failed, are asked for again.
NextAttempt(t) ==
    /\ At(t, "fetch") /\ ctx[t].queue = {} /\ ctx[t].retry # {}
    /\ ctx[t].attempt < TAG_LOOKUP_RETRIES
    /\ ctx' = [ctx EXCEPT ![t].queue = ctx[t].retry, ![t].retry = {}, ![t].attempt = @ + 1]
    /\ UNCHANGED <<aws, users, deliveries, actions, pc, bounds>>

Fetched(t) ==
    /\ At(t, "fetch") /\ ctx[t].queue = {}
    /\ ctx[t].retry = {} \/ ctx[t].attempt = TAG_LOOKUP_RETRIES

Fetch(arns, c) == [c EXCEPT !.group = arns, !.queue = arns, !.retry = {}, !.attempt = 1, !.found = NoTags]

-----------------------------------------------------------------------------
(***************************************************************************)
(* The tag-on-create Lambda, for an event                                  *)
(***************************************************************************)

\* Events that are not in the table, whose caller is not known or that name no
\* ARN are answered at once.
StartAuto(t, e) ==
    /\ At(t, "idle") /\ Receive(e, "tag-on-create")
    /\ LET p == parse_detail(e)
           owner == owner_from_user_identity(p.detail.userIdentity)
           arns == EVENT_EXTRACTORS(p.detail, p.envelope)
       IN IF owner = None \/ arns = {} THEN UNCHANGED <<pc, ctx>>
          ELSE /\ ctx' = [ctx EXCEPT ![t].owner = owner, ![t].left = arns,
                              ![t].region = _region(p.detail, p.envelope)]
               /\ Goto(t, "regions")
    /\ UNCHANGED <<aws, users, actions, scans, edits>>

Regions(t) == {get_region_from_arn(a, ctx[t].region) : a \in ctx[t].left}
InRegion(t, r) == {a \in ctx[t].left : get_region_from_arn(a, ctx[t].region) = r}

FetchRegion(t) ==
    /\ At(t, "regions") /\ ctx[t].left # {}
    /\ \E r \in Regions(t) : ctx' = [ctx EXCEPT ![t] =
            Fetch(InRegion(t, r), [ctx[t] EXCEPT !.left = @ \ InRegion(t, r)])]
    /\ Goto(t, "fetch")
    /\ UNCHANGED <<aws, users, deliveries, actions, bounds>>

\* The Lambda answers 200, whatever failed: the event is not delivered again.
EndAuto(t) ==
    /\ At(t, "regions") /\ ctx[t].left = {}
    /\ Return(t)
    /\ UNCHANGED <<aws, users, deliveries, actions, bounds>>

OwnerTag(owner) == [k \in {OWNER_TAG_KEY} |-> owner]

\* Mutant: whoever created a resource becomes its owner.
to_tag_all(c) == c.group

\* Resources that were not found count as having no owner.
to_tag(c) == {a \in c.group : a \in DOMAIN c.found => is_missing_owner_tag(c.found[a])}

DecideTag(t) ==
    /\ t \in Autos /\ Fetched(t)
    /\ IF to_tag(ctx[t]) = {} THEN Goto(t, "regions") /\ UNCHANGED ctx
       ELSE /\ \E set \in normalize(OwnerTag(ctx[t].owner)) :
                  ctx' = [ctx EXCEPT ![t].queue = to_tag(ctx[t]), ![t].set = set]
            /\ Goto(t, "tag")
    /\ UNCHANGED <<aws, users, deliveries, actions, bounds>>

\* tag_untagged_arns, batch by batch; a batch that raises is left behind.
TagBatch(t) ==
    /\ pc[t] \in {"tag", "tagOne"}
    /\ \E batch \in Batches(ctx[t].queue) : \E o \in Outcomes(batch) :
          /\ IF Expected(batch, o) THEN UNCHANGED faults ELSE Fault
          /\ Tagged(o.tagged, ctx[t].set)
          /\ ctx' = [ctx EXCEPT ![t].queue = @ \ batch]
          /\ IF batch # ctx[t].queue THEN UNCHANGED pc
             ELSE Goto(t, IF At(t, "tag") THEN "regions" ELSE "lookup")
    /\ UNCHANGED <<users, deliveries, actions, scans, edits>>

AutoStep(t) ==
    \/ FetchBatch(t) \/ NextAttempt(t) \/ FetchRegion(t) \/ EndAuto(t) \/ DecideTag(t) \/ TagBatch(t)

-----------------------------------------------------------------------------
(***************************************************************************)
(* The discovery scan                                                      *)
(***************************************************************************)
RegionsInUse == {get_region_from_arn(a, DEFAULT_REGION) : a \in Arns}

StartScan(t) ==
    /\ At(t, "idle") /\ Room /\ scans' = scans + 1
    /\ Goto(t, "listRegions")
    /\ UNCHANGED <<aws, users, deliveries, actions, ctx, edits, faults>>

\* The scan covers the default region only when the regions cannot be listed.
get_all_regions(t) ==
    /\ At(t, "listRegions")
    /\ \/ ctx' = [ctx EXCEPT ![t].regions = RegionsInUse] /\ UNCHANGED faults
       \/ Fault /\ ctx' = [ctx EXCEPT ![t].regions = {DEFAULT_REGION}]
    /\ Goto(t, "scan")
    /\ UNCHANGED <<aws, users, deliveries, actions, scans, edits>>

\* The resources of a region that have no owner, among those the tagging API
\* knows.  A listing that fails ends the region.
ScanRegion(t) ==
    /\ At(t, "scan")
    /\ \E r \in ctx[t].regions :
          \/ /\ ctx' = [ctx EXCEPT ![t].regions = @ \ {r},
                   ![t].left = {a \in listed \cap Ownerless : get_region_from_arn(a, DEFAULT_REGION) = r}]
             /\ Goto(t, "lookup") /\ UNCHANGED faults
          \/ Fault /\ ctx' = [ctx EXCEPT ![t].regions = @ \ {r}] /\ UNCHANGED pc
    /\ UNCHANGED <<aws, users, deliveries, actions, scans, edits>>

EndScan(t) ==
    /\ At(t, "scan") /\ ctx[t].regions = {}
    /\ Return(t)
    /\ UNCHANGED <<aws, users, deliveries, actions, bounds>>

\* CloudTrail gives the newest page first; each page is sorted by time, and the
\* first event that looks like a creation and has a known caller decides.
\* CreateTags looks like one too.
lookup_owner_for_resource(a) ==
    LET events == {i \in DOMAIN trail : a \in trail[i].names}
        page(i) == Cardinality({j \in events : j > i}) \div PageSize
        known == {i \in events : owner_from_user_identity(trail[i].userIdentity) # None}
        first == {i \in known : \A j \in known :
                     page(i) < page(j) \/ (page(i) = page(j) /\ i <= j)}
    IN IF first = {} THEN None
       ELSE owner_from_user_identity(trail[CHOOSE i \in first : TRUE].userIdentity)

\* A lookup that fails finds nobody.
Lookup(t) ==
    /\ At(t, "lookup")
    /\ \E a \in ctx[t].left :
          \/ /\ lookup_owner_for_resource(a) # None
             /\ \E set \in normalize(OwnerTag(lookup_owner_for_resource(a))) :
                   ctx' = [ctx EXCEPT ![t].left = @ \ {a}, ![t].queue = {a}, ![t].set = set]
             /\ Goto(t, "tagOne") /\ UNCHANGED faults
          \/ /\ IF lookup_owner_for_resource(a) = None THEN UNCHANGED faults ELSE Fault
             /\ ctx' = [ctx EXCEPT ![t].left = @ \ {a}] /\ UNCHANGED pc
    /\ UNCHANGED <<aws, users, deliveries, actions, scans, edits>>

EndRegion(t) ==
    /\ At(t, "lookup") /\ ctx[t].left = {}
    /\ Goto(t, "scan")
    /\ UNCHANGED <<aws, users, deliveries, actions, ctx, bounds>>

ScanStep(t) == get_all_regions(t) \/ ScanRegion(t) \/ EndScan(t) \/ Lookup(t) \/ EndRegion(t)

-----------------------------------------------------------------------------
(***************************************************************************)
(* The enforcement Lambda, for the same events.  Remediation is in         *)
(* module Remediation; here it is one step, without exemptions.            *)
(***************************************************************************)
StartEnforcer(t, e) ==
    /\ At(t, "idle") /\ Receive(e, "enforcement")
    /\ LET p == parse_detail(e)
           arns == EVENT_EXTRACTORS(p.detail, p.envelope)
       IN IF arns = {} THEN UNCHANGED <<pc, ctx>>
          ELSE /\ ctx' = [ctx EXCEPT ![t] =
                              Fetch(arns, [NoCtx EXCEPT !.region = _region(p.detail, p.envelope)])]
               /\ Goto(t, "fetch")
    /\ UNCHANGED <<aws, users, actions, scans, edits>>

StartEvaluation(t) ==
    /\ t \in Enforcers /\ Fetched(t)
    /\ ctx' = [ctx EXCEPT ![t].left = ctx[t].group]
    /\ Goto(t, "evaluate")
    /\ UNCHANGED <<aws, users, deliveries, actions, bounds>>

\* A resource that was not found is taken to have no tags.
TagsFound(c, a) == IF a \in DOMAIN c.found THEN c.found[a] ELSE NoTags

\* A violation becomes a remediation of the normalized tags, unless one of the
\* same tags is on record.
Evaluate(t) ==
    /\ At(t, "evaluate")
    /\ \E a \in ctx[t].left : \E n \in normalize(TagsFound(ctx[t], a)) :
          IF Compliant(TagsFound(ctx[t], a), n) \/ ~GOVERNANCE_REMEDIATION_ENABLED
                \/ [arn |-> a, set |-> n] \in actions
          THEN ctx' = [ctx EXCEPT ![t].left = @ \ {a}] /\ UNCHANGED pc
          ELSE /\ ctx' = [ctx EXCEPT ![t].left = @ \ {a}, ![t].group = {a}, ![t].set = n]
               /\ Goto(t, "mutate")
    /\ UNCHANGED <<aws, users, deliveries, actions, bounds>>

\* process_sync validates what it is asked to set, as a whole tag set, before
\* it tags.  FAILED and COMPLETED are final; FAILED_RETRYABLE is not.
Mutate(t) ==
    /\ At(t, "mutate")
    /\ LET set == ctx[t].set
           valid == ~GOVERNANCE_STRICT_MODE \/ Compliant(set, set)
           End(status) == ctx' = [ctx EXCEPT ![t].outcome = status]
           Final(status) == /\ End(status)
                            /\ actions' = actions \cup {[arn |-> a, set |-> set] : a \in ctx[t].group}
       IN \/ /\ ~valid \/ set = NoTags
             /\ Final("FAILED") /\ UNCHANGED <<aws, faults>>
          \/ /\ valid /\ set # NoTags
             /\ \E o \in Outcomes(ctx[t].group) :
                   /\ IF Expected(ctx[t].group, o) THEN UNCHANGED faults ELSE Fault
                   /\ Tagged(o.tagged, set)
                   /\ IF o.refused = {} THEN Final("COMPLETED")
                      ELSE Final("FAILED") \/ (End("FAILED_RETRYABLE") /\ UNCHANGED actions)
    /\ Goto(t, "mutated")
    /\ UNCHANGED <<users, deliveries, scans, edits>>

Mutated(t) ==
    /\ At(t, "mutated") /\ Goto(t, "evaluate")
    /\ UNCHANGED <<aws, users, deliveries, actions, ctx, bounds>>

EndEnforcer(t) ==
    /\ At(t, "evaluate") /\ ctx[t].left = {}
    /\ Return(t)
    /\ UNCHANGED <<aws, users, deliveries, actions, bounds>>

EnforcerStep(t) ==
    \/ FetchBatch(t) \/ NextAttempt(t) \/ StartEvaluation(t)
    \/ Evaluate(t) \/ Mutate(t) \/ Mutated(t) \/ EndEnforcer(t)

-----------------------------------------------------------------------------
(***************************************************************************)
(* Tag writes through the application                                      *)
(***************************************************************************)

\* Mutant: strict mode is not looked at.
AcceptedInAnyMode(req, set) ==
    req.arns # {} /\ req.tags # NoTags /\ DOMAIN req.tags \cap Reserved = {}

\* The handler refuses reserved keys and, in strict mode, invalid tags.
Accepted(req, set) ==
    /\ req.arns # {} /\ req.tags # NoTags /\ DOMAIN req.tags \cap Reserved = {}
    /\ GOVERNANCE_STRICT_MODE => ValidWrite(req.tags, set)

\* The caller needs a role that may write, one that may write protected keys if
\* the request names any, and either one that may write every resource or to own
\* them all, which the next steps find out.
Permitted(req) ==
    /\ req.caller # None
    /\ can_write_any_tags(req.caller)
    /\ touched(DOMAIN req.tags) # {} => can_manage_protected_tags(req.caller)

StartWrite(t, req) ==
    /\ At(t, "idle") /\ Room /\ edits' = edits + 1
    /\ Permitted(req)
    /\ \E set \in normalize(req.tags) :
          /\ Accepted(req, set)
          /\ ctx' = [ctx EXCEPT ![t].set = set, ![t].left = req.arns, ![t].region = req.region,
                                ![t].asked = req.arns, ![t].caller = req.caller,
                                ![t].queue = IF can_write_all_resources(req.caller) THEN {} ELSE req.arns]
    /\ Goto(t, IF can_write_all_resources(req.caller) THEN "groups" ELSE "authorize")
    /\ UNCHANGED <<aws, users, deliveries, actions, scans, faults>>

\* Mutant: a resource is judged by the tags it would have after the write.
TagsAfterWrite(c, a) == Written(IF a \in listed THEN tags[a] ELSE NoTags, c.set)

\* A resource is judged by its live tags: none, when AWS does not list it.
current(c, a) == IF a \in listed THEN tags[a] ELSE NoTags

\* Live tags are read by account and region.  If any of the resources is not the
\* caller's, or a read fails, the request ends here.
_group_key(a) == <<a.account, get_region_from_arn(a, DEFAULT_REGION)>>

Judged(c, a) == {is_owner(c.caller, l) : l \in lowered(current(c, a))}

Authorize(t) ==
    /\ At(t, "authorize")
    /\ \E a \in ctx[t].queue :
          LET group == {b \in ctx[t].queue : _group_key(b) = _group_key(a)}
          IN \/ /\ \A b \in group : TRUE \in Judged(ctx[t], b)
                /\ ctx' = [ctx EXCEPT ![t].queue = @ \ group]
                /\ Goto(t, IF group = ctx[t].queue THEN "groups" ELSE "authorize")
                /\ UNCHANGED faults
             \/ /\ (\E b \in group : FALSE \in Judged(ctx[t], b)) /\ UNCHANGED faults
                /\ Return(t)
             \/ Fault /\ Return(t)
    /\ UNCHANGED <<aws, users, deliveries, actions, scans, edits>>

\* The tags of a request to the tag_write Lambda, which only asks that there be
\* some ARN and some tag.
PlainAccepted(req) == req.caller = None /\ req.arns # {} /\ req.tags # NoTags

\* That Lambda (tag_write.py) knows no callers and no rules: it tags what it is
\* asked to, region by region and batch by batch like the handler of api_write.
StartPlainWrite(t, req) ==
    /\ At(t, "idle") /\ Room /\ edits' = edits + 1
    /\ PlainAccepted(req)
    /\ ctx' = [ctx EXCEPT ![t].set = req.tags, ![t].left = req.arns, ![t].region = req.region]
    /\ Goto(t, "groups")
    /\ UNCHANGED <<aws, users, deliveries, actions, scans, faults>>

EndPlainWrite(t) ==
    /\ At(t, "groups") /\ ctx[t].left = {} /\ ctx[t].caller = None
    /\ Return(t)
    /\ UNCHANGED <<aws, users, deliveries, actions, bounds>>

WriteRegion(t) ==
    /\ At(t, "groups") /\ ctx[t].left # {}
    /\ \E r \in Regions(t) :
          ctx' = [ctx EXCEPT ![t].left = @ \ InRegion(t, r), ![t].group = InRegion(t, r),
                             ![t].queue = InRegion(t, r)]
    /\ Goto(t, "write")
    /\ UNCHANGED <<aws, users, deliveries, actions, bounds>>

\* What AWS refuses is collected and the next batch goes out.
WriteBatch(t) ==
    /\ At(t, "write")
    /\ \E batch \in Batches(ctx[t].queue) : \E o \in Outcomes(batch) :
          /\ IF Expected(batch, o) THEN UNCHANGED faults ELSE Fault
          /\ Tagged(o.tagged, ctx[t].set)
          /\ ctx' = [ctx EXCEPT ![t].queue = @ \ batch, ![t].done = @ \cup o.tagged,
                                ![t].failed = @ \cup o.refused]
          /\ Goto(t, IF batch = ctx[t].queue THEN "groups" ELSE "write")
    /\ UNCHANGED <<users, deliveries, actions, scans, edits>>

\* Mutant: only the batch that raised counts as failed.
WriteRaisesForBatch(t) ==
    /\ At(t, "write") /\ Fault
    /\ \E batch \in Batches(ctx[t].queue) : \E o \in Outcomes(batch) :
          /\ Tagged(o.tagged, ctx[t].set)
          /\ ctx' = [ctx EXCEPT ![t].queue = {}, ![t].failed = @ \cup batch,
                                ![t].done = @ \cup o.tagged]
    /\ Goto(t, "groups")
    /\ UNCHANGED <<users, deliveries, actions, scans, edits>>

\* A batch that raises, whether or not AWS tagged it, ends the region, all of
\* which counts as failed.
WriteRaises(t) ==
    /\ At(t, "write") /\ Fault
    /\ \E batch \in Batches(ctx[t].queue) : \E o \in Outcomes(batch) :
          /\ Tagged(o.tagged, ctx[t].set)
          /\ ctx' = [ctx EXCEPT ![t].queue = {}, ![t].failed = @ \cup ctx[t].group,
                                ![t].done = @ \cup o.tagged]
    /\ Goto(t, "groups")
    /\ UNCHANGED <<users, deliveries, actions, scans, edits>>

\* One audit row per resource of the request; api_write logs an insert that
\* fails and answers all the same.
AuditWrite(t) ==
    /\ At(t, "groups") /\ ctx[t].left = {} /\ ctx[t].caller # None
    /\ ctx' = [ctx EXCEPT ![t].outcome =
                  [a \in ctx[t].asked |-> IF a \in ctx[t].failed THEN "FAILED" ELSE "SUCCESS"]]
    /\ Goto(t, "audited")
    /\ UNCHANGED <<aws, users, deliveries, actions, bounds>>

EndWrite(t) ==
    /\ At(t, "audited") /\ Return(t)
    /\ UNCHANGED <<aws, users, deliveries, actions, bounds>>

-----------------------------------------------------------------------------
Step ==
    \/ \E c \in story.calls : MakeCall(c)
    \/ \E e \in Editions : Edit(e)
    \/ \E t \in Autos : \/ \E e \in deliveries : StartAuto(t, e)
                        \/ StartScan(t) \/ AutoStep(t) \/ ScanStep(t)
    \/ \E t \in Enforcers : \/ \E e \in deliveries : StartEnforcer(t, e)
                            \/ EnforcerStep(t)
    \/ \E t \in Writers : \/ \E r \in Requests : StartWrite(t, r) \/ StartPlainWrite(t, r)
                          \/ EndPlainWrite(t) \/ Authorize(t) \/ WriteRegion(t) \/ WriteBatch(t) \/ WriteRaises(t)
                          \/ AuditWrite(t) \/ EndWrite(t)

\* The resources that seen collects for an invocation or a request.
Owned(identity) == {a \in listed : \E l \in lowered(tags[a]) : is_owner(identity, l)}
Watched(t) ==
    CASE t \in Writers /\ ctx[t].caller # None -> Owned(ctx[t].caller)
      [] t \in Writers /\ ctx[t].caller = None -> {}
      [] OTHER -> Ownerless

\* seen starts with each of them and grows as tags change.
Observe ==
    seen' = [t \in Threads |-> IF pc'[t] = "idle" THEN {}
                               ELSE Watched(t)' \cup IF pc[t] = "idle" THEN {} ELSE seen[t]]

Next == Step /\ Observe

\* Lambda delivers every event and runs an invocation to its end.
Fairness ==
    /\ \A t \in Autos : WF_vars((AutoStep(t) \/ ScanStep(t)) /\ Observe)
    /\ WF_vars(\E t \in Autos, e \in deliveries : StartAuto(t, e) /\ Observe)

Spec == Init /\ [][Next]_vars /\ Fairness

-----------------------------------------------------------------------------
(***************************************************************************)
(* Properties                                                              *)
(***************************************************************************)
Locations == {"idle", "regions", "fetch", "tag", "tagOne", "listRegions", "scan", "lookup",
              "evaluate", "mutate", "mutated",
              "authorize", "groups", "write", "audited"}

\* Only resources that exist have tags or are listed, no invocation asks for an
\* ARN that nobody mentioned or twice at once, and attempts stay within the
\* configured number.
TypeOK ==
    /\ \A a \in exists : IsTagSet(tags[a]) /\ (tags[a] # NoTags => a \in listed)
    /\ listed \subseteq exists /\ exists \subseteq Arns
    /\ \A t \in Threads :
          /\ pc[t] \in Locations
          /\ ctx[t].attempt \in 0..TAG_LOOKUP_RETRIES
          /\ ctx[t].queue \subseteq Mentioned
          /\ IF At(t, "authorize") THEN ctx[t].queue \subseteq ctx[t].left
             ELSE ctx[t].queue \cap ctx[t].left = {}
          /\ At(t, "fetch") => /\ ctx[t].queue \cap ctx[t].retry = {}
                               /\ ctx[t].queue \cup ctx[t].retry \cup DOMAIN ctx[t].found = ctx[t].group
    /\ {scans, edits, faults} \subseteq Nat /\ scans + edits + faults <= story.room

\* The tag-on-create Lambda puts another owner in the place of one only if the
\* resource had been without owner at some time since the invocation began, or
\* was not found in any of the attempts -- whatever other invocations, scans
\* and users do meanwhile.
OwnerKept ==
    [][\A t \in Autos : \A a \in exists :
          (/\ pc[t] \in {"tag", "tagOne"} /\ ctx'[t].queue # ctx[t].queue
           /\ ~is_missing_owner_tag(tags[a])
           /\ tags'[a][OWNER_TAG_KEY] # tags[a][OWNER_TAG_KEY])
          => a \in seen[t] \/ (At(t, "tag") /\ a \notin DOMAIN ctx[t].found)]_vars

\* An audit row says SUCCESS only if AWS tagged the resource for this request,
\* whichever batch of whichever region was refused or raised.
AuditSuccessIsReal ==
    \A t \in Writers : At(t, "audited") =>
        \A a \in DOMAIN ctx[t].outcome : ctx[t].outcome[a] = "SUCCESS" => a \in ctx[t].done

IsCompliant(ts) == \E n \in normalize(ts) : Compliant(ts, n)
AllCanonical(ts) == \A k \in DOMAIN ts : Canonical(k) = k
NoBlanks(ts) == \A k \in DOMAIN ts : ts[k] \notin Blank

\* In strict mode a write through the application leaves a compliant resource
\* compliant, although only the keys of the write are validated and the rest
\* of its tags may have changed since -- if its keys are canonical and the
\* write blanks nothing.
WriteKeepsCompliance ==
    [][\A t \in Writers : \A a \in exists :
          (/\ GOVERNANCE_STRICT_MODE /\ At(t, "write") /\ ctx[t].caller # None /\ ctx'[t].queue # ctx[t].queue
           /\ IsCompliant(tags[a]) /\ AllCanonical(tags[a]) /\ NoBlanks(ctx[t].set))
          => IsCompliant(tags'[a])]_vars

\* Who may not write every resource changes a resource only if its live tags
\* made it theirs at some time since the request began, whatever the request
\* itself says and whoever changed the owner meanwhile.
OwnersWriteTheirOwn ==
    [][\A t \in Writers : \A a \in exists :
          (/\ At(t, "write") /\ ctx[t].caller # None /\ tags'[a] # tags[a]
           /\ ctx'[t].queue # ctx[t].queue /\ ~can_write_all_resources(ctx[t].caller))
          => a \in seen[t]]_vars

\* Whatever create call of the table succeeds for a known caller, the resources
\* it made have an owner in the end, unless a call failed or users changed the
\* tags in between.
Due == UNION {c.makes : c \in {d \in story.calls : owner_from_user_identity(d.detail.userIdentity) # None}}

OwnedInTheEnd ==
    (exists # {}) ~> (Due \cap Ownerless = {} \/ faults > 0 \/ edits > 0)

\* A resource that violates the schema is remediated (docs/ARCHITECTURE.md:5:
\* the platform uses an event-driven architecture "to detect and remediate
\* non-compliant resources").
ViolationIsRemediated ==
    \A t \in Enforcers :
        (At(t, "mutated") /\ faults = 0) => ctx[t].outcome = "COMPLETED"
=============================================================================
