----------------------------- MODULE ChangeSets -----------------------------
(***************************************************************************)
(* Change sets (src/src/changesets.py): planning tag changes from the live *)
(* tags, applying them in batches, recording them, and undoing a recorded  *)
(* change set, with the configuration operations that src/src/propagation  *)
(* registers.  Request threads interleave with each other and with people  *)
(* who edit the same resources elsewhere; nothing locks a resource between *)
(* the read of its tags and the call that writes them.                     *)
(***************************************************************************)
EXTENDS Naturals, Sequences, FiniteSets

CONSTANTS
    Resources,   \* ARNs
    Keys,        \* tag keys
    Values,      \* tag values
    Allowed,     \* the values the tag policy accepts
    Settings,    \* targets of asg_propagate / ecs_propagate operations
    Requests,    \* the apply requests an instance considers
    Users,       \* request threads
    MaxRows,     \* bound: change sets recorded in one behaviour
    MaxEdits,    \* bound: edits made elsewhere
    MaxFaults    \* bound: failing calls

None == "none"   \* the key is not there / not asked for
Keep == "keep"   \* the key is left alone

ASSUME ChangeSetsAssumption ==
    /\ Allowed \subseteq Values
    /\ {None, Keep} \cap Values = {}
    /\ IsFiniteSet(Users) /\ None \notin Users
    /\ MaxRows \in Nat /\ MaxEdits \in Nat /\ MaxFaults \in Nat

VARIABLES
    tags,      \* the live tags
    setting,   \* the live configuration: "off", "on" (propagating) or "other"
    rows,      \* the change_sets table; the id of a row is its position
    pruned,    \* rows 1..pruned were deleted after CHANGESET_RETENTION_DAYS
    ctx,       \* the locals of each request, and where it is
    touched,   \* history: cells changed by others since the request read them
    edits, faults

vars == <<tags, setting, rows, pruned, ctx, touched, edits, faults>>

TagMap == [Keys -> Values \cup {None}]
NoTags == [k \in Keys |-> None]
Cells == (Resources \X Keys) \cup (Settings \X {"setting"})

\* An item of a change set.  before is what the plan read, after what it asked
\* AWS to write (None: nothing); hit is history, the truth about AWS.
NoItem == [before |-> NoTags, after |-> NoTags, result |-> "NONE",
           conflicts |-> FALSE, hit |-> FALSE]
NoOp == [before |-> "off", result |-> "NONE"]

Idle == [pc |-> "idle", undo_of |-> 0, overwrite |-> FALSE, token |-> <<>>,
         want |-> [r \in Resources |-> NoTags], unread |-> {},
         seen |-> [r \in Resources |-> NoTags],
         goal |-> [r \in Resources |-> [k \in Keys |-> Keep]],
         toSet |-> {}, toRemove |-> {}, toOp |-> {},
         items |-> [r \in Resources |-> NoItem], ops |-> [o \in Settings |-> NoOp]]

Init ==
    /\ tags = [r \in Resources |-> NoTags]
    /\ setting = [o \in Settings |-> "off"]
    /\ rows = <<>> /\ pruned = 0
    /\ ctx = [u \in Users |-> Idle]
    /\ touched = [u \in Users |-> {}]
    /\ edits = 0 /\ faults = 0

Fault == faults < MaxFaults /\ faults' = faults + 1
NoFault == UNCHANGED faults

\* Everybody but u who has read the cells (resources) will find them changed.
Touch(u, cells) ==
    touched' = [v \in Users |->
        IF v = u THEN touched[v]
        ELSE touched[v] \cup {c \in cells : ctx[v].pc # "idle" /\ c[1] \notin ctx[v].unread}]

\* What an apply asks for: wanted tags per resource, whether to overwrite,
\* whether it brings the token of a preview, and the operations.
RequestType == [want : [Resources -> TagMap], overwrite : BOOLEAN, previewed : BOOLEAN,
                ops : SUBSET Settings]

ASSUME RequestsAssumption ==
    \A q \in Requests : q \in RequestType /\ (q.ops # {} \/ \E r \in Resources : q.want[r] # NoTags)

Changed(r, new) == {<<r, k>> : k \in {k \in Keys : new[k] # tags[r][k]}}

-----------------------------------------------------------------------------
(***************************************************************************)
(* build_plan: pure functions of what was asked and what was read.         *)
(***************************************************************************)

\* What a plan changes on one resource; without overwrite an existing value is
\* skipped.
Changes(want, cur, overwrite) ==
    [k \in Keys |-> IF want[k] = cur[k] \/ (cur[k] # None /\ ~overwrite) THEN None ELSE want[k]]

Invalid(want) == \E k \in Keys : want[k] \notin Allowed \cup {None}

PlanItem(want, cur, overwrite) ==
    LET after == Changes(want, cur, overwrite) IN
    [NoItem EXCEPT !.before = [k \in Keys |-> IF after[k] = None THEN None ELSE cur[k]],
                   !.after = after,
                   !.result = CASE want = NoTags  -> "NONE"
                                [] Invalid(want)  -> "INVALID"
                                [] after = NoTags -> "NO_CHANGE"
                                [] OTHER          -> "SUCCESS"]

\* plan_token: it covers the changes, with the values they replace.
plan_token(want, cur, overwrite) ==
    [r \in {q \in Resources : want[q] # NoTags} |->
        LET i == PlanItem(want[r], cur[r], overwrite) IN <<i.before, i.after>>]

\* Mutant: an undo restores keys whatever they hold by now.
MineUnchecked(it, cur) == {k \in DOMAIN cur : it.after[k] # None}

\* What an undo does to one resource of a change set: restore the keys that
\* still hold the written value, leave the others as conflicts.
Mine(it, cur) == {k \in Keys : it.after[k] # None /\ cur[k] = it.after[k]}

UndoItem(it, cur) ==
    LET mine == Mine(it, cur)
        conflicts == \E k \in Keys : it.after[k] # None /\ k \notin mine IN
    IF it.result # "SUCCESS" THEN NoItem
    ELSE [NoItem EXCEPT
            !.before = [k \in Keys |-> IF k \in mine THEN cur[k] ELSE None],
            !.after = [k \in Keys |-> IF k \in mine THEN it.before[k] ELSE None],
            !.conflicts = conflicts,
            !.result = IF mine # {} THEN "SUCCESS" ELSE "CONFLICT"]

\* The value each key of r is to have, for an apply and for an undo.
ApplyGoal(item) ==
    [k \in Keys |-> IF item.result = "SUCCESS" /\ item.after[k] # None THEN item.after[k] ELSE Keep]
UndoGoal(it, cur) ==
    [k \in Keys |-> IF it.result = "SUCCESS" /\ k \in Mine(it, cur) THEN it.before[k] ELSE Keep]

ToSet(goal) == {r \in Resources : \E k \in Keys : goal[r][k] \in Values}
ToRemove(goal) == {r \in Resources : \E k \in Keys : goal[r][k] = None}

-----------------------------------------------------------------------------
(***************************************************************************)
(* A request: start, read the live tags, plan, write, record.              *)
(***************************************************************************)

Active == {u \in Users : ctx[u].pc # "idle"}
Room == Len(rows) + Cardinality(Active) < MaxRows

Respond(u) == /\ ctx' = [ctx EXCEPT ![u] = Idle]
              /\ touched' = [touched EXCEPT ![u] = {}]

\* apply.  The preview the user looked at was computed from the tags of this
\* moment, and the settings to fix are as some propagation check found them.
StartApply(u, q) ==
    /\ ctx[u].pc = "idle" /\ Room
    /\ q.ops \subseteq {o \in Settings : setting[o] = "off"}
    /\ ctx' = [ctx EXCEPT ![u] =
          [Idle EXCEPT !.pc = "read", !.want = q.want, !.overwrite = q.overwrite,
                       !.token = IF q.previewed THEN plan_token(q.want, tags, q.overwrite) ELSE <<>>,
                       !.unread = {r \in Resources : q.want[r] # NoTags},
                       !.ops = [o \in Settings |->
                                   IF o \in q.ops THEN [before |-> setting[o], result |-> "SUCCESS"]
                                   ELSE NoOp],
                       !.toOp = q.ops]]
    /\ touched' = [touched EXCEPT ![u] = {}]
    /\ UNCHANGED <<tags, setting, rows, pruned, edits, faults>>

Exists(c) == c \in pruned + 1 .. Len(rows)

\* Mutant: an undo may be undone.
UndoableTwice(c) == Exists(c) /\ rows[c].undone_by = 0

\* undo: refused unless the change set is neither undone nor an undo itself.
Undoable(c) == Exists(c) /\ rows[c].undone_by = 0 /\ rows[c].undo_of = 0

StartUndo(u, c) ==
    /\ ctx[u].pc = "idle" /\ Room
    /\ Undoable(c)
    /\ ctx' = [ctx EXCEPT ![u] =
          [Idle EXCEPT !.pc = "read", !.undo_of = c,
                       !.unread = {r \in Resources : rows[c].items[r].result = "SUCCESS"},
                       !.items = rows[c].items,
                       !.ops = [o \in Settings |->
                                   IF rows[c].ops[o].result = "SUCCESS" THEN rows[c].ops[o] ELSE NoOp],
                       !.toOp = {o \in Settings : rows[c].ops[o].result = "SUCCESS"}]]
    /\ touched' = [touched EXCEPT ![u] = {}]
    /\ UNCHANGED <<tags, setting, rows, pruned, edits, faults>>

\* fetch_current_tags: resources are read at different moments.
Fetch(u, r) ==
    /\ ctx[u].pc = "read" /\ r \in ctx[u].unread
    /\ ctx' = [ctx EXCEPT ![u].seen[r] = tags[r], ![u].unread = @ \ {r}]
    /\ UNCHANGED <<tags, setting, rows, pruned, touched, edits, faults>>

\* A failing read ends the request before anything is written.
FetchFault(u) ==
    /\ ctx[u].pc = "read" /\ ctx[u].unread # {}
    /\ Fault
    /\ Respond(u)
    /\ UNCHANGED <<tags, setting, rows, pruned, edits>>

\* Mutant: the preview token is not compared.
PreviewIgnored(c) == c.pc = "read"

\* The token, if there is one, is that of the plan just made.
PreviewHolds(c) ==
    c.undo_of = 0 /\ c.token # <<>> => c.token = plan_token(c.want, c.seen, c.overwrite)

\* Everything is read: plan the writes, or find that the plan is no longer the
\* one that was previewed (409 PLAN_CHANGED).
Plan(u) ==
    LET c == ctx[u] IN
    /\ c.pc = "read" /\ c.unread = {}
    /\ \/ /\ ~PreviewHolds(c)
          /\ Respond(u)
       \/ /\ PreviewHolds(c)
          /\ UNCHANGED touched
          /\ LET items == [r \in Resources |->
                              IF c.undo_of = 0 THEN PlanItem(c.want[r], c.seen[r], c.overwrite)
                                               ELSE UndoItem(c.items[r], c.seen[r])]
                 goal == [r \in Resources |->
                              IF c.undo_of = 0 THEN ApplyGoal(items[r])
                                               ELSE UndoGoal(c.items[r], c.seen[r])]
             IN ctx' = [ctx EXCEPT ![u].pc = "write", ![u].items = items, ![u].goal = goal,
                                   ![u].toSet = ToSet(goal), ![u].toRemove = ToRemove(goal)]
    /\ UNCHANGED <<tags, setting, rows, pruned, edits, faults>>

-----------------------------------------------------------------------------
(***************************************************************************)
(* _run_tagging and the operations.                                        *)
(***************************************************************************)

\* The keys of r that a call of the current phase sends.
Payload(u, r, removing) ==
    [k \in Keys |-> IF removing = (ctx[u].goal[r][k] = None) THEN ctx[u].goal[r][k] ELSE Keep]

\* The live tags of r after the call took effect on it.
Written(u, r, removing) ==
    [k \in Keys |-> IF Payload(u, r, removing)[k] = Keep THEN tags[r][k]
                                                         ELSE Payload(u, r, removing)[k]]

\* Mutant: FailedResourcesMap is not looked at.
OutcomeIgnoringFailures(item, failed, hit) ==
    [item EXCEPT !.result = IF failed /\ hit THEN "FAILED" ELSE @, !.hit = @ \/ hit]

\* What a call did to an item of its batch.
Outcome(item, failed, hit) ==
    [item EXCEPT !.result = IF failed THEN "FAILED" ELSE @, !.hit = @ \/ hit]

\* One TagResources or UntagResources call: resources with the same payload (and
\* account and region) go together.  AWS reports some of them as failed; or
\* the call raises, and then all of them count as failed, whatever AWS did.
TagCall(u, batch, removing) ==
    LET todo == IF removing THEN ctx[u].toRemove ELSE ctx[u].toSet IN
    /\ ctx[u].pc = "write"
    /\ removing => ctx[u].toSet = {}
    /\ batch # {} /\ batch \subseteq todo
    /\ \A q, r \in batch : Payload(u, q, removing) = Payload(u, r, removing)
    /\ \E failed, hit \in SUBSET batch :
          /\ \/ failed = {} /\ hit = batch /\ NoFault
             \/ failed # {} /\ hit = batch \ failed /\ Fault
             \/ failed = batch /\ hit # {} /\ Fault
          /\ tags' = [r \in Resources |-> IF r \in hit THEN Written(u, r, removing) ELSE tags[r]]
          /\ Touch(u, UNION {Changed(r, tags'[r]) : r \in hit})
          /\ ctx' = [ctx EXCEPT
                ![u].toSet = IF removing THEN @ ELSE @ \ batch,
                ![u].toRemove = IF removing THEN @ \ batch ELSE @,
                ![u].items = [r \in Resources |->
                    IF r \in batch THEN Outcome(ctx[u].items[r], r \in failed, r \in hit)
                                   ELSE ctx[u].items[r]]]
    /\ UNCHANGED <<setting, rows, pruned, edits>>

\* _asg_apply, _ecs_apply and their undos set the configuration without looking
\* at it; a call that raises may have taken effect.
OpCall(u, o) ==
    LET new == IF ctx[u].undo_of = 0 THEN "on" ELSE ctx[u].ops[o].before IN
    /\ ctx[u].pc = "write" /\ ctx[u].toSet = {} /\ ctx[u].toRemove = {}
    /\ o \in ctx[u].toOp
    /\ \E done, hit \in BOOLEAN :
          /\ IF done THEN hit /\ NoFault ELSE Fault
          /\ setting' = [setting EXCEPT ![o] = IF hit THEN new ELSE @]
          /\ ctx' = [ctx EXCEPT ![u].toOp = @ \ {o},
                                ![u].ops[o].result = IF done THEN @ ELSE "FAILED"]
          /\ Touch(u, IF setting'[o] = setting[o] THEN {} ELSE {<<o, "setting">>})
    /\ UNCHANGED <<tags, rows, pruned, edits>>

-----------------------------------------------------------------------------
(***************************************************************************)
(* _record: one transaction, at the end of the request.                    *)
(***************************************************************************)

Results(items, ops) == {items[r].result : r \in Resources} \cup {ops[o].result : o \in Settings}

\* _status
StatusOf(items, ops) ==
    CASE {"SUCCESS", "FAILED"} \subseteq Results(items, ops) -> "PARTIAL"
      [] "SUCCESS" \in Results(items, ops)                   -> "APPLIED"
      [] "FAILED" \in Results(items, ops)                    -> "FAILED"
      [] OTHER                                               -> "NO_CHANGE"

\* Mutant: an undo with failing calls still counts as a full one.
CleanIgnoringFailures(items, ops) ==
    /\ "CONFLICT" \notin Results(items, ops)
    /\ \A r \in Resources : ~items[r].conflicts

\* An undo with nothing left to do: no conflict, no failure.
Clean(items, ops) ==
    /\ {"CONFLICT", "FAILED"} \cap Results(items, ops) = {}
    /\ \A r \in Resources : ~items[r].conflicts

\* The row is inserted, the row it undoes is marked (if it is still there), and
\* rows older than the retention, the first ones, go.
_record(u) ==
    LET c == ctx[u]
        row == [items |-> c.items, ops |-> c.ops, status |-> StatusOf(c.items, c.ops),
                undo_of |-> c.undo_of, undone_by |-> 0]
        id == Len(rows) + 1
        mark == IF Clean(c.items, c.ops) THEN "UNDONE" ELSE "UNDO_PARTIAL" IN
    /\ c.pc = "write" /\ c.toSet = {} /\ c.toRemove = {} /\ c.toOp = {}
    /\ rows' = Append([i \in DOMAIN rows |->
                          IF i = c.undo_of /\ Exists(i) THEN [rows[i] EXCEPT !.undone_by = id, !.status = mark]
                                           ELSE rows[i]], row)
    /\ \E n \in pruned .. Len(rows) : pruned' = n
    /\ Respond(u)
    /\ UNCHANGED <<tags, setting, edits, faults>>

\* The database is locked: the changes stand and no row says so.
_recordFault(u) ==
    /\ ctx[u].pc = "write" /\ ctx[u].toSet = {} /\ ctx[u].toRemove = {} /\ ctx[u].toOp = {}
    /\ Fault
    /\ Respond(u)
    /\ UNCHANGED <<tags, setting, rows, pruned, edits>>

-----------------------------------------------------------------------------
\* People and other tools edit the same resources; a process may die.
Edit(r, k, v) ==
    /\ edits < MaxEdits /\ edits' = edits + 1
    /\ v # tags[r][k]
    /\ tags' = [tags EXCEPT ![r][k] = v]
    /\ Touch(None, {<<r, k>>})
    /\ UNCHANGED <<setting, rows, pruned, ctx, faults>>

EditSetting(o, v) ==
    /\ edits < MaxEdits /\ edits' = edits + 1
    /\ v # setting[o]
    /\ setting' = [setting EXCEPT ![o] = v]
    /\ Touch(None, {<<o, "setting">>})
    /\ UNCHANGED <<tags, rows, pruned, ctx, faults>>

Crash(u) ==
    /\ u \in Active
    /\ Fault
    /\ Respond(u)
    /\ UNCHANGED <<tags, setting, rows, pruned, edits>>

Next ==
    \/ \E u \in Users, q \in Requests : StartApply(u, q)
    \/ \E u \in Users, c \in 1 .. Len(rows) : StartUndo(u, c)
    \/ \E u \in Users, r \in Resources : Fetch(u, r)
    \/ \E u \in Users, batch \in SUBSET Resources, removing \in BOOLEAN : TagCall(u, batch, removing)
    \/ \E u \in Users, o \in Settings : OpCall(u, o)
    \/ \E u \in Users : FetchFault(u) \/ Plan(u) \/ _record(u) \/ _recordFault(u) \/ Crash(u)
    \/ \E r \in Resources, k \in Keys, v \in Values \cup {None} : Edit(r, k, v)
    \/ \E o \in Settings, v \in {"off", "on", "other"} : EditSetting(o, v)

Spec == Init /\ [][Next]_vars

-----------------------------------------------------------------------------
(***************************************************************************)
(* Properties.                                                             *)
(***************************************************************************)

Items == [before : TagMap, after : TagMap, conflicts : BOOLEAN, hit : BOOLEAN,
          result : {"NONE", "INVALID", "NO_CHANGE", "SUCCESS", "FAILED", "CONFLICT"}]
OpItems == [before : {"off", "on", "other"}, result : {"NONE", "SUCCESS", "FAILED"}]

\* The variables keep their shape; an undo always refers to a recorded row that
\* is not an undo itself.
TypeOK ==
    /\ tags \in [Resources -> TagMap]
    /\ setting \in [Settings -> {"off", "on", "other"}]
    /\ pruned \in 0 .. Len(rows) /\ Len(rows) <= MaxRows
    /\ \A i \in DOMAIN rows :
          /\ rows[i].items \in [Resources -> Items] /\ rows[i].ops \in [Settings -> OpItems]
          /\ rows[i].status \in {"APPLIED", "PARTIAL", "FAILED", "NO_CHANGE", "UNDONE", "UNDO_PARTIAL"}
          /\ rows[i].undone_by \in {0} \cup (i + 1 .. Len(rows))
          /\ rows[i].undo_of \in 0 .. i - 1
    /\ \A u \in Users :
          /\ ctx[u].items \in [Resources -> Items] /\ ctx[u].ops \in [Settings -> OpItems]
          /\ ctx[u].undo_of # 0 => rows[ctx[u].undo_of].undo_of = 0
          /\ touched[u] \subseteq Cells

\* The cells a request is still going to write.
Pending(u, r, k) ==
    \/ r \in ctx[u].toSet /\ ctx[u].goal[r][k] \in Values
    \/ r \in ctx[u].toRemove /\ ctx[u].goal[r][k] = None

\* Unless somebody changed a key in the middle of this very request, an undo
\* writes it only where it still holds what the change set wrote, and an apply
\* overwrites only what its plan says it replaces: without overwrite, nothing.
NoBlindWrite ==
    \A u \in Users, r \in Resources, k \in Keys :
        Pending(u, r, k) /\ <<r, k>> \notin touched[u] =>
            IF ctx[u].undo_of # 0 THEN tags[r][k] = rows[ctx[u].undo_of].items[r].after[k]
            ELSE /\ tags[r][k] = ctx[u].items[r].before[k]
                 /\ ~ctx[u].overwrite => tags[r][k] = None

\* An item recorded as SUCCESS was accepted by AWS, in whatever batch it went:
\* undo relies on it.
SuccessIsReal ==
    \A i \in DOMAIN rows, r \in Resources :
        rows[i].items[r].result = "SUCCESS" => rows[i].items[r].hit

\* A request that carries a preview token writes what was previewed, over the
\* values that were shown, or nothing.
PreviewIsBinding ==
    \A u \in Users : ctx[u].token # <<>> /\ ctx[u].pc = "write" =>
        \A r \in DOMAIN ctx[u].token, k \in Keys :
            ctx[u].goal[r][k] # Keep =>
                /\ ctx[u].goal[r][k] = ctx[u].token[r][2][k]
                /\ tags[r][k] = ctx[u].token[r][1][k] \/ ~Pending(u, r, k) \/ <<r, k>> \in touched[u]

\* A change set is marked UNDONE only when every key it wrote is back to the
\* value it replaced, or was changed by others while the undo ran.
UndoneMeansRestored ==
    \A u \in Users :
        LET c == ctx[u].undo_of IN
        (/\ c # 0 /\ ctx[u].pc = "write"
         /\ ctx[u].toSet = {} /\ ctx[u].toRemove = {} /\ ctx[u].toOp = {}
         /\ Clean(ctx[u].items, ctx[u].ops)) =>
            \A r \in Resources, k \in Keys :
                LET it == rows[c].items[r] IN
                it.result = "SUCCESS" /\ it.after[k] # None =>
                    tags[r][k] = it.before[k] \/ <<r, k>> \in touched[u]
=============================================================================
