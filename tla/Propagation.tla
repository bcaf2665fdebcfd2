----------------------------- MODULE Propagation -----------------------------
(***************************************************************************)
(* Tag propagation from parents to children: the check in the background,  *)
(* its stored runs, preview and apply of its findings (propagation.py and  *)
(* the endpoints of src/web/app.py), and the one-parent synchronization    *)
(* of tag_sync.py, while others change the same tags.                      *)
(*                                                                         *)
(* A check reads AWS rule by rule, each in two views; an apply plans from  *)
(* the live tags and then calls AWS child by child.  The protocol of       *)
(* change sets, with undo, is in module ChangeSets.                        *)
(***************************************************************************)
EXTENDS PropagationRules

CONSTANTS
    Stories,     \* what may happen: records [inventory, pairs, tags, rules, edits, asks, room, levels]
    Checkers,    \* threads that run checks
    Users,       \* request threads: fixes and synchronizations
    KeepRuns     \* runs kept by save_run

\* A story tells the resources of each place with their first tags, the parents
\* and children that are looked at, the rules, what others may change, how much
\* may happen, and how many levels of parents there are.
IsStory(s) ==
    /\ IsFiniteSet(DOMAIN s.inventory) /\ s.rules \in Seq(RuleNames)
    /\ \A p \in DOMAIN s.inventory : s.inventory[p] \in Seq(DOMAIN s.tags)
    /\ \A r \in DOMAIN s.tags : IsTagSet(s.tags[r]) /\ r.state # "unknown"
    /\ \A e \in s.edits : IsTagSet(e.tags)
    /\ \A q \in s.pairs : /\ q.place \in DOMAIN s.inventory /\ q.rule \in ToSet(s.rules)
                          /\ IsChild(q.rule, s.inventory[q.place], q.parent, q.child)
    /\ s.asks \in Nat /\ s.room \in Nat /\ s.levels \in Nat
    /\ \E depth \in [DOMAIN s.tags -> 0..s.levels] :
          \A p, c \in DOMAIN s.tags : HandsOn(p, c) => depth[p] < depth[c]

ASSUME PropagationAssumption ==
    /\ Checkers \cap Users = {} /\ KeepRuns \in Nat \ {0} /\ max_tasks \in Nat \ {0}
    /\ None \notin Values
    /\ \A s \in Stories : IsStory(s)

VARIABLES
    story,        \* what may happen in this behaviour
    tags,         \* live tags by resource
    on,           \* keys that groups and services hand on
    running,      \* _running
    last_error,   \* _last_error: whether there is one
    runs,         \* the propagation_runs table, oldest row first
    pc, ctx,      \* where each thread is, and its locals
    asks,         \* requests made
    edits, faults,
    stayed,       \* history: gaps that have been as they are since a thread's check began
    rounds,       \* history: rounds of check and complete fix, and disturbances of them
    calm          \* history: rounds when the last disturbance was over

live == <<tags, on>>
vars == <<story, tags, on, running, last_error, runs, pc, ctx, asks, edits, faults, stayed, rounds, calm>>

Threads == Checkers \cup Users
Places == DOMAIN story.inventory      \* pairs of an account and a region
All == {}                             \* no ids given: every finding
NoCtx == [todo |-> <<>>, first |-> NoTags, findings |-> <<>>, errors |-> {}, parents |-> 0,
          parent |-> NoTags, dry_run |-> FALSE, fix_config |-> TRUE,
          ids |-> All, overwrite |-> FALSE, token |-> NoTags, shown |-> FALSE,
          plan |-> NoTags, left |-> {}, ops |-> {}, round |-> 0]

exists == DOMAIN tags
View == [tags |-> tags, on |-> on]

Init ==
    /\ story \in Stories
    /\ tags = story.tags /\ on = [r \in DOMAIN story.tags |-> {}]
    /\ running = FALSE /\ last_error = FALSE /\ runs = <<>>
    /\ pc = [t \in Threads |-> "idle"] /\ ctx = [t \in Threads |-> NoCtx]
    /\ asks = 0 /\ edits = 0 /\ faults = 0
    /\ stayed = [t \in Threads |-> {}] /\ rounds = 1 /\ calm = 1

At(t, l) == pc[t] = l
Goto(t, l) == pc' = [pc EXCEPT ![t] = l]
Return(t) == Goto(t, "idle") /\ ctx' = [ctx EXCEPT ![t] = NoCtx]
Ask == asks < story.asks /\ asks' = asks + 1
Room == edits + faults < story.room
Fault == Room /\ faults' = faults + 1

-----------------------------------------------------------------------------
(***************************************************************************)
(* check: accounts, regions and rules one after another                    *)
(***************************************************************************)
Tasks(places, rules) ==
    FlattenSeq([i \in DOMAIN SetToSeq(places) |-> [j \in DOMAIN rules |->
        [place |-> SetToSeq(places)[i], rule |-> rules[j]]]])

Task(t) == Head(ctx[t].todo)
Checking(t) == pc[t] \in {"first", "second"} /\ ctx[t].todo # <<>>

ReadFirst(t) ==
    /\ At(t, "first") /\ Checking(t)
    /\ ctx' = [ctx EXCEPT ![t].first = View]
    /\ Goto(t, "second")
    /\ UNCHANGED <<story, live, running, last_error, runs, asks, edits, faults>>

\* parent, of a synchronization, limits the result to one parent.
ReadSecond(t) ==
    /\ At(t, "second")
    /\ LET all == RULES(Task(t).rule, story.inventory[Task(t).place], ctx[t].first, View)
           rels == Where(all, {r \in ToSet(all) : ctx[t].parent \in {NoTags, r.parent}})
       IN ctx' = [ctx EXCEPT ![t].todo = Tail(@), ![t].first = NoTags, ![t].parents = @ + Len(rels),
                             ![t].findings = @ \o findings_for(Task(t).rule, rels)]
    /\ Goto(t, "first")
    /\ UNCHANGED <<story, live, running, last_error, runs, asks, edits, faults>>

\* Mutant: the error is logged only.
RuleFailsUnreported(t) ==
    /\ Checking(t) /\ Fault
    /\ ctx' = [ctx EXCEPT ![t].todo = Tail(@), ![t].first = NoTags]
    /\ Goto(t, "first")
    /\ UNCHANGED <<story, live, running, last_error, runs, asks, edits>>

\* A rule that fails in one place is reported, and the check goes on.
RuleFails(t) ==
    /\ Checking(t) /\ Fault
    /\ ctx' = [ctx EXCEPT ![t].todo = Tail(@), ![t].first = NoTags, ![t].errors = @ \cup {Task(t)}]
    /\ Goto(t, "first")
    /\ UNCHANGED <<story, live, running, last_error, runs, asks, edits>>

-----------------------------------------------------------------------------
(***************************************************************************)
(* The check in the background                                             *)
(***************************************************************************)

\* Mutant: nobody asks whether a check is running.
run_in_background_again(t) ==
    /\ At(t, "idle") /\ Ask
    /\ running' = TRUE /\ last_error' = FALSE
    /\ ctx' = [ctx EXCEPT ![t].todo = Tasks(Places, story.rules), ![t].round = rounds]
    /\ Goto(t, "first")
    /\ UNCHANGED <<story, live, runs, edits, faults>>

\* Under the lock.  When a check is running the answer is "already_running".
run_in_background(t) ==
    /\ At(t, "idle") /\ Ask
    /\ ~running /\ running' = TRUE /\ last_error' = FALSE
    /\ ctx' = [ctx EXCEPT ![t].todo = Tasks(Places, story.rules), ![t].round = rounds]
    /\ Goto(t, "first")
    /\ UNCHANGED <<story, live, runs, edits, faults>>

Newest(rs) == SubSeq(rs, IF Len(rs) > KeepRuns THEN Len(rs) - KeepRuns + 1 ELSE 1, Len(rs))

\* round and stayed are history.
save_run(t) ==
    /\ At(t, "first") /\ ctx[t].todo = <<>>
    /\ runs' = Newest(Append(runs, [findings |-> ctx[t].findings, errors |-> ctx[t].errors,
                                    round |-> ctx[t].round, stayed |-> stayed[t]]))
    /\ Goto(t, "ending")
    /\ UNCHANGED <<story, live, running, last_error, ctx, asks, edits, faults>>

\* A session cannot be had, or the run cannot be stored.
CheckRaises(t) ==
    /\ At(t, "first") /\ Fault
    /\ last_error' = TRUE
    /\ Goto(t, "ending")
    /\ UNCHANGED <<story, live, running, runs, ctx, asks, edits>>

EndCheck(t) ==
    /\ At(t, "ending")
    /\ running' = FALSE /\ Return(t)
    /\ UNCHANGED <<story, live, last_error, runs, asks, edits, faults>>

CheckerStep(t) ==
    ReadFirst(t) \/ ReadSecond(t) \/ RuleFails(t) \/ save_run(t) \/ CheckRaises(t) \/ EndCheck(t)

-----------------------------------------------------------------------------
(***************************************************************************)
(* Fixing what the latest run found                                        *)
(***************************************************************************)
latest_run == runs[Len(runs)]

\* Refused when there is no run, or nothing of it is selected.
_selected_findings(ids) ==
    IF runs = <<>> THEN <<>>
    ELSE Where(latest_run.findings, {f \in ToSet(latest_run.findings) : ids = All \/ f.id \in ids})

Selections ==
    {All} \cup IF runs = <<>> THEN {}
               ELSE {{latest_run.findings[i].id} : i \in DOMAIN latest_run.findings}

PlanFor(fs, overwrite) == build_plan(fix_plan(fs, overwrite), tags, overwrite)
plan_token(plan) == [c \in DOMAIN plan |-> plan[c].changes]

api_propagation_preview(u, ids, overwrite) ==
    /\ At(u, "idle") /\ Ask /\ _selected_findings(ids) # <<>>
    /\ ctx' = [ctx EXCEPT ![u].ids = ids, ![u].overwrite = overwrite, ![u].shown = TRUE,
                  ![u].token = plan_token(PlanFor(_selected_findings(ids), overwrite))]
    /\ Goto(u, "previewed")
    /\ UNCHANGED <<story, live, running, last_error, runs, edits, faults>>

\* The locals of an apply of the findings fs.
Applying(c, fs, overwrite) ==
    LET plan == PlanFor(fs, overwrite)
    IN [c EXCEPT !.plan = plan, !.ops = ops(fs), !.overwrite = overwrite,
                 !.left = {r \in DOMAIN plan : plan[r].valid /\ plan[r].changes # NoTags}]

\* With the token of a preview, nothing is applied when the plan is another by
\* now.  The token covers tags only, not the operations.  Before that, a plan
\* with targets may be refused: the user may not write to them, or they are too
\* many.
StartApply(u, ids, overwrite) ==
    LET fs == _selected_findings(ids)
        next == Applying(ctx[u], fs, overwrite)
    IN /\ \/ At(u, "idle") /\ Ask
          \/ At(u, "previewed") /\ ids = ctx[u].ids /\ overwrite = ctx[u].overwrite /\ UNCHANGED asks
       /\ \/ DOMAIN next.plan # {} /\ Return(u)
          \/ IF fs = <<>> \/ (ctx[u].shown /\ plan_token(next.plan) # ctx[u].token) THEN Return(u)
             ELSE /\ ctx' = [ctx EXCEPT ![u] = [next EXCEPT !.ids = ids, !.round = latest_run.round]]
                  /\ Goto(u, "tag")
       /\ UNCHANGED <<story, live, running, last_error, runs, edits, faults>>

\* The call for one child.  It fails for what is no resource, and may fail
\* otherwise, also after it took effect.
TagChild(u) ==
    /\ At(u, "tag")
    /\ \E r \in ctx[u].left :
          LET Tagged == tags' = [tags EXCEPT ![r] = Written(@, ctx[u].plan[r].changes)] IN
          /\ ctx' = [ctx EXCEPT ![u].left = @ \ {r}]
          /\ \/ r \in exists /\ Tagged /\ UNCHANGED faults
             \/ r \in exists /\ Fault /\ (Tagged \/ UNCHANGED tags)
             \/ r \notin exists /\ UNCHANGED <<tags, faults>>
    /\ UNCHANGED <<story, on, running, last_error, runs, pc, asks, edits>>

\* _asg_apply sets the tags as the check read them, and their flags;
\* _ecs_apply switches propagation on.
DoOp(u) ==
    /\ At(u, "tag") /\ ctx[u].left = {}
    /\ \E op \in ctx[u].ops :
          LET r == op.target IN
          /\ ctx' = [ctx EXCEPT ![u].ops = @ \ {op}]
          /\ \/ /\ tags' = [tags EXCEPT ![r] = Written(@, op.tags)] /\ UNCHANGED faults
                /\ on' = [on EXCEPT ![r] = IF op.op = "asg_propagate" THEN @ \cup DOMAIN op.tags ELSE Keys]
             \/ Fault /\ UNCHANGED live
    /\ UNCHANGED <<story, running, last_error, runs, pc, asks, edits>>

\* The change set is recorded.
EndApply(u) ==
    /\ At(u, "tag") /\ ctx[u].left = {} /\ ctx[u].ops = {}
    /\ Return(u)
    /\ UNCHANGED <<story, live, running, last_error, runs, asks, edits, faults>>

FixStep(u) ==
    \/ \E ids \in Selections, o \in BOOLEAN : api_propagation_preview(u, ids, o)
    \/ \E ids \in Selections \cup {ctx[u].ids}, o \in BOOLEAN : StartApply(u, ids, o)
    \/ TagChild(u) \/ DoOp(u) \/ EndApply(u)

-----------------------------------------------------------------------------
(***************************************************************************)
(* tag_sync: check one parent and fix its children at once                 *)
(***************************************************************************)
propagate(u, place, rule, parent, overwrite, dry_run, fix_config) ==
    /\ At(u, "idle") /\ Ask
    /\ ctx' = [ctx EXCEPT ![u].todo = Tasks({p \in Places : p[2] = place[2]}, <<rule>>),
                  ![u].parent = parent, ![u].overwrite = overwrite,
                  ![u].dry_run = dry_run, ![u].fix_config = fix_config]
    /\ Goto(u, "first")
    /\ UNCHANGED <<story, live, running, last_error, runs, edits, faults>>

\* Nothing is changed when the rule failed anywhere or the parent was not found.
SyncApply(u) ==
    /\ At(u, "first") /\ ctx[u].todo = <<>>
    /\ LET fs == Where(ctx[u].findings, {f \in ToSet(ctx[u].findings) : ctx[u].fix_config \/ ~IsConfig(f)})
       IN IF ctx[u].errors # {} \/ ctx[u].parents = 0 \/ ctx[u].dry_run THEN Return(u)
          ELSE ctx' = [ctx EXCEPT ![u] = Applying(@, fs, ctx[u].overwrite)] /\ Goto(u, "tag")
    /\ UNCHANGED <<story, live, running, last_error, runs, asks, edits, faults>>

SyncRaises(u) ==
    /\ At(u, "first") /\ Fault /\ Return(u)
    /\ UNCHANGED <<story, live, running, last_error, runs, asks, edits>>

SyncStep(u) ==
    \/ \E q \in story.pairs, o, d, c \in BOOLEAN : propagate(u, q.place, q.rule, q.parent, o, d, c)
    \/ ReadFirst(u) \/ ReadSecond(u) \/ RuleFails(u) \/ SyncApply(u) \/ SyncRaises(u)

-----------------------------------------------------------------------------
\* Someone sets a resource's tags elsewhere.
Edit(e) ==
    /\ Room /\ edits' = edits + 1
    /\ tags[e.arn] # e.tags
    /\ tags' = [tags EXCEPT ![e.arn] = e.tags]
    /\ UNCHANGED <<story, on, running, last_error, runs, pc, ctx, asks, faults>>

Step ==
    \/ \E t \in Checkers : run_in_background(t) \/ CheckerStep(t)
    \/ \E u \in Users : FixStep(u) \/ SyncStep(u)
    \/ \E e \in story.edits : Edit(e)

(***************************************************************************)
(* History.  A gap is an inherited tag that a child should carry and does  *)
(* not; which child has which parents is told by the story, apart from the *)
(* rules.                                                                  *)
(***************************************************************************)
Value(r, k) == IF k \in DOMAIN tags[r] THEN tags[r][k] ELSE None
GapsOf(q) == {[pair |-> q, key |-> k, want |-> Value(q.parent, k), have |-> Value(q.child, k)] :
                 k \in {x \in DOMAIN propagated_keys(tags[q.parent]) :
                           Value(q.child, x) # Value(q.parent, x)}}
Gaps == UNION {GapsOf(q) : q \in story.pairs}

\* A round is a check, and then an apply of all that it found without
\* overwriting.  It is disturbed by whatever else writes tags and by a call that
\* fails, unless it is one for what is no resource.
InRound(u) ==
    /\ At(u, "tag") /\ ctx[u].round = rounds
    /\ ctx[u].ids = All /\ ~ctx[u].overwrite

Disturbs ==
    \/ <<edits, faults>>' # <<edits, faults>>
    \/ tags' # tags /\ ~\E u \in Users : InRound(u) /\ ctx'[u].left # ctx[u].left

RoundEnds == \E u \in Users : InRound(u) /\ pc'[u] = "idle"

Observe ==
    /\ stayed' = [t \in Threads |-> CASE t \in Users \/ pc'[t] = "idle" -> {}
                                      [] t \in Checkers /\ pc'[t] # "idle" ->
                                            Gaps' \cap IF pc[t] = "idle" THEN Gaps ELSE stayed[t]]
    /\ rounds' = IF Disturbs \/ RoundEnds THEN rounds + 1 ELSE rounds
    /\ calm' = IF Disturbs THEN rounds + 1 ELSE calm

Next == Step /\ Observe
Spec == Init /\ [][Next]_vars

-----------------------------------------------------------------------------
(***************************************************************************)
(* Properties                                                              *)
(***************************************************************************)

\* At most one check runs in the background, the flag is up exactly while it
\* does, and the table keeps a bounded number of runs.
TypeOK ==
    /\ \A r \in exists : IsTagSet(tags[r]) /\ on[r] \subseteq Keys
    /\ \A t \in Threads : pc[t] \in {"idle", "first", "second", "ending", "previewed", "tag"}
    /\ Cardinality({t \in Checkers : pc[t] # "idle"}) = IF running THEN 1 ELSE 0
    /\ last_error \in BOOLEAN /\ Len(runs) <= KeepRuns
    /\ \A u \in Users : ctx[u].left \subseteq DOMAIN ctx[u].plan

\* A child that lacks a tag of its parent, or has another value, and stays so
\* while a check runs, is in the findings of the check, or the rule is reported
\* to have failed there -- whatever else is edited or fixed between its reads.
Finds(run, g) ==
    \/ [place |-> g.pair.place, rule |-> g.pair.rule] \in run.errors
    \/ \E i \in DOMAIN run.findings :
          LET f == run.findings[i] IN
          /\ f.id = [rule |-> g.pair.rule, parent |-> g.pair.parent, child |-> g.pair.child]
          /\ g.key \in DOMAIN (IF g.have = None THEN f.missing ELSE f.mismatched)

GapsAreFound == \A i \in DOMAIN runs : \A g \in runs[i].stayed : Finds(runs[i], g)

\* What a resource lacks of the tags that others hand on to it.
Lacking(c) ==
    UNION {{[key |-> k, want |-> tags[p][k]] : k \in DOMAIN propagated_keys(tags[p]) \ DOMAIN tags[c]} :
              p \in {x \in exists : HandsOn(x, c)}}

\* What a child lacks is fixed when it is described and when all that it lacks
\* has canonical keys and values that the schema accepts: one that is not
\* accepted keeps the whole plan for the child from being applied.
Fixable(g) ==
    /\ g.have = None /\ g.pair.child.state # "gone"
    /\ \A l \in Lacking(g.pair.child) :
          LET one == [k \in {l.key} |-> l.want] IN Canonical(l.key) = l.key /\ ValidWrite(one, one)

\* Rounds of checking and fixing come to an end: after as many as there are
\* levels of parents, no child lacks an inherited tag that can be fixed,
\* although what one rule fixes is what another one finds only then, and
\* although two parents may disagree and several requests fix at once.
RoundsConverge == rounds - calm >= story.levels => \A g \in Gaps : ~Fixable(g)
=============================================================================
