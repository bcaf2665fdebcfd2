--------------------------- MODULE ProtectedTags ---------------------------
(***************************************************************************)
(* Protected tags (src/src/protected_tags.py): the application records the *)
(* last authorized value of each protected tag, its baseline, in the state *)
(* store; the enforcement Lambda compares "Tag Change on Resource" events   *)
(* with it, and reverts a drifted tag or accepts it on an exempt resource.  *)
(*                                                                         *)
(* Every baseline update is a read and a put of the whole item, by web      *)
(* threads, compliance scans and Lambda invocations that know nothing of    *)
(* each other; events arrive late, out of order and more than once.        *)
(* Resources share no state: the module is about the tags of one.          *)
(***************************************************************************)
EXTENDS Naturals, Sequences, SequencesExt

CONSTANTS
    Keys,       \* protected tag keys, exactly as in the schema
    Values,
    Payloads,   \* the writes an instance considers
    Modes,      \* the drift modes an instance considers
    Writers,    \* web threads that write tags
    Scans,      \* compliance scans; each runs once
    Handlers,   \* concurrent Lambda invocations
    MaxWrites,  \* bound: writes by the app
    MaxEdits,   \* bound: changes outside the app
    MaxFaults   \* bound: failing calls, crashes and duplicates

None == "none"   \* no such tag, no baseline
Keep == "keep"   \* a write leaves the key alone

ASSUME ProtectedTagsAssumption ==
    /\ Writers \cap (Scans \cup Handlers) = {} /\ Scans \cap Handlers = {}
    /\ {None, Keep} \cap Values = {}
    /\ Modes \subseteq {"off", "detect", "revert"}
    /\ MaxWrites \in Nat /\ MaxEdits \in Nat /\ MaxFaults \in Nat

VARIABLES
    mode,      \* DRIFT_ENABLED and DRIFT_AUTO_REVERT
    live,      \* the tags of the resource
    baseline,  \* RES# item, field protected_tags
    events,    \* tag change events on their way, in the order they were raised
    pc, ctx,   \* where each process is, and its locals
    wasLive,   \* history: the values each key had
    calm,      \* history: so far nothing overlapped, failed or came out of order
    writes, edits, faults

vars == <<mode, live, baseline, events, pc, ctx, wasLive, calm, writes, edits, faults>>
bounds == <<writes, edits, faults>>

Procs == Writers \cup Scans \cup Handlers
TagMap == [Keys -> Values \cup {None}]
NoTags == [k \in Keys |-> None]

\* One call sets tags or removes tags.
ASSUME PayloadsAssumption ==
    \A w \in Payloads :
        /\ w \in [Keys -> Values \cup {None, Keep}] /\ \E k \in Keys : w[k] # Keep
        /\ (\A k \in Keys : w[k] # None) \/ (\A k \in Keys : w[k] \in {None, Keep})

NoEvent == [keys |-> {}, tags |-> NoTags, by |-> "app"]
NoCtx == [base |-> NoTags, write |-> NoTags, event |-> NoEvent, drift |-> {}]

Init ==
    /\ mode \in Modes
    /\ live = NoTags /\ baseline = NoTags /\ events = <<>>
    /\ pc = [p \in Procs |-> "idle"] /\ ctx = [p \in Procs |-> NoCtx]
    /\ wasLive = [k \in Keys |-> {}]
    /\ calm = TRUE
    /\ writes = 0 /\ edits = 0 /\ faults = 0

-----------------------------------------------------------------------------
\* Mutant: a write replaces the whole map.
Overwrite(map, w) == [k \in DOMAIN map |-> w[k]]

\* What a map of tags becomes by a write, on AWS and in the store.
Merge(map, w) == [k \in Keys |-> IF w[k] = Keep THEN map[k] ELSE w[k]]

\* AWS changes the tags and raises one event for the keys that did change.
Tag(w, by) ==
    LET changed == {k \in Keys : w[k] \notin {Keep, live[k]}} IN
    /\ live' = Merge(live, w)
    /\ events' = IF changed = {} THEN events
                 ELSE Append(events, [keys |-> changed, tags |-> Merge(live, w), by |-> by])
    /\ wasLive' = [k \in Keys |-> wasLive[k] \cup ({w[k]} \cap Values)]
NoTag == UNCHANGED <<live, events, wasLive>>

Fault == faults < MaxFaults /\ faults' = faults + 1
NoFault == UNCHANGED faults

\* get_baseline: the store swallows errors, so a failing read is "no baseline".
Got(base) ==
    \/ base = baseline /\ NoFault
    \/ base = NoTags /\ Fault

\* _put_baseline: the whole item, and a failing put is only logged.
Put(base) ==
    \/ baseline' = base /\ NoFault
    \/ UNCHANGED baseline /\ Fault

Goto(p, l) == pc' = [pc EXCEPT ![p] = l]
Done(p) == Goto(p, "idle") /\ ctx' = [ctx EXCEPT ![p] = NoCtx]

Alone(p) == \A q \in Procs \ {p} : pc[q] \in {"idle", "done"}
Calm(p) == calm' = (calm /\ faults' = faults /\ Alone(p))

-----------------------------------------------------------------------------
(***************************************************************************)
(* Writes of the app: the AWS call, then record_write.                     *)
(***************************************************************************)

\* Mutant: the baseline is recorded although AWS reported a failure.
AppWriteRecordedAnyway(u, w) ==
    /\ pc[u] = "idle" /\ writes < MaxWrites /\ writes' = writes + 1
    /\ \/ Tag(w, "app") /\ NoFault
       \/ NoTag /\ Fault
    /\ Goto(u, "record")
    /\ ctx' = [ctx EXCEPT ![u].write = w]
    /\ Calm(u)
    /\ UNCHANGED <<mode, baseline, edits>>

\* A call that raises counts as failed, whatever AWS did, and is not recorded.
AppWrite(u, w) ==
    /\ pc[u] = "idle" /\ writes < MaxWrites /\ writes' = writes + 1
    /\ \/ /\ Tag(w, "app") /\ NoFault
          /\ Goto(u, "record")
          /\ ctx' = [ctx EXCEPT ![u].write = w]
       \/ /\ Tag(w, "app") \/ NoTag
          /\ Fault
          /\ UNCHANGED <<pc, ctx>>
    /\ Calm(u)
    /\ UNCHANGED <<mode, baseline, edits>>

RecordGet(u) ==
    /\ pc[u] = "record"
    /\ Goto(u, "recordPut")
    /\ \E base \in {baseline, NoTags} :
          Got(base) /\ ctx' = [ctx EXCEPT ![u].base = base]
    /\ NoTag /\ Calm(u)
    /\ UNCHANGED <<mode, baseline, writes, edits>>

RecordPut(u) ==
    /\ pc[u] = "recordPut"
    /\ Put(Merge(ctx[u].base, ctx[u].write))
    /\ Done(u)
    /\ NoTag /\ Calm(u)
    /\ UNCHANGED <<mode, writes, edits>>

-----------------------------------------------------------------------------
(***************************************************************************)
(* seed_baselines, with the tags as the scan saw them.                     *)
(***************************************************************************)

ScanRead(s) ==
    /\ pc[s] = "idle" /\ mode # "off"
    /\ IF live = NoTags THEN Goto(s, "done") /\ UNCHANGED ctx
       ELSE Goto(s, "seed") /\ ctx' = [ctx EXCEPT ![s].write = live]
    /\ NoTag /\ NoFault /\ Calm(s)
    /\ UNCHANGED <<mode, baseline, writes, edits>>

\* The keys the scan saw and the store does not have; often there are none.
Missing(seen, base) == [k \in Keys |-> IF base[k] = None THEN seen[k] ELSE base[k]]

SeedGet(s) ==
    /\ pc[s] = "seed"
    /\ \E base \in {baseline, NoTags} :
          /\ Got(base)
          /\ IF Missing(ctx[s].write, base) = base
               THEN Goto(s, "done") /\ ctx' = [ctx EXCEPT ![s] = NoCtx]
               ELSE Goto(s, "seedPut") /\ ctx' = [ctx EXCEPT ![s].base = base]
    /\ NoTag /\ Calm(s)
    /\ UNCHANGED <<mode, baseline, writes, edits>>

SeedPut(s) ==
    /\ pc[s] = "seedPut"
    /\ Put(Missing(ctx[s].write, ctx[s].base))
    /\ Goto(s, "done") /\ ctx' = [ctx EXCEPT ![s] = NoCtx]
    /\ NoTag /\ Calm(s)
    /\ UNCHANGED <<mode, writes, edits>>

-----------------------------------------------------------------------------
(***************************************************************************)
(* handle_tag_change_event.                                                *)
(***************************************************************************)

\* The changed keys that have no baseline yet.
Learned(e, base) == {k \in e.keys : base[k] = None /\ e.tags[k] # None}

\* Mutant: a removed tag is not drift.
DriftOfPresent(e, base) == {k \in e.keys : None \notin {base[k], e.tags[k]} /\ base[k] # e.tags[k]}

\* The changed keys that differ from their baseline, absent ones included.
Drift(e, base) == {k \in e.keys : base[k] \notin {None, e.tags[k]}}

\* base with the values that e has for keys.
Adopt(base, e, keys) == [k \in Keys |-> IF k \in keys THEN e.tags[k] ELSE base[k]]

\* An event arrives and is compared with the baseline; at-least-once delivery
\* may leave it there to arrive again.
Deliver(h, i, again) ==
    LET e == events[i] IN
    /\ pc[h] = "idle" /\ mode # "off"
    /\ \E base \in {baseline, NoTags} :
          /\ IF again THEN base = baseline /\ Fault ELSE Got(base)
          /\ LET learned == Learned(e, base)
                 drift == Drift(e, base)
             IN IF learned \cup drift = {} THEN UNCHANGED <<pc, ctx>>
                ELSE /\ Goto(h, IF learned # {} THEN "learn" ELSE "judge")
                     /\ ctx' = [ctx EXCEPT ![h] = [NoCtx EXCEPT
                           !.base = Adopt(base, e, learned), !.event = e, !.drift = drift]]
    /\ events' = IF again THEN events ELSE RemoveAt(events, i)
    /\ calm' = (calm /\ i = 1 /\ faults' = faults /\ Alone(h))
    /\ UNCHANGED <<mode, live, baseline, wasLive, writes, edits>>

\* DRIFT_ENABLED=false.
Ignore(i) ==
    /\ mode = "off"
    /\ events' = RemoveAt(events, i)
    /\ UNCHANGED <<mode, live, baseline, pc, ctx, wasLive, calm, writes, edits, faults>>

Learn(h) ==
    /\ pc[h] = "learn"
    /\ Put(ctx[h].base)
    /\ IF ctx[h].drift # {} THEN Goto(h, "judge") /\ UNCHANGED ctx ELSE Done(h)
    /\ NoTag /\ Calm(h)
    /\ UNCHANGED <<mode, writes, edits>>

\* Mutant: no return after the change was accepted.
AcceptAndRevert(h) ==
    /\ pc[h] = "judge" /\ NoFault
    /\ baseline' = Adopt(ctx[h].base, ctx[h].event, ctx[h].drift)
    /\ Tag([k \in Keys |-> IF k \in ctx[h].drift THEN ctx[h].base[k] ELSE Keep], "revert")
    /\ Done(h)
    /\ Calm(h)
    /\ UNCHANGED <<mode, writes, edits>>

\* The resource is exempt: its value becomes the baseline.
Accept(h) ==
    /\ pc[h] = "judge"
    /\ Put(Adopt(ctx[h].base, ctx[h].event, ctx[h].drift))
    /\ Done(h)
    /\ NoTag /\ Calm(h)
    /\ UNCHANGED <<mode, writes, edits>>

Detect(h) ==
    /\ pc[h] = "judge" /\ mode = "detect"
    /\ Done(h)
    /\ NoTag /\ NoFault /\ Calm(h)
    /\ UNCHANGED <<mode, baseline, writes, edits>>

\* Write the baseline back; the call may fail, before or after it took effect.
Revert(h) ==
    LET w == [k \in Keys |-> IF k \in ctx[h].drift THEN ctx[h].base[k] ELSE Keep] IN
    /\ pc[h] = "judge" /\ mode = "revert"
    /\ \/ Tag(w, "revert") /\ NoFault
       \/ (Tag(w, "revert") \/ NoTag) /\ Fault
    /\ Done(h)
    /\ Calm(h)
    /\ UNCHANGED <<mode, baseline, writes, edits>>

-----------------------------------------------------------------------------
\* Somebody changes the tags with other tools.
Edit(w) ==
    /\ edits < MaxEdits /\ edits' = edits + 1
    /\ Tag(w, "outside")
    /\ calm' = (calm /\ \A p \in Procs : pc[p] \in {"idle", "done"})
    /\ UNCHANGED <<mode, baseline, pc, ctx, writes, faults>>

\* The process dies; the event of a Lambda invocation is delivered once more.
Crash(p) ==
    /\ pc[p] \notin {"idle", "done"}
    /\ Fault
    /\ IF p \in Handlers THEN events' = Append(events, ctx[p].event) ELSE UNCHANGED events
    /\ Goto(p, IF p \in Scans THEN "done" ELSE "idle") /\ ctx' = [ctx EXCEPT ![p] = NoCtx]
    /\ calm' = FALSE
    /\ UNCHANGED <<mode, live, baseline, wasLive, writes, edits>>

WriterStep(u) == RecordGet(u) \/ RecordPut(u)
ScanStep(s) == SeedGet(s) \/ SeedPut(s)
HandlerStep(h) ==
    \/ \E i \in DOMAIN events : Deliver(h, i, FALSE)
    \/ Learn(h) \/ Accept(h) \/ Detect(h) \/ Revert(h)

Next ==
    \/ \E u \in Writers, w \in Payloads : AppWrite(u, w)
    \/ \E u \in Writers : WriterStep(u)
    \/ \E s \in Scans : ScanRead(s) \/ ScanStep(s)
    \/ \E h \in Handlers, i \in DOMAIN events : Deliver(h, i, TRUE)
    \/ \E h \in Handlers : HandlerStep(h)
    \/ \E i \in DOMAIN events : Ignore(i)
    \/ \E w \in Payloads : Edit(w)
    \/ \E p \in Procs : Crash(p)

\* Threads and invocations that have begun go on; events arrive in the end.
Fairness ==
    /\ \A u \in Writers : WF_vars(WriterStep(u))
    /\ \A s \in Scans : WF_vars(ScanStep(s))
    /\ \A h \in Handlers : WF_vars(HandlerStep(h))
    /\ WF_vars(\E i \in DOMAIN events : Ignore(i))

Spec == Init /\ [][Next]_vars /\ Fairness

-----------------------------------------------------------------------------
(***************************************************************************)
(* Properties.                                                             *)
(***************************************************************************)

Contexts == [base : TagMap, write : [Keys -> Values \cup {None, Keep}], drift : SUBSET Keys,
             event : [keys : SUBSET Keys, tags : TagMap, by : {"app", "outside", "revert"}]]

\* The variables keep their shape: tags, baselines and events only ever hold
\* values of the instance.
TypeOK ==
    /\ mode \in Modes
    /\ live \in TagMap /\ baseline \in TagMap
    /\ \A i \in DOMAIN events : events[i] \in [keys : SUBSET Keys, tags : TagMap,
                                               by : {"app", "outside", "revert"}]
    /\ pc \in [Procs -> {"idle", "done", "record", "recordPut", "seed", "seedPut", "learn", "judge"}]
    /\ ctx \in [Procs -> Contexts]
    /\ calm \in BOOLEAN

\* No baseline is made up: whatever races, failures and late events there are,
\* it is a value the tag has had on this resource, so a revert can only bring
\* back a value that was there.
BaselineWasLive == \A k \in Keys : baseline[k] # None => baseline[k] \in wasLive[k]

Quiet == events = <<>> /\ \A p \in Procs : pc[p] \in {"idle", "done"}

\* As long as updates do not overlap, nothing fails and events come in order,
\* however late, a protected tag has its baseline value once everything is
\* quiet.
CalmMeansProtected ==
    calm /\ Quiet /\ mode = "revert" =>
        \A k \in Keys : baseline[k] # None => live[k] = baseline[k]

\* Reverts and the events they raise themselves die out, also when concurrent
\* invocations work with different baselines.
RevertsDieOut == <>[]Quiet
=============================================================================
