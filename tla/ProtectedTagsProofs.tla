------------------------- MODULE ProtectedTagsProofs -------------------------
(***************************************************************************)
(* Proofs about ProtectedTags, for any keys, values, writers, scans and    *)
(* Lambda invocations.                                                     *)
(*                                                                         *)
(* The invariant follows every copy of a value: the tags themselves, the   *)
(* baseline, the events on their way, and what each process holds in its   *)
(* locals are all values the tag has had (wasLive), and a process that     *)
(* dies or a put that fails leaves only such copies behind.                *)
(***************************************************************************)
EXTENDS ProtectedTags, TLAPS

Writes == [Keys -> Values \cup {None, Keep}]
Events == [keys : SUBSET Keys, tags : TagMap, by : {"app", "outside", "revert"}]
Pcs == {"idle", "done", "record", "recordPut", "seed", "seedPut", "learn", "judge"}

\* Every value of map is one that its key has had, according to seen.
Had(seen, map) == \A k \in Keys : map[k] \in Values => map[k] \in seen[k]

HadEvents(seen) == {e \in Events : Had(seen, e.tags)}
HadContexts(seen) == {c \in Contexts : Had(seen, c.base) /\ Had(seen, c.write) /\ c.event \in HadEvents(seen)}

Inv ==
    /\ mode \in Modes /\ calm \in BOOLEAN
    /\ pc \in [Procs -> Pcs]
    /\ wasLive \in [Keys -> SUBSET Values]
    /\ live \in TagMap /\ Had(wasLive, live)
    /\ baseline \in TagMap /\ Had(wasLive, baseline)
    /\ events \in Seq(HadEvents(wasLive))
    /\ ctx \in [Procs -> HadContexts(wasLive)]
    /\ \A s \in Scans : ctx[s].write \in TagMap

\* What a step does to the history, and to what a process may hold.
Grown == wasLive' \in [Keys -> SUBSET Values] /\ \A k \in Keys : wasLive[k] \subseteq wasLive'[k]

-----------------------------------------------------------------------------
LEMMA NoneIsNoValue == None \notin Values /\ Keep \notin Values /\ None # Keep
BY ProtectedTagsAssumption DEF None, Keep

LEMMA Apart == \A p \in Writers \cup Handlers : p \notin Scans
BY ProtectedTagsAssumption

LEMMA NoCtxType == ASSUME NEW seen PROVE NoCtx \in HadContexts(seen) /\ NoEvent \in HadEvents(seen)
  <1>1. NoTags \in TagMap /\ Had(seen, NoTags)
    BY NoneIsNoValue DEF NoTags, TagMap, Had
  <1>2. NoTags \in [Keys -> Values \cup {None, Keep}]
    BY DEF NoTags
  <1>3. NoEvent \in HadEvents(seen)
    BY <1>1 DEF NoEvent, HadEvents, Events
  <1>. QED
    BY <1>1, <1>2, <1>3 DEF NoCtx, HadContexts, Contexts, HadEvents, Events

LEMMA HadGrows ==
    ASSUME Grown, NEW map, Had(wasLive, map) PROVE Had(wasLive', map)
BY DEF Grown, Had

LEMMA EventsGrow == ASSUME Grown PROVE HadEvents(wasLive) \subseteq HadEvents(wasLive')
BY HadGrows DEF HadEvents

LEMMA ContextsGrow == ASSUME Grown PROVE HadContexts(wasLive) \subseteq HadContexts(wasLive')
BY HadGrows, EventsGrow DEF HadContexts

LEMMA RemoveAtType ==
    ASSUME NEW S, NEW s \in Seq(S), NEW i \in DOMAIN s
    PROVE  RemoveAt(s, i) \in Seq(S)
  <1>1. Len(s) \in Nat /\ i \in 1 .. Len(s)
    OBVIOUS
  <1>2. SubSeq(s, 1, i - 1) \in Seq(S) /\ SubSeq(s, i + 1, Len(s)) \in Seq(S)
    BY <1>1
  <1>. QED
    BY <1>2 DEF RemoveAt

-----------------------------------------------------------------------------
\* The tags after a write, whoever makes it, and the event it raises.
LEMMA TagStep ==
    ASSUME Inv, NEW w \in Writes, NEW by \in {"app", "outside", "revert"}, Tag(w, by)
    PROVE  /\ Grown /\ live' \in TagMap /\ Had(wasLive', live')
           /\ events' \in Seq(HadEvents(wasLive')) /\ Had(wasLive', w)
  <1>1. wasLive' = [k \in Keys |-> wasLive[k] \cup ({w[k]} \cap Values)] /\ live' = Merge(live, w)
    BY DEF Tag
  <1>2. Grown
    BY <1>1 DEF Inv, Grown
  <1>3. Had(wasLive', w)
    BY <1>1 DEF Had
  <1>4. live' \in TagMap
    BY <1>1 DEF Inv, Merge, TagMap, Writes
  <1>5. Had(wasLive', live')
    BY <1>1, <1>2, <1>3, HadGrows DEF Inv, Had, Merge
  <1>6. events \in Seq(HadEvents(wasLive'))
    BY <1>2, EventsGrow DEF Inv
  <1>7. [keys |-> {k \in Keys : w[k] \notin {Keep, live[k]}}, tags |-> live', by |-> by]
           \in HadEvents(wasLive')
    BY <1>4, <1>5 DEF HadEvents, Events
  <1>8. events' \in Seq(HadEvents(wasLive'))
    BY <1>1, <1>6, <1>7 DEF Tag
  <1>. QED
    BY <1>2, <1>3, <1>4, <1>5, <1>8

LEMMA NoTagStep ==
    ASSUME Inv, NoTag
    PROVE  /\ Grown /\ live' \in TagMap /\ Had(wasLive', live')
           /\ events' \in Seq(HadEvents(wasLive')) /\ wasLive' = wasLive
BY DEF Inv, NoTag, Grown

\* A step of process p: what it puts and what it keeps.
LEMMA ProcStep ==
    ASSUME Inv, Grown, mode' = mode, calm' \in BOOLEAN,
           live' \in TagMap, Had(wasLive', live'), events' \in Seq(HadEvents(wasLive')),
           baseline' \in TagMap, Had(wasLive', baseline'),
           pc' \in [Procs -> Pcs],
           NEW p \in Procs, NEW c \in HadContexts(wasLive'), ctx' = [ctx EXCEPT ![p] = c],
           p \in Scans => c.write \in TagMap
    PROVE  Inv'
  <1>1. ctx' \in [Procs -> HadContexts(wasLive')]
    BY ContextsGrow DEF Inv
  <1>2. \A s \in Scans : ctx'[s].write \in TagMap
    BY DEF Inv, Procs
  <1>. QED
    BY <1>1, <1>2 DEF Inv, Grown

LEMMA CtxFacts ==
    ASSUME Inv, NEW p \in Procs
    PROVE  /\ ctx[p] \in Contexts /\ ctx[p] \in HadContexts(wasLive)
           /\ ctx[p].base \in TagMap /\ Had(wasLive, ctx[p].base)
           /\ ctx[p].write \in Writes /\ Had(wasLive, ctx[p].write)
           /\ ctx[p].event \in Events /\ Had(wasLive, ctx[p].event.tags)
           /\ ctx[p].drift \in SUBSET Keys
           /\ ctx = [ctx EXCEPT ![p] = ctx[p]]
BY DEF Inv, HadContexts, HadEvents, Contexts, Writes, Events

LEMMA PutStep ==
    ASSUME Inv, Grown, NEW map \in TagMap, Had(wasLive, map), Put(map)
    PROVE  baseline' \in TagMap /\ Had(wasLive', baseline')
BY HadGrows DEF Put, Inv

LEMMA Kept ==
    ASSUME Inv, Grown PROVE baseline \in TagMap /\ Had(wasLive', baseline)
BY HadGrows DEF Inv

-----------------------------------------------------------------------------
LEMMA InitInv == Init => Inv
  <1> SUFFICES ASSUME Init PROVE Inv
    OBVIOUS
  <1>1. NoTags \in TagMap /\ Had(wasLive, NoTags)
    BY NoneIsNoValue DEF NoTags, TagMap, Had
  <1>2. NoCtx.write \in TagMap
    BY <1>1 DEF NoCtx
  <1>. QED
    BY <1>1, <1>2, NoCtxType DEF Init, Inv, Pcs, Procs

LEMMA AppWriteInv ==
    ASSUME Inv, NEW u \in Writers, NEW w \in Payloads, AppWrite(u, w) PROVE Inv'
  <1>1. w \in Writes /\ u \in Procs
    BY PayloadsAssumption DEF Writes, Procs
  <1>2. mode' = mode /\ baseline' = baseline /\ calm' \in BOOLEAN
    BY DEF AppWrite, Calm, Inv
  <1>3. CASE Tag(w, "app") /\ Goto(u, "record") /\ ctx' = [ctx EXCEPT ![u].write = w]
    <2>1. Grown /\ Had(wasLive', w) /\ live' \in TagMap /\ Had(wasLive', live')
          /\ events' \in Seq(HadEvents(wasLive'))
      BY <1>1, <1>3, TagStep
    <2>2. [ctx[u] EXCEPT !.write = w] \in HadContexts(wasLive')
      BY <1>1, <2>1, CtxFacts, ContextsGrow DEF HadContexts, Contexts, Writes
    <2>3. ctx' = [ctx EXCEPT ![u] = [ctx[u] EXCEPT !.write = w]]
      BY <1>3
    <2>4. pc' \in [Procs -> Pcs]
      BY <1>3 DEF Goto, Inv, Pcs
    <2>. QED
      BY <1>1, <1>2, <2>1, <2>2, <2>3, <2>4, Kept, Apart, ProcStep
  <1>4. CASE (Tag(w, "app") \/ NoTag) /\ pc' = pc /\ ctx' = ctx
    <2>1. Grown /\ live' \in TagMap /\ Had(wasLive', live') /\ events' \in Seq(HadEvents(wasLive'))
      BY <1>1, <1>4, TagStep, NoTagStep
    <2>2. ctx[u] \in HadContexts(wasLive') /\ ctx' = [ctx EXCEPT ![u] = ctx[u]]
      BY <1>1, <1>4, <2>1, CtxFacts, ContextsGrow
    <2>3. pc' \in [Procs -> Pcs]
      BY <1>4 DEF Inv
    <2>. QED
      BY <1>1, <1>2, <2>1, <2>2, <2>3, Kept, Apart, ProcStep
  <1>. QED
    BY <1>3, <1>4 DEF AppWrite

\* get_baseline returns the baseline, or nothing.
LEMMA GotStep ==
    ASSUME Inv, NEW base, Got(base) PROVE base \in TagMap /\ Had(wasLive, base)
  <1>1. NoTags \in TagMap /\ Had(wasLive, NoTags)
    BY NoneIsNoValue DEF NoTags, TagMap, Had
  <1>. QED
    BY <1>1 DEF Got, Inv

LEMMA RecordGetInv == ASSUME Inv, NEW u \in Writers, RecordGet(u) PROVE Inv'
  <1>1. u \in Procs
    BY DEF Procs
  <1>2. PICK base \in {baseline, NoTags} : Got(base) /\ ctx' = [ctx EXCEPT ![u].base = base]
    BY DEF RecordGet
  <1>3. /\ NoTag /\ mode' = mode /\ baseline' = baseline /\ calm' \in BOOLEAN
        /\ pc' \in [Procs -> Pcs]
    BY DEF RecordGet, Calm, Goto, Inv, Pcs
  <1>4. base \in TagMap /\ Had(wasLive, base)
    BY <1>2, GotStep
  <1>5. [ctx[u] EXCEPT !.base = base] \in HadContexts(wasLive)
    BY <1>1, <1>4, CtxFacts DEF HadContexts, Contexts
  <1>6. ctx' = [ctx EXCEPT ![u] = [ctx[u] EXCEPT !.base = base]]
    BY <1>2
  <1>. QED
    BY <1>1, <1>3, <1>5, <1>6, NoTagStep, Kept, Apart, ProcStep

LEMMA MergeType ==
    ASSUME NEW map \in TagMap, NEW w \in Writes, NEW seen, Had(seen, map), Had(seen, w)
    PROVE  Merge(map, w) \in TagMap /\ Had(seen, Merge(map, w))
BY DEF Merge, TagMap, Writes, Had

LEMMA RecordPutInv == ASSUME Inv, NEW u \in Writers, RecordPut(u) PROVE Inv'
  <1>1. u \in Procs
    BY DEF Procs
  <1>2. /\ Put(Merge(ctx[u].base, ctx[u].write)) /\ NoTag /\ mode' = mode /\ calm' \in BOOLEAN
        /\ pc' \in [Procs -> Pcs] /\ ctx' = [ctx EXCEPT ![u] = NoCtx]
    BY DEF RecordPut, Calm, Done, Goto, Inv, Pcs
  <1>3. Merge(ctx[u].base, ctx[u].write) \in TagMap /\ Had(wasLive, Merge(ctx[u].base, ctx[u].write))
    BY <1>1, CtxFacts, MergeType
  <1>4. baseline' \in TagMap /\ Had(wasLive', baseline')
    BY <1>2, <1>3, NoTagStep, PutStep
  <1>. QED
    BY <1>1, <1>2, <1>4, NoTagStep, NoCtxType, Apart, ProcStep

LEMMA ScanReadInv == ASSUME Inv, NEW s \in Scans, ScanRead(s) PROVE Inv'
  <1>1. s \in Procs
    BY DEF Procs
  <1>2. /\ NoTag /\ mode' = mode /\ baseline' = baseline /\ calm' \in BOOLEAN
        /\ pc' \in [Procs -> Pcs]
    BY DEF ScanRead, Calm, Goto, Inv, Pcs
  <1>3. ctx' = [ctx EXCEPT ![s] = ctx[s]] \/ ctx' = [ctx EXCEPT ![s] = [ctx[s] EXCEPT !.write = live]]
    BY <1>1, CtxFacts DEF ScanRead
  <1>4. live \in Writes /\ Had(wasLive, live)
    BY DEF Inv, TagMap, Writes
  <1>5. [ctx[s] EXCEPT !.write = live] \in HadContexts(wasLive) /\ ctx[s] \in HadContexts(wasLive)
    BY <1>1, <1>4, CtxFacts DEF HadContexts, Contexts, Writes
  <1>6. [ctx[s] EXCEPT !.write = live].write \in TagMap /\ ctx[s].write \in TagMap
    BY <1>1, CtxFacts DEF Inv, Contexts
  <1>. QED
    BY <1>1, <1>2, <1>3, <1>5, <1>6, NoTagStep, Kept, ProcStep

LEMMA SeedGetInv == ASSUME Inv, NEW s \in Scans, SeedGet(s) PROVE Inv'
  <1>1. s \in Procs
    BY DEF Procs
  <1>2. /\ NoTag /\ mode' = mode /\ baseline' = baseline /\ calm' \in BOOLEAN
        /\ pc' \in [Procs -> Pcs]
    BY DEF SeedGet, Calm, Goto, Inv, Pcs
  <1>3. PICK base \in {baseline, NoTags} :
           Got(base) /\ (ctx' = [ctx EXCEPT ![s] = NoCtx] \/ ctx' = [ctx EXCEPT ![s].base = base])
    BY DEF SeedGet
  <1>4. base \in TagMap /\ Had(wasLive, base)
    BY <1>3, GotStep
  <1>5. [ctx[s] EXCEPT !.base = base] \in HadContexts(wasLive) /\ NoCtx \in HadContexts(wasLive)
    BY <1>1, <1>4, CtxFacts, NoCtxType DEF HadContexts, Contexts
  <1>6. ctx' = [ctx EXCEPT ![s] = NoCtx] \/ ctx' = [ctx EXCEPT ![s] = [ctx[s] EXCEPT !.base = base]]
    BY <1>3
  <1>7. [ctx[s] EXCEPT !.base = base].write \in TagMap /\ NoCtx.write \in TagMap
    BY <1>1, CtxFacts DEF Inv, Contexts, NoCtx, NoTags, TagMap
  <1>. QED
    BY <1>1, <1>2, <1>5, <1>6, <1>7, NoTagStep, Kept, ProcStep

\* What a scan saw is a map of tags, so what it seeds is one.
LEMMA MissingType ==
    ASSUME NEW seen \in TagMap, NEW base \in TagMap, NEW h, Had(h, seen), Had(h, base)
    PROVE  Missing(seen, base) \in TagMap /\ Had(h, Missing(seen, base))
BY DEF Missing, TagMap, Had

LEMMA SeedPutInv == ASSUME Inv, NEW s \in Scans, SeedPut(s) PROVE Inv'
  <1>1. s \in Procs
    BY DEF Procs
  <1>2. /\ Put(Missing(ctx[s].write, ctx[s].base)) /\ NoTag /\ mode' = mode /\ calm' \in BOOLEAN
        /\ pc' \in [Procs -> Pcs] /\ ctx' = [ctx EXCEPT ![s] = NoCtx]
    BY DEF SeedPut, Calm, Goto, Inv, Pcs
  <1> DEFINE map == Missing(ctx[s].write, ctx[s].base)
  <1>3. map \in TagMap /\ Had(wasLive, map)
    BY <1>1, CtxFacts, MissingType DEF Inv
  <1>. HIDE DEF map
  <1>4. Put(map)
    BY <1>2 DEF map
  <1>5. baseline' \in TagMap /\ Had(wasLive', baseline')
    BY <1>2, <1>3, <1>4, NoTagStep, PutStep
  <1>6. NoCtx.write \in TagMap
    BY DEF NoCtx, NoTags, TagMap
  <1>. QED
    BY <1>1, <1>2, <1>5, <1>6, NoTagStep, NoCtxType, ProcStep

-----------------------------------------------------------------------------
LEMMA AdoptType ==
    ASSUME NEW base \in TagMap, NEW e \in Events, NEW h, Had(h, base), Had(h, e.tags), NEW keys
    PROVE  Adopt(base, e, keys) \in TagMap /\ Had(h, Adopt(base, e, keys))
BY DEF Adopt, TagMap, Events, Had

LEMMA DeliverInv ==
    ASSUME Inv, NEW h \in Handlers, NEW i \in DOMAIN events, NEW again \in BOOLEAN,
           Deliver(h, i, again)
    PROVE  Inv'
  <1> DEFINE e == events[i]
  <1>1. h \in Procs /\ h \notin Scans
    BY Apart DEF Procs
  <1>2. e \in HadEvents(wasLive) /\ e \in Events /\ Had(wasLive, e.tags)
    BY DEF Inv, HadEvents
  <1>3. PICK base \in {baseline, NoTags} :
           /\ IF again THEN base = baseline /\ Fault ELSE Got(base)
           /\ IF Learned(e, base) \cup Drift(e, base) = {} THEN UNCHANGED <<pc, ctx>>
              ELSE /\ Goto(h, IF Learned(e, base) # {} THEN "learn" ELSE "judge")
                   /\ ctx' = [ctx EXCEPT ![h] = [NoCtx EXCEPT
                         !.base = Adopt(base, e, Learned(e, base)), !.event = e, !.drift = Drift(e, base)]]
    BY DEF Deliver
  <1>4. /\ mode' = mode /\ live' = live /\ baseline' = baseline /\ wasLive' = wasLive
        /\ calm' \in BOOLEAN /\ events' = (IF again THEN events ELSE RemoveAt(events, i))
    BY DEF Deliver, Inv
  <1>5. events' \in Seq(HadEvents(wasLive)) /\ Grown
    BY <1>4, RemoveAtType DEF Inv, Grown
  <1>6. base \in TagMap /\ Had(wasLive, base)
    BY <1>3, GotStep DEF Inv
  <1>. HIDE DEF e
  <1>7. Drift(e, base) \in SUBSET Keys
    BY <1>2 DEF Drift, Events
  <1> DEFINE map == Adopt(base, e, Learned(e, base))
             c == [NoCtx EXCEPT !.base = map, !.event = e, !.drift = Drift(e, base)]
  <1>8. map \in TagMap /\ Had(wasLive, map)
    BY <1>2, <1>6, AdoptType
  <1>. HIDE DEF map
  <1>9. c \in HadContexts(wasLive)
    BY <1>2, <1>7, <1>8, NoCtxType DEF HadContexts, Contexts, Events
  <1>10. CASE pc' = pc /\ ctx' = ctx
    <2>1. ctx[h] \in HadContexts(wasLive') /\ ctx' = [ctx EXCEPT ![h] = ctx[h]] /\ pc' \in [Procs -> Pcs]
      BY <1>1, <1>4, <1>10, CtxFacts DEF Inv
    <2>. QED
      BY <1>1, <1>4, <1>5, <2>1, Kept, ProcStep DEF Inv
  <1>11. CASE /\ Goto(h, "learn") \/ Goto(h, "judge")
              /\ ctx' = [ctx EXCEPT ![h] = c]
    <2>1. pc' \in [Procs -> Pcs]
      BY <1>11 DEF Goto, Inv, Pcs
    <2>2. c \in HadContexts(wasLive') /\ ctx' = [ctx EXCEPT ![h] = c]
      BY <1>4, <1>9, <1>11
    <2>. HIDE DEF c
    <2>. QED
      BY <1>1, <1>4, <1>5, <2>1, <2>2, Kept, ProcStep DEF Inv
  <1>. QED
    BY <1>3, <1>10, <1>11 DEF map

\* A step of an invocation that is at work: it may put, it may tag, and either
\* goes on with the context it has or is done.
LEMMA HandlerEnds ==
    ASSUME Inv, Grown, NEW h \in Handlers, mode' = mode, calm' \in BOOLEAN,
           live' \in TagMap, Had(wasLive', live'), events' \in Seq(HadEvents(wasLive')),
           baseline' \in TagMap, Had(wasLive', baseline'),
           Done(h) \/ (Goto(h, "judge") /\ ctx' = ctx)
    PROVE  Inv'
  <1>1. h \in Procs /\ h \notin Scans
    BY Apart DEF Procs
  <1>2. pc' \in [Procs -> Pcs]
    BY DEF Done, Goto, Inv, Pcs
  <1>3. ctx' = [ctx EXCEPT ![h] = NoCtx] \/ ctx' = [ctx EXCEPT ![h] = ctx[h]]
    BY <1>1, CtxFacts DEF Done
  <1>4. NoCtx \in HadContexts(wasLive') /\ ctx[h] \in HadContexts(wasLive')
    BY <1>1, CtxFacts, NoCtxType, ContextsGrow
  <1>. QED
    BY <1>1, <1>2, <1>3, <1>4, ProcStep

LEMMA LearnInv == ASSUME Inv, NEW h \in Handlers, Learn(h) PROVE Inv'
  <1>1. /\ Put(ctx[h].base) /\ NoTag /\ mode' = mode /\ calm' \in BOOLEAN
        /\ Done(h) \/ (Goto(h, "judge") /\ ctx' = ctx)
    BY DEF Learn, Calm, Inv
  <1>2. ctx[h].base \in TagMap /\ Had(wasLive, ctx[h].base)
    BY CtxFacts DEF Procs
  <1>3. baseline' \in TagMap /\ Had(wasLive', baseline')
    BY <1>1, <1>2, NoTagStep, PutStep
  <1>. QED
    BY <1>1, <1>3, NoTagStep, HandlerEnds

LEMMA AcceptInv == ASSUME Inv, NEW h \in Handlers, Accept(h) PROVE Inv'
  <1> DEFINE map == Adopt(ctx[h].base, ctx[h].event, ctx[h].drift)
  <1>1. Put(map) /\ NoTag /\ mode' = mode /\ calm' \in BOOLEAN /\ Done(h)
    BY DEF Accept, Calm, Inv
  <1>2. map \in TagMap /\ Had(wasLive, map)
    BY CtxFacts, AdoptType DEF Procs
  <1>. HIDE DEF map
  <1>3. baseline' \in TagMap /\ Had(wasLive', baseline')
    BY <1>1, <1>2, NoTagStep, PutStep
  <1>. QED
    BY <1>1, <1>3, NoTagStep, HandlerEnds

LEMMA DetectInv == ASSUME Inv, NEW h \in Handlers, Detect(h) PROVE Inv'
  <1>1. NoTag /\ mode' = mode /\ calm' \in BOOLEAN /\ Done(h) /\ baseline' = baseline
    BY DEF Detect, Calm, Inv
  <1>. QED
    BY <1>1, NoTagStep, Kept, HandlerEnds

LEMMA RevertInv == ASSUME Inv, NEW h \in Handlers, Revert(h) PROVE Inv'
  <1> DEFINE w == [k \in Keys |-> IF k \in ctx[h].drift THEN ctx[h].base[k] ELSE Keep]
  <1>1. /\ Tag(w, "revert") \/ NoTag
        /\ mode' = mode /\ calm' \in BOOLEAN /\ Done(h) /\ baseline' = baseline
    BY DEF Revert, Calm, Inv
  <1>2. w \in Writes
    BY CtxFacts DEF Procs, TagMap, Writes
  <1>. HIDE DEF w
  <1>3. Grown /\ live' \in TagMap /\ Had(wasLive', live') /\ events' \in Seq(HadEvents(wasLive'))
    BY <1>1, <1>2, TagStep, NoTagStep
  <1>. QED
    BY <1>1, <1>3, Kept, HandlerEnds

\* A step that no process takes.
LEMMA OutsideStep ==
    ASSUME Inv, Grown, mode' = mode, calm' \in BOOLEAN, pc' = pc, ctx' = ctx, baseline' = baseline,
           live' \in TagMap, Had(wasLive', live'), events' \in Seq(HadEvents(wasLive'))
    PROVE  Inv'
  <1>1. ctx' \in [Procs -> HadContexts(wasLive')]
    BY ContextsGrow DEF Inv
  <1>. QED
    BY <1>1, Kept DEF Inv, Grown

LEMMA EditInv == ASSUME Inv, NEW w \in Payloads, Edit(w) PROVE Inv'
  <1>1. w \in Writes
    BY PayloadsAssumption DEF Writes
  <1>2. /\ Tag(w, "outside") /\ mode' = mode /\ calm' \in BOOLEAN /\ pc' = pc /\ ctx' = ctx
        /\ baseline' = baseline
    BY DEF Edit, Alone, Inv
  <1>. QED
    BY <1>1, <1>2, TagStep, OutsideStep

LEMMA IgnoreInv == ASSUME Inv, NEW i \in DOMAIN events, Ignore(i) PROVE Inv'
  <1>1. /\ mode' = mode /\ calm' = calm /\ pc' = pc /\ ctx' = ctx /\ baseline' = baseline
        /\ live' = live /\ wasLive' = wasLive /\ events' = RemoveAt(events, i)
    BY DEF Ignore
  <1>2. events' \in Seq(HadEvents(wasLive)) /\ Grown
    BY <1>1, RemoveAtType DEF Inv, Grown
  <1>. QED
    BY <1>1, <1>2, OutsideStep DEF Inv

LEMMA CrashInv == ASSUME Inv, NEW p \in Procs, Crash(p) PROVE Inv'
  <1>1. /\ mode' = mode /\ live' = live /\ baseline' = baseline /\ wasLive' = wasLive /\ calm' = FALSE
        /\ events' = IF p \in Handlers THEN Append(events, ctx[p].event) ELSE events
        /\ ctx' = [ctx EXCEPT ![p] = NoCtx] /\ pc' \in [Procs -> Pcs]
    BY DEF Crash, Goto, Inv, Pcs
  <1>2. Grown
    BY <1>1 DEF Inv, Grown
  <1>3. ctx[p].event \in HadEvents(wasLive)
    BY CtxFacts DEF HadEvents
  <1>4. events' \in Seq(HadEvents(wasLive'))
    BY <1>1, <1>3 DEF Inv
  <1>5. NoCtx.write \in TagMap
    BY DEF NoCtx, NoTags, TagMap
  <1>. QED
    BY <1>1, <1>2, <1>4, <1>5, NoCtxType, Kept, ProcStep DEF Inv

LEMMA NextInv == ASSUME Inv, Next PROVE Inv'
  <1>1. ASSUME NEW h \in Handlers, HandlerStep(h) PROVE Inv'
    BY <1>1, DeliverInv, LearnInv, AcceptInv, DetectInv, RevertInv DEF HandlerStep
  <1>2. ASSUME NEW h \in Handlers, NEW i \in DOMAIN events, Deliver(h, i, TRUE) PROVE Inv'
    BY <1>2, DeliverInv
  <1>3. ASSUME NEW s \in Scans, ScanRead(s) \/ ScanStep(s) PROVE Inv'
    BY <1>3, ScanReadInv, SeedGetInv, SeedPutInv DEF ScanStep
  <1>4. ASSUME NEW u \in Writers, WriterStep(u) PROVE Inv'
    BY <1>4, RecordGetInv, RecordPutInv DEF WriterStep
  <1>. QED
    BY <1>1, <1>2, <1>3, <1>4, AppWriteInv, EditInv, IgnoreInv, CrashInv DEF Next

\* Every copy of a value in the system is one that the tag has had.
THEOREM Invariance == Spec => []Inv
  <1>1. ASSUME Inv, [Next]_vars PROVE Inv'
    <2>1. CASE UNCHANGED vars
      <3>1. /\ NoTag /\ mode' = mode /\ calm' = calm /\ pc' = pc /\ ctx' = ctx
            /\ baseline' = baseline
        BY <2>1 DEF vars, NoTag
      <3>2. calm' \in BOOLEAN
        BY <1>1, <3>1 DEF Inv
      <3>. QED
        BY <1>1, <3>1, <3>2, NoTagStep, OutsideStep
    <2>. QED
      BY <1>1, <2>1, NextInv
  <1>. QED
    BY <1>1, InitInv, PTL DEF Spec

\* Tags, baselines and events only ever hold values that were given.
THEOREM TypeCorrect == Spec => []TypeOK
  <1>1. ASSUME Inv PROVE TypeOK
    <2>1. \A i \in DOMAIN events : events[i] \in Events
      BY <1>1 DEF Inv, HadEvents
    <2>2. ctx \in [Procs -> Contexts]
      BY <1>1 DEF Inv, HadContexts
    <2>. QED
      BY <1>1, <2>1, <2>2 DEF Inv, TypeOK, Events, Pcs
  <1>. QED
    BY <1>1, Invariance, PTL

\* BaselineWasLive: no baseline is made up, so no revert brings back a value
\* that was never there.
THEOREM BaselineWasLiveHolds == Spec => []BaselineWasLive
  <1>1. Inv => BaselineWasLive
    BY DEF Inv, Had, TagMap, BaselineWasLive
  <1>. QED
    BY <1>1, Invariance, PTL

-----------------------------------------------------------------------------
(***************************************************************************)
(* CalmMeansProtected.  While nothing overlaps, fails or overtakes, at most *)
(* one process is at work, the events on their way tell of every change in  *)
(* order, and a tag that is not what its baseline says is either told of by *)
(* an event or about to be mended by the process at work, whose copies of   *)
(* the tags and of the baseline are still true.                            *)
(***************************************************************************)

Busy(p) == pc[p] \notin {"idle", "done"}
Pending(k) == \E j \in DOMAIN events : k \in events[j].keys

\* p has the key in hand: it will record it, learn it, revert it or accept it.
Mends(p, k) ==
    \/ pc[p] \in {"record", "recordPut"} /\ ctx[p].write[k] # Keep
    \/ pc[p] \in {"learn", "judge"} /\ k \in ctx[p].drift

Serial == \A p, q \in Procs : Busy(p) /\ Busy(q) => p = q

\* An event whose value is gone is followed by one that tells so.
InOrder ==
    \A i \in DOMAIN events : \A k \in events[i].keys :
        \/ events[i].tags[k] = live[k]
        \/ \E j \in DOMAIN events : j > i /\ k \in events[j].keys

Watched ==
    \A k \in Keys :
        baseline[k] \in {None, live[k]} \/ Pending(k) \/ \E p \in Procs : Mends(p, k)

\* What the locals of a process at work are still good for.
KnowsWrite(p) ==
    /\ pc[p] \in {"record", "recordPut"} => \A k \in Keys : ctx[p].write[k] \in {Keep, live[k]}
    /\ pc[p] \in {"seed", "seedPut"} => ctx[p].write = live
KnowsBase(p) ==
    /\ pc[p] \in {"recordPut", "seedPut", "judge"} => ctx[p].base = baseline
    /\ pc[p] = "learn" => \A k \in Keys :
          \/ ctx[p].base[k] = baseline[k]
          \/ baseline[k] = None /\ k \in ctx[p].event.keys /\ ctx[p].base[k] = ctx[p].event.tags[k]
KnowsEvent(p) ==
    pc[p] \in {"learn", "judge"} =>
        /\ \A k \in ctx[p].event.keys : ctx[p].event.tags[k] = live[k] \/ Pending(k)
        /\ ctx[p].drift \subseteq ctx[p].event.keys
        /\ \A k \in ctx[p].drift : ctx[p].base[k] # None
Knows(p) == KnowsWrite(p) /\ KnowsBase(p) /\ KnowsEvent(p)

InStep == Serial /\ InOrder /\ Watched /\ \A p \in Procs : Knows(p)
CalmInv == faults \in Nat /\ (calm /\ mode = "revert" => InStep)

-----------------------------------------------------------------------------
\* A process that works alone: the rest of InStep is about it only.
LEMMA AloneStep ==
    ASSUME Inv, NEW p \in Procs, Alone(p), NEW l, Goto(p, l), NEW c, ctx' = [ctx EXCEPT ![p] = c],
           InOrder', Knows(p)',
           \A k \in Keys : baseline'[k] \in {None, live'[k]} \/ Pending(k)' \/ Mends(p, k)'
    PROVE  InStep'
  <1>1. \A q \in Procs \ {p} : pc'[q] \in {"idle", "done"}
    BY DEF Alone, Goto, Inv
  <1>2. Serial'
    BY <1>1 DEF Serial, Busy
  <1>3. \A q \in Procs : Knows(q)'
    <2> SUFFICES ASSUME NEW q \in Procs \ {p} PROVE Knows(q)'
      OBVIOUS
    <2>. QED
      BY <1>1 DEF Knows, KnowsWrite, KnowsBase, KnowsEvent
  <1>4. Watched'
    BY DEF Watched
  <1>. QED
    BY <1>2, <1>3, <1>4 DEF InStep

\* A failure is counted, so a step that stays calm has none.
LEMMA CalmStep ==
    ASSUME faults \in Nat, NEW p, Calm(p), calm' PROVE Alone(p) /\ NoFault /\ ~Fault
  <1>1. Alone(p) /\ faults' = faults
    BY Zenon DEF Calm
  <1>. QED
    BY <1>1 DEF Fault, NoFault

\* What mends the key is the process at work.
LEMMA AloneMends ==
    ASSUME NEW p \in Procs, Alone(p), Watched, NEW k \in Keys
    PROVE  baseline[k] \in {None, live[k]} \/ Pending(k) \/ Mends(p, k)
BY DEF Alone, Watched, Mends

\* A change of the tags raises an event, after all others, that tells of it.
LEMMA TagCalm ==
    ASSUME Inv, InOrder, NEW w \in Writes, NEW by \in {"app", "outside", "revert"}, Tag(w, by)
    PROVE  /\ InOrder'
           /\ \A k \in Keys : /\ live'[k] = IF w[k] = Keep THEN live[k] ELSE w[k]
                              /\ Pending(k) => Pending(k)'
                              /\ live'[k] = live[k] \/ Pending(k)'
  <1> DEFINE changed == {k \in Keys : w[k] \notin {Keep, live[k]}}
             e == [keys |-> changed, tags |-> Merge(live, w), by |-> by]
  <1>1. live' = Merge(live, w) /\ events' = IF changed = {} THEN events ELSE Append(events, e)
    BY DEF Tag
  <1>2. \A k \in Keys : live'[k] = IF w[k] = Keep THEN live[k] ELSE w[k]
    BY <1>1 DEF Merge
  <1>3. \A k \in Keys \ changed : live'[k] = live[k]
    BY <1>2
  <1>4. events \in Seq(HadEvents(wasLive)) /\ \A i \in DOMAIN events : events[i].keys \subseteq Keys
    BY DEF Inv, HadEvents, Events
  <1>5. e.keys = changed /\ e.tags = live'
    BY <1>1
  <1>6. CASE changed = {}
    <2>1. events' = events /\ \A k \in Keys : live'[k] = live[k]
      BY <1>1, <1>3, <1>6
    <2>. QED
      BY <1>2, <1>4, <2>1 DEF InOrder, Pending
  <1>7. CASE changed # {}
    <2>. HIDE DEF changed, e
    <2>1. /\ events' = Append(events, e) /\ Len(events) \in Nat
          /\ DOMAIN events = 1 .. Len(events) /\ DOMAIN events' = 1 .. Len(events) + 1
          /\ events'[Len(events) + 1] = e /\ \A i \in DOMAIN events : events'[i] = events[i]
      BY <1>1, <1>4, <1>7
    <2>2. \A k \in Keys : (Pending(k) => Pending(k)') /\ (k \in changed => Pending(k)')
      BY <1>5, <2>1 DEF Pending
    <2>3. ASSUME NEW i \in DOMAIN events', NEW k \in events'[i].keys
          PROVE  events'[i].tags[k] = live'[k] \/ \E j \in DOMAIN events' : j > i /\ k \in events'[j].keys
      <3>1. CASE i = Len(events) + 1
        BY <1>5, <2>1, <3>1
      <3>2. CASE i \in DOMAIN events /\ k \in changed
        BY <1>5, <2>1, <3>2
      <3>3. CASE i \in DOMAIN events /\ k \notin changed
        <4>1. events'[i] = events[i] /\ k \in Keys /\ live'[k] = live[k]
          BY <1>3, <1>4, <2>1, <3>3
        <4>. QED
          BY <2>1, <3>3, <4>1 DEF InOrder
      <3>. QED
        BY <2>1, <3>1, <3>2, <3>3
    <2>4. InOrder'
      BY <2>3 DEF InOrder
    <2>. QED
      BY <1>2, <1>3, <2>2, <2>4
  <1>. QED
    BY <1>6, <1>7

\* The first event is taken.
LEMMA TakeCalm ==
    ASSUME Inv, InOrder, 1 \in DOMAIN events, live' = live, events' = RemoveAt(events, 1)
    PROVE  /\ InOrder'
           /\ \A k \in Keys : Pending(k) => Pending(k)' \/ k \in events[1].keys
           /\ \A k \in events[1].keys : events[1].tags[k] = live[k] \/ Pending(k)'
  <1>1. events \in Seq(HadEvents(wasLive))
    BY DEF Inv
  <1>2. events' = SubSeq(events, 2, Len(events))
    BY <1>1 DEF RemoveAt
  <1>3. /\ Len(events) \in Nat /\ DOMAIN events = 1 .. Len(events)
        /\ DOMAIN events' = 1 .. Len(events) - 1
        /\ \A j \in 1 .. Len(events) - 1 : events'[j] = events[j + 1]
    BY <1>1, <1>2
  <1>4. \A j \in DOMAIN events : j > 1 => j - 1 \in DOMAIN events' /\ events'[j - 1] = events[j]
    BY <1>3
  <1>5. InOrder'
    <2> SUFFICES ASSUME NEW i \in DOMAIN events', NEW k \in events'[i].keys, events'[i].tags[k] # live'[k]
                 PROVE  \E j \in DOMAIN events' : j > i /\ k \in events'[j].keys
      BY DEF InOrder
    <2>1. i + 1 \in DOMAIN events /\ events[i + 1] = events'[i]
      BY <1>3
    <2>2. PICK j \in DOMAIN events : j > i + 1 /\ k \in events[j].keys
      BY <2>1 DEF InOrder
    <2>. QED
      BY <1>3, <1>4, <2>2
  <1>6. \A k \in Keys : Pending(k) => Pending(k)' \/ k \in events[1].keys
    BY <1>3, <1>4 DEF Pending
  <1>7. ASSUME NEW k \in events[1].keys, events[1].tags[k] # live[k] PROVE Pending(k)'
    <2>1. PICK j \in DOMAIN events : j > 1 /\ k \in events[j].keys
      BY <1>7 DEF InOrder
    <2>. QED
      BY <1>4, <2>1 DEF Pending
  <1>. QED
    BY <1>5, <1>6, <1>7

-----------------------------------------------------------------------------
LEMMA AppWriteCalm ==
    ASSUME Inv, InStep, faults \in Nat, NEW u \in Writers, NEW w \in Payloads, AppWrite(u, w), calm'
    PROVE  InStep'
  <1>1. w \in Writes /\ u \in Procs
    BY PayloadsAssumption DEF Writes, Procs
  <1>2. /\ Alone(u) /\ pc[u] = "idle" /\ Tag(w, "app") /\ Goto(u, "record") /\ baseline' = baseline
        /\ ctx' = [ctx EXCEPT ![u] = [ctx[u] EXCEPT !.write = w]]
    BY CalmStep DEF AppWrite
  <1>3. /\ InOrder'
        /\ \A k \in Keys : /\ live'[k] = IF w[k] = Keep THEN live[k] ELSE w[k]
                           /\ Pending(k) => Pending(k)'
                           /\ live'[k] = live[k] \/ Pending(k)'
    BY <1>1, <1>2, TagCalm DEF InStep
  <1>4. pc'[u] = "record" /\ ctx'[u].write = w
    BY <1>1, <1>2, CtxFacts DEF Goto, Inv, Contexts
  <1>5. Knows(u)'
    BY <1>3, <1>4 DEF Knows, KnowsWrite, KnowsBase, KnowsEvent
  <1>6. \A k \in Keys : baseline'[k] \in {None, live'[k]} \/ Pending(k)' \/ Mends(u, k)'
    BY <1>1, <1>2, <1>3, AloneMends DEF InStep, Mends
  <1>. QED
    BY <1>1, <1>2, <1>3, <1>5, <1>6, AloneStep

LEMMA RecordGetCalm ==
    ASSUME Inv, InStep, faults \in Nat, NEW u \in Writers, RecordGet(u), calm'
    PROVE  InStep'
  <1>1. u \in Procs
    BY DEF Procs
  <1>2. /\ Alone(u) /\ NoTag /\ baseline' = baseline /\ pc[u] = "record" /\ Goto(u, "recordPut")
        /\ ctx' = [ctx EXCEPT ![u] = [ctx[u] EXCEPT !.base = baseline]]
    BY CalmStep DEF RecordGet, Got
  <1>3. pc'[u] = "recordPut" /\ ctx'[u].base = baseline /\ ctx'[u].write = ctx[u].write
    BY <1>1, <1>2, CtxFacts DEF Goto, Inv, Contexts
  <1>4. Knows(u)'
    BY <1>1, <1>2, <1>3 DEF Knows, KnowsWrite, KnowsBase, KnowsEvent, InStep, NoTag
  <1>5. \A k \in Keys : baseline'[k] \in {None, live'[k]} \/ Pending(k)' \/ Mends(u, k)'
    BY <1>1, <1>2, <1>3, AloneMends DEF InStep, Mends, Pending, NoTag
  <1>6. InOrder'
    BY <1>2 DEF InStep, InOrder, NoTag
  <1>. QED
    BY <1>1, <1>2, <1>4, <1>5, <1>6, AloneStep

\* The process has done its part: the rest of InStep is about the tags.
LEMMA AloneEnds ==
    ASSUME Inv, NEW p \in Procs, Alone(p), NEW l \in {"idle", "done"}, Goto(p, l),
           ctx' = [ctx EXCEPT ![p] = NoCtx] \/ ctx' = ctx,
           InOrder', \A k \in Keys : baseline'[k] \in {None, live'[k]} \/ Pending(k)'
    PROVE  InStep'
  <1>1. pc'[p] \in {"idle", "done"}
    BY DEF Goto, Inv
  <1>2. Knows(p)'
    BY <1>1 DEF Knows, KnowsWrite, KnowsBase, KnowsEvent
  <1>3. ctx' = [ctx EXCEPT ![p] = NoCtx] \/ ctx' = [ctx EXCEPT ![p] = ctx[p]]
    BY CtxFacts
  <1>. QED
    BY <1>2, <1>3, AloneStep

LEMMA RecordPutCalm ==
    ASSUME Inv, InStep, faults \in Nat, NEW u \in Writers, RecordPut(u), calm'
    PROVE  InStep'
  <1>1. u \in Procs
    BY DEF Procs
  <1>2. /\ Alone(u) /\ NoTag /\ pc[u] = "recordPut" /\ Goto(u, "idle")
        /\ baseline' = Merge(ctx[u].base, ctx[u].write) /\ ctx' = [ctx EXCEPT ![u] = NoCtx]
    BY CalmStep DEF RecordPut, Put, Done
  <1>3. ctx[u].base = baseline /\ \A k \in Keys : ctx[u].write[k] \in {Keep, live[k]}
    BY <1>1, <1>2 DEF InStep, Knows, KnowsWrite, KnowsBase
  <1>4. \A k \in Keys : baseline'[k] = IF ctx[u].write[k] = Keep THEN baseline[k] ELSE live[k]
    BY <1>2, <1>3 DEF Merge
  <1>5. \A k \in Keys : baseline'[k] \in {None, live'[k]} \/ Pending(k)'
    BY <1>1, <1>2, <1>4, AloneMends DEF InStep, Mends, Pending, NoTag
  <1>6. InOrder'
    BY <1>2 DEF InStep, InOrder, NoTag
  <1>. QED
    BY <1>1, <1>2, <1>5, <1>6, AloneEnds

LEMMA ScanReadCalm ==
    ASSUME Inv, InStep, faults \in Nat, NEW s \in Scans, ScanRead(s), calm'
    PROVE  InStep'
  <1>1. s \in Procs
    BY DEF Procs
  <1>2. Alone(s) /\ NoTag /\ baseline' = baseline /\ pc[s] = "idle"
    BY CalmStep DEF ScanRead
  <1>3. \A k \in Keys : baseline'[k] \in {None, live'[k]} \/ Pending(k)'
    BY <1>1, <1>2, AloneMends DEF InStep, Mends, Pending, NoTag
  <1>4. InOrder'
    BY <1>2 DEF InStep, InOrder, NoTag
  <1>5. CASE Goto(s, "done") /\ ctx' = ctx
    BY <1>1, <1>2, <1>3, <1>4, <1>5, AloneEnds
  <1>6. CASE Goto(s, "seed") /\ ctx' = [ctx EXCEPT ![s].write = live]
    <2>1. ctx' = [ctx EXCEPT ![s] = [ctx[s] EXCEPT !.write = live]]
      BY <1>6
    <2>2. pc'[s] = "seed" /\ ctx'[s].write = live
      BY <1>1, <1>6, <2>1, CtxFacts DEF Goto, Inv, Contexts
    <2>3. Knows(s)'
      BY <1>2, <2>2 DEF Knows, KnowsWrite, KnowsBase, KnowsEvent, NoTag
    <2>. QED
      BY <1>1, <1>2, <1>3, <1>4, <1>6, <2>1, <2>3, AloneStep
  <1>. QED
    BY <1>5, <1>6 DEF ScanRead

LEMMA SeedGetCalm ==
    ASSUME Inv, InStep, faults \in Nat, NEW s \in Scans, SeedGet(s), calm'
    PROVE  InStep'
  <1>1. s \in Procs
    BY DEF Procs
  <1>2. Alone(s) /\ NoTag /\ baseline' = baseline /\ pc[s] = "seed"
    BY CalmStep DEF SeedGet
  <1>3. \A k \in Keys : baseline'[k] \in {None, live'[k]} \/ Pending(k)'
    BY <1>1, <1>2, AloneMends DEF InStep, Mends, Pending, NoTag
  <1>4. InOrder'
    BY <1>2 DEF InStep, InOrder, NoTag
  <1>5. CASE Goto(s, "done") /\ ctx' = [ctx EXCEPT ![s] = NoCtx]
    BY <1>1, <1>2, <1>3, <1>4, <1>5, AloneEnds
  <1>6. CASE Goto(s, "seedPut") /\ ctx' = [ctx EXCEPT ![s].base = baseline]
    <2>1. ctx' = [ctx EXCEPT ![s] = [ctx[s] EXCEPT !.base = baseline]]
      BY <1>6
    <2>2. pc'[s] = "seedPut" /\ ctx'[s].base = baseline /\ ctx'[s].write = ctx[s].write
      BY <1>1, <1>6, <2>1, CtxFacts DEF Goto, Inv, Contexts
    <2>3. Knows(s)'
      BY <1>1, <1>2, <2>2 DEF InStep, Knows, KnowsWrite, KnowsBase, KnowsEvent, NoTag
    <2>. QED
      BY <1>1, <1>2, <1>3, <1>4, <1>6, <2>1, <2>3, AloneStep
  <1>. QED
    BY <1>5, <1>6, CalmStep DEF SeedGet, Got

LEMMA SeedPutCalm ==
    ASSUME Inv, InStep, faults \in Nat, NEW s \in Scans, SeedPut(s), calm'
    PROVE  InStep'
  <1>1. s \in Procs
    BY DEF Procs
  <1>2. /\ Alone(s) /\ NoTag /\ pc[s] = "seedPut" /\ Goto(s, "done")
        /\ baseline' = Missing(ctx[s].write, ctx[s].base) /\ ctx' = [ctx EXCEPT ![s] = NoCtx]
    BY CalmStep DEF SeedPut, Put
  <1>3. ctx[s].base = baseline /\ ctx[s].write = live
    BY <1>1, <1>2 DEF InStep, Knows, KnowsWrite, KnowsBase
  <1>4. \A k \in Keys : baseline'[k] = IF baseline[k] = None THEN live[k] ELSE baseline[k]
    BY <1>2, <1>3 DEF Missing
  <1>5. \A k \in Keys : baseline'[k] \in {None, live'[k]} \/ Pending(k)'
    BY <1>1, <1>2, <1>4, AloneMends DEF InStep, Mends, Pending, NoTag
  <1>6. InOrder'
    BY <1>2 DEF InStep, InOrder, NoTag
  <1>. QED
    BY <1>1, <1>2, <1>5, <1>6, AloneEnds

\* The first event is compared with the baseline: what differs, and what the
\* baseline does not have, is in hand.
LEMMA DeliverCalm ==
    ASSUME Inv, InStep, faults \in Nat, NEW h \in Handlers, NEW i \in DOMAIN events,
           NEW again \in BOOLEAN, Deliver(h, i, again), calm'
    PROVE  InStep'
  <1> DEFINE e == events[1]
             learned == Learned(e, baseline)
             drift == Drift(e, baseline)
             c == [NoCtx EXCEPT !.base = Adopt(baseline, e, learned), !.event = e, !.drift = drift]
  <1>1. h \in Procs
    BY DEF Procs
  <1>2. i = 1 /\ NoFault /\ ~Fault /\ Alone(h)
    <2>1. i = 1 /\ faults' = faults /\ Alone(h)
      BY Zenon DEF Deliver
    <2>. QED
      BY <2>1 DEF Fault, NoFault
  <1>3. /\ pc[h] = "idle" /\ live' = live /\ baseline' = baseline /\ events' = RemoveAt(events, 1)
        /\ 1 \in DOMAIN events
    BY <1>2 DEF Deliver
  <1>4. IF learned \cup drift = {} THEN pc' = pc /\ ctx' = ctx
        ELSE Goto(h, IF learned # {} THEN "learn" ELSE "judge") /\ ctx' = [ctx EXCEPT ![h] = c]
    BY <1>2 DEF Deliver, Got
  <1>5. /\ InOrder'
        /\ \A k \in Keys : Pending(k) => Pending(k)' \/ k \in e.keys
        /\ \A k \in e.keys : e.tags[k] = live[k] \/ Pending(k)'
    BY <1>3, TakeCalm DEF InStep
  <1>6. e \in Events
    BY <1>3 DEF Inv, HadEvents
  <1>. HIDE DEF e
  <1>7. learned \subseteq e.keys /\ drift \subseteq e.keys /\ e.keys \subseteq Keys
    BY <1>6 DEF Learned, Drift, Events
  <1>8. \A k \in Keys : baseline[k] \in {None, live[k]} \/ Pending(k)' \/ k \in drift
    <2> SUFFICES ASSUME NEW k \in Keys, baseline[k] \notin {None, live[k]}, ~Pending(k)', k \notin drift
                 PROVE  FALSE
      OBVIOUS
    <2>1. k \notin e.keys
      BY <1>5 DEF Drift
    <2>. QED
      BY <1>1, <1>2, <1>3, <1>5, <2>1, AloneMends DEF InStep, Mends
  <1>9. \A k \in drift : c.base[k] # None
    BY <1>7 DEF NoCtx, Adopt, Learned, Drift
  <1>10. \A k \in Keys : \/ c.base[k] = baseline[k]
                         \/ baseline[k] = None /\ k \in e.keys /\ c.base[k] = e.tags[k]
    BY DEF NoCtx, Adopt, Learned
  <1>11. learned = {} => c.base = baseline
    BY DEF NoCtx, Adopt, Inv, TagMap
  <1>12. c.event = e /\ c.drift = drift
    BY DEF NoCtx
  <1>. HIDE DEF c
  <1>13. CASE learned \cup drift = {}
    <2>1. Goto(h, "idle") /\ ctx' = ctx
      BY <1>1, <1>3, <1>4, <1>13 DEF Goto, Inv
    <2>. QED
      BY <1>1, <1>2, <1>3, <1>5, <1>8, <1>13, <2>1, AloneEnds
  <1>14. CASE learned # {}
    <2>1. Goto(h, "learn") /\ ctx' = [ctx EXCEPT ![h] = c]
      BY <1>4, <1>14
    <2>2. pc'[h] = "learn" /\ ctx'[h] = c
      BY <1>1, <2>1 DEF Goto, Inv
    <2>3. Knows(h)'
      BY <1>3, <1>5, <1>7, <1>9, <1>10, <1>12, <2>2 DEF Knows, KnowsWrite, KnowsBase, KnowsEvent
    <2>4. \A k \in Keys : baseline'[k] \in {None, live'[k]} \/ Pending(k)' \/ Mends(h, k)'
      BY <1>3, <1>8, <1>12, <2>2 DEF Mends
    <2>. QED
      BY <1>1, <1>2, <1>5, <2>1, <2>3, <2>4, AloneStep
  <1>15. CASE learned = {} /\ drift # {}
    <2>1. Goto(h, "judge") /\ ctx' = [ctx EXCEPT ![h] = c]
      BY <1>4, <1>15
    <2>2. pc'[h] = "judge" /\ ctx'[h] = c
      BY <1>1, <2>1 DEF Goto, Inv
    <2>3. Knows(h)'
      BY <1>3, <1>5, <1>7, <1>9, <1>11, <1>12, <1>15, <2>2 DEF Knows, KnowsWrite, KnowsBase, KnowsEvent
    <2>4. \A k \in Keys : baseline'[k] \in {None, live'[k]} \/ Pending(k)' \/ Mends(h, k)'
      BY <1>3, <1>8, <1>12, <2>2 DEF Mends
    <2>. QED
      BY <1>1, <1>2, <1>5, <2>1, <2>3, <2>4, AloneStep
  <1>. QED
    BY <1>13, <1>14, <1>15

LEMMA LearnCalm ==
    ASSUME Inv, InStep, faults \in Nat, NEW h \in Handlers, Learn(h), calm'
    PROVE  InStep'
  <1>1. h \in Procs
    BY DEF Procs
  <1>2. Alone(h) /\ NoTag /\ pc[h] = "learn" /\ baseline' = ctx[h].base
    BY CalmStep DEF Learn, Put
  <1>3. KnowsBase(h) /\ KnowsEvent(h)
    BY <1>1 DEF InStep, Knows
  <1>4. InOrder' /\ \A k \in Keys : Pending(k)' <=> Pending(k)
    BY <1>2 DEF InStep, InOrder, Pending, NoTag
  <1>5. \A k \in Keys : baseline'[k] \in {None, live'[k]} \/ Pending(k)' \/ k \in ctx[h].drift
    <2> SUFFICES ASSUME NEW k \in Keys, k \notin ctx[h].drift, ~Pending(k)
                 PROVE  baseline'[k] \in {None, live'[k]}
      BY <1>4
    <2>1. baseline[k] \in {None, live[k]}
      BY <1>1, <1>2, AloneMends DEF InStep, Mends
    <2>. QED
      BY <1>2, <1>3, <2>1 DEF KnowsBase, KnowsEvent, NoTag
  <1>6. CASE ctx[h].drift # {}
    <2>1. Goto(h, "judge") /\ ctx' = [ctx EXCEPT ![h] = ctx[h]]
      BY <1>1, <1>6, CtxFacts DEF Learn
    <2>2. pc'[h] = "judge" /\ ctx'[h] = ctx[h]
      BY <1>1, <2>1 DEF Goto, Inv
    <2>3. Knows(h)'
      BY <1>2, <1>3, <1>4, <2>2, CtxFacts, <1>1 DEF Knows, KnowsWrite, KnowsBase, KnowsEvent, NoTag, Events
    <2>4. \A k \in Keys : baseline'[k] \in {None, live'[k]} \/ Pending(k)' \/ Mends(h, k)'
      BY <1>5, <2>2 DEF Mends
    <2>. QED
      BY <1>1, <1>2, <1>4, <2>1, <2>3, <2>4, AloneStep
  <1>7. CASE ctx[h].drift = {}
    <2>1. Goto(h, "idle") /\ ctx' = [ctx EXCEPT ![h] = NoCtx]
      BY <1>7 DEF Learn, Done
    <2>. QED
      BY <1>1, <1>2, <1>4, <1>5, <1>7, <2>1, AloneEnds
  <1>. QED
    BY <1>6, <1>7

LEMMA AcceptCalm ==
    ASSUME Inv, InStep, faults \in Nat, NEW h \in Handlers, Accept(h), calm'
    PROVE  InStep'
  <1>1. h \in Procs
    BY DEF Procs
  <1>2. /\ Alone(h) /\ NoTag /\ pc[h] = "judge" /\ Goto(h, "idle") /\ ctx' = [ctx EXCEPT ![h] = NoCtx]
        /\ baseline' = Adopt(ctx[h].base, ctx[h].event, ctx[h].drift)
    BY CalmStep DEF Accept, Put, Done
  <1>3. ctx[h].base = baseline /\ KnowsEvent(h)
    BY <1>1, <1>2 DEF InStep, Knows, KnowsBase
  <1>4. \A k \in Keys : baseline'[k] = IF k \in ctx[h].drift THEN ctx[h].event.tags[k] ELSE baseline[k]
    BY <1>2, <1>3 DEF Adopt
  <1>5. InOrder' /\ \A k \in Keys : Pending(k)' <=> Pending(k)
    BY <1>2 DEF InStep, InOrder, Pending, NoTag
  <1>6. ASSUME NEW k \in Keys PROVE baseline'[k] \in {None, live'[k]} \/ Pending(k)'
    <2>1. CASE k \in ctx[h].drift
      BY <1>2, <1>3, <1>4, <1>5, <2>1 DEF KnowsEvent, NoTag
    <2>2. CASE k \notin ctx[h].drift
      BY <1>1, <1>2, <1>4, <1>5, <2>2, AloneMends DEF InStep, Mends, NoTag
    <2>. QED
      BY <2>1, <2>2
  <1>. QED
    BY <1>1, <1>2, <1>5, <1>6, AloneEnds

LEMMA RevertCalm ==
    ASSUME Inv, InStep, faults \in Nat, NEW h \in Handlers, Revert(h), calm'
    PROVE  InStep'
  <1> DEFINE w == [k \in Keys |-> IF k \in ctx[h].drift THEN ctx[h].base[k] ELSE Keep]
  <1>1. h \in Procs
    BY DEF Procs
  <1>2. /\ Alone(h) /\ pc[h] = "judge" /\ Tag(w, "revert") /\ baseline' = baseline
        /\ Goto(h, "idle") /\ ctx' = [ctx EXCEPT ![h] = NoCtx]
    BY CalmStep DEF Revert, Done
  <1>3. ctx[h].base = baseline /\ KnowsEvent(h)
    BY <1>1, <1>2 DEF InStep, Knows, KnowsBase
  <1>4. w \in Writes /\ \A k \in Keys : w[k] = IF k \in ctx[h].drift THEN baseline[k] ELSE Keep
    BY <1>1, <1>3, CtxFacts DEF TagMap, Writes
  <1>. HIDE DEF w
  <1>5. /\ InOrder'
        /\ \A k \in Keys : /\ live'[k] = IF w[k] = Keep THEN live[k] ELSE w[k]
                           /\ Pending(k) => Pending(k)'
    BY <1>2, <1>4, TagCalm DEF InStep
  <1>6. ASSUME NEW k \in Keys PROVE baseline'[k] \in {None, live'[k]} \/ Pending(k)'
    <2>1. CASE k \in ctx[h].drift
      <3>1. baseline[k] # Keep
        BY NoneIsNoValue DEF Inv, TagMap
      <3>. QED
        BY <1>2, <1>4, <1>5, <2>1, <3>1
    <2>2. CASE k \notin ctx[h].drift
      BY <1>1, <1>2, <1>4, <1>5, <2>2, AloneMends DEF InStep, Mends
    <2>. QED
      BY <2>1, <2>2
  <1>. QED
    BY <1>1, <1>2, <1>5, <1>6, AloneEnds

\* Nobody is at work while the tags change from outside.
LEMMA EditCalm ==
    ASSUME Inv, InStep, NEW w \in Payloads, Edit(w), calm'
    PROVE  InStep'
  <1>1. w \in Writes
    BY PayloadsAssumption DEF Writes
  <1>2. Tag(w, "outside") /\ baseline' = baseline /\ pc' = pc /\ ctx' = ctx
    BY DEF Edit
  <1>3. \A q \in Procs : pc[q] \in {"idle", "done"}
    BY Zenon DEF Edit
  <1>4. InOrder' /\ \A k \in Keys : /\ Pending(k) => Pending(k)'
                                    /\ live'[k] = live[k] \/ Pending(k)'
    BY <1>1, <1>2, TagCalm DEF InStep
  <1>5. Serial' /\ \A p \in Procs : Knows(p)'
    BY <1>2, <1>3 DEF Serial, Busy, Knows, KnowsWrite, KnowsBase, KnowsEvent
  <1>6. \A k \in Keys : baseline[k] \in {None, live[k]} \/ Pending(k)
    BY <1>3 DEF InStep, Watched, Mends
  <1>7. Watched'
    BY <1>2, <1>4, <1>6 DEF Watched
  <1>. QED
    BY <1>4, <1>5, <1>7 DEF InStep

\* The steps of calm runs; those left out fail, or belong to other modes.
LEMMA NextInStep ==
    ASSUME Inv, InStep, faults \in Nat, Next, calm', mode = "revert"
    PROVE  InStep'
  <1>1. ASSUME NEW h \in Handlers, HandlerStep(h) PROVE InStep'
    <2>1. ~Detect(h)
      BY DEF Detect
    <2>. QED
      BY <1>1, <2>1, DeliverCalm, LearnCalm, AcceptCalm, RevertCalm DEF HandlerStep
  <1>2. ASSUME NEW h \in Handlers, NEW i \in DOMAIN events, Deliver(h, i, TRUE) PROVE InStep'
    <2>1. TRUE \in BOOLEAN
      OBVIOUS
    <2>. QED
      BY <1>2, <2>1, DeliverCalm, Zenon
  <1>3. ASSUME NEW s \in Scans, ScanRead(s) \/ ScanStep(s) PROVE InStep'
    BY <1>3, ScanReadCalm, SeedGetCalm, SeedPutCalm DEF ScanStep
  <1>4. ASSUME NEW u \in Writers, WriterStep(u) PROVE InStep'
    BY <1>4, RecordGetCalm, RecordPutCalm DEF WriterStep
  <1>5. \A i \in DOMAIN events : ~Ignore(i)
    BY DEF Ignore
  <1>6. \A p \in Procs : ~Crash(p)
    BY DEF Crash
  <1>. QED
    BY <1>1, <1>2, <1>3, <1>4, <1>5, <1>6, AppWriteCalm, EditCalm DEF Next

\* Every step counts its failure or has none, and no step turns calm on or
\* changes the mode.
LEMMA NextCounts ==
    ASSUME calm \in BOOLEAN, faults \in Nat, Next
    PROVE  faults' \in Nat /\ (calm' => calm) /\ mode' = mode
  <1> DEFINE Good == mode' = mode /\ faults' \in {faults, faults + 1}
  <1>1. ASSUME NEW u \in Writers, WriterStep(u) \/ \E w \in Payloads : AppWrite(u, w) PROVE Good
    <2>1. CASE WriterStep(u)
      BY <2>1 DEF WriterStep, RecordGet, RecordPut, Got, Put, Fault, NoFault
    <2>2. CASE \E w \in Payloads : AppWrite(u, w)
      BY <2>2 DEF AppWrite, Fault, NoFault
    <2>. QED
      BY <1>1, <2>1, <2>2
  <1>2. ASSUME NEW s \in Scans, ScanRead(s) \/ ScanStep(s) PROVE Good
    BY <1>2 DEF ScanRead, ScanStep, SeedGet, SeedPut, Got, Put, Fault, NoFault
  <1>3. ASSUME NEW h \in Handlers, NEW i \in DOMAIN events, NEW again \in BOOLEAN, Deliver(h, i, again)
        PROVE  Good
    BY <1>3 DEF Deliver, Got, Fault, NoFault
  <1>4. ASSUME NEW h \in Handlers, Learn(h) \/ Accept(h) \/ Detect(h) \/ Revert(h) PROVE Good
    BY <1>4 DEF Learn, Accept, Detect, Revert, Put, Fault, NoFault
  <1>5. ASSUME NEW i \in DOMAIN events, Ignore(i) PROVE Good
    BY <1>5 DEF Ignore
  <1>6. ASSUME NEW w \in Payloads, Edit(w) PROVE Good
    BY <1>6 DEF Edit
  <1>7. ASSUME NEW p \in Procs, Crash(p) PROVE Good
    BY <1>7 DEF Crash, Fault
  <1>. HIDE DEF Good
  <1>8. Good
    BY <1>1, <1>2, <1>3, <1>4, <1>5, <1>6, <1>7 DEF Next, HandlerStep
  <1>9. calm' => calm
    BY Zenon DEF Next, AppWrite, WriterStep, RecordGet, RecordPut, ScanRead, ScanStep, SeedGet,
           SeedPut, HandlerStep, Deliver, Learn, Accept, Detect, Revert, Ignore, Edit, Crash, Calm
  <1>. QED
    BY <1>8, <1>9 DEF Good

LEMMA InitCalm == Init => CalmInv
  <1> SUFFICES ASSUME Init PROVE CalmInv
    OBVIOUS
  <1>1. faults \in Nat /\ DOMAIN events = {} /\ \A p \in Procs : pc[p] = "idle"
    BY DEF Init
  <1>2. \A k \in Keys : baseline[k] = None
    BY DEF Init, NoTags
  <1>. QED
    BY <1>1, <1>2 DEF CalmInv, InStep, Serial, Busy, InOrder, Watched, Knows, KnowsWrite, KnowsBase,
                      KnowsEvent

\* In calm runs every unprotected tag is told of, or in hand.
THEOREM CalmInvariance == Spec => []CalmInv
  <1>1. ASSUME Inv, CalmInv, [Next]_vars PROVE CalmInv'
    <2>1. CASE UNCHANGED vars
      BY <1>1, <2>1 DEF vars, CalmInv, InStep, Serial, Busy, InOrder, Watched, Pending, Mends, Knows,
                        KnowsWrite, KnowsBase, KnowsEvent
    <2>2. CASE Next
      BY <1>1, <2>2, NextCounts, NextInStep DEF CalmInv, Inv
    <2>. QED
      BY <1>1, <2>1, <2>2
  <1>. QED
    BY <1>1, InitCalm, Invariance, PTL DEF Spec

\* CalmMeansProtected: if updates never overlap, nothing fails and events come
\* in order, a protected tag has its baseline value once everything is quiet.
THEOREM CalmMeansProtectedHolds == Spec => []CalmMeansProtected
  <1>1. ASSUME CalmInv PROVE CalmMeansProtected
    <2> SUFFICES ASSUME InStep, Quiet, NEW k \in Keys, baseline[k] # None PROVE live[k] = baseline[k]
      BY <1>1 DEF CalmInv, CalmMeansProtected
    <2>1. ~Pending(k) /\ \A p \in Procs : ~Mends(p, k)
      BY DEF Quiet, Pending, Mends
    <2>. QED
      BY <2>1 DEF InStep, Watched
  <1>. QED
    BY <1>1, CalmInvariance, PTL
=============================================================================
