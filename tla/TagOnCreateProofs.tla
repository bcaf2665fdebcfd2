-------------------------- MODULE TagOnCreateProofs --------------------------
(***************************************************************************)
(* Proofs about module TagOnCreate, for any stories, any number of         *)
(* invocations and requests, any schema and batch size.                    *)
(*                                                                         *)
(* Every action moves one thread.  What is said of a thread is kept by the *)
(* steps of the others, because it reads nothing but the thread's locals   *)
(* and seen, which only grows until the thread is idle again.              *)
(***************************************************************************)
EXTENDS TagOnCreate, GovernanceRulesProofs

CtxFields == DOMAIN NoCtx

\* Threads have their place and their locals.
ThreadsOK ==
    /\ DOMAIN pc = Threads /\ DOMAIN ctx = Threads /\ DOMAIN seen = Threads
    /\ \A t \in Threads : DOMAIN ctx[t] = CtxFields

\* A step of t: the other threads stay where they are.
Moves(t) ==
    /\ DOMAIN pc' = Threads /\ DOMAIN ctx' = Threads
    /\ DOMAIN ctx'[t] = CtxFields
    /\ \A u \in Threads \ {t} : pc'[u] = pc[u] /\ ctx'[u] = ctx[u]

\* What seen does in every step.
SeenGrows ==
    /\ DOMAIN seen' = Threads
    /\ \A t \in Threads :
          pc'[t] # "idle" =>
              /\ Watched(t)' \subseteq seen'[t]
              /\ pc[t] # "idle" => seen[t] \subseteq seen'[t]

LEMMA ObserveGrows == Observe => SeenGrows
BY DEF Observe, SeenGrows

LEMMA MovesKeeps == ASSUME ThreadsOK, NEW t \in Threads, Moves(t), SeenGrows PROVE ThreadsOK'
BY DEF ThreadsOK, Moves, SeenGrows

LEMMA NoCtxFields ==
    /\ CtxFields = {"owner", "region", "regions", "left", "group", "queue", "retry", "attempt",
                    "found", "set", "failed", "done", "asked", "caller", "outcome"}
    /\ NoCtx.caller = None /\ NoCtx.found = NoTags
BY DEF CtxFields, NoCtx

LEMMA FetchFields ==
    ASSUME NEW arns, NEW c, DOMAIN c = CtxFields
    PROVE  /\ DOMAIN Fetch(arns, c) = CtxFields
           /\ Fetch(arns, c).found = NoTags /\ Fetch(arns, c).left = c.left
BY NoCtxFields DEF Fetch

-----------------------------------------------------------------------------
(***************************************************************************)
(* Every action moves one thread                                           *)
(***************************************************************************)
LEMMA AutoMoves ==
    ASSUME ThreadsOK, NEW t \in Threads,
           \/ \E e \in deliveries : StartAuto(t, e)
           \/ StartScan(t) \/ AutoStep(t) \/ ScanStep(t)
    PROVE  Moves(t)
  <1>1. ASSUME NEW e, StartAuto(t, e) PROVE Moves(t)
    BY <1>1 DEF StartAuto, Goto, ThreadsOK, Moves
  <1>2. CASE FetchBatch(t)
    BY <1>2 DEF FetchBatch, ThreadsOK, Moves
  <1>3. CASE NextAttempt(t)
    BY <1>3 DEF NextAttempt, ThreadsOK, Moves
  <1>4. CASE FetchRegion(t)
    BY <1>4, FetchFields DEF FetchRegion, Goto, ThreadsOK, Moves
  <1>5. CASE EndAuto(t)
    BY <1>5 DEF EndAuto, Return, Goto, ThreadsOK, Moves, CtxFields
  <1>6. CASE DecideTag(t)
    BY <1>6 DEF DecideTag, Goto, ThreadsOK, Moves
  <1>7. CASE TagBatch(t)
    BY <1>7 DEF TagBatch, Goto, ThreadsOK, Moves
  <1>8. CASE StartScan(t)
    BY <1>8 DEF StartScan, Goto, ThreadsOK, Moves
  <1>9. CASE get_all_regions(t)
    BY <1>9 DEF get_all_regions, Goto, ThreadsOK, Moves
  <1>10. CASE ScanRegion(t)
    BY <1>10 DEF ScanRegion, Goto, ThreadsOK, Moves
  <1>11. CASE EndScan(t)
    BY <1>11 DEF EndScan, Return, Goto, ThreadsOK, Moves, CtxFields
  <1>12. CASE Lookup(t)
    BY <1>12 DEF Lookup, Goto, ThreadsOK, Moves
  <1>13. CASE EndRegion(t)
    BY <1>13 DEF EndRegion, Goto, ThreadsOK, Moves
  <1>. QED
    BY <1>1, <1>2, <1>3, <1>4, <1>5, <1>6, <1>7, <1>8, <1>9, <1>10, <1>11, <1>12, <1>13
       DEF AutoStep, ScanStep

LEMMA EnforcerMoves ==
    ASSUME ThreadsOK, NEW t \in Threads,
           (\E e \in deliveries : StartEnforcer(t, e)) \/ EnforcerStep(t)
    PROVE  Moves(t)
  <1>1. ASSUME NEW e, StartEnforcer(t, e) PROVE Moves(t)
    <2>1. \A r : DOMAIN [NoCtx EXCEPT !.region = r] = CtxFields
      BY DEF CtxFields
    <2>. QED
      BY <1>1, <2>1, FetchFields DEF StartEnforcer, Goto, ThreadsOK, Moves
  <1>2. CASE FetchBatch(t)
    BY <1>2 DEF FetchBatch, ThreadsOK, Moves
  <1>3. CASE NextAttempt(t)
    BY <1>3 DEF NextAttempt, ThreadsOK, Moves
  <1>4. CASE StartEvaluation(t)
    BY <1>4 DEF StartEvaluation, Goto, ThreadsOK, Moves
  <1>5. CASE Evaluate(t)
    BY <1>5 DEF Evaluate, Goto, ThreadsOK, Moves
  <1>6. CASE Mutate(t)
    BY <1>6 DEF Mutate, Goto, ThreadsOK, Moves
  <1>7. CASE Mutated(t)
    BY <1>7 DEF Mutated, Goto, ThreadsOK, Moves
  <1>8. CASE EndEnforcer(t)
    BY <1>8 DEF EndEnforcer, Return, Goto, ThreadsOK, Moves, CtxFields
  <1>. QED
    BY <1>1, <1>2, <1>3, <1>4, <1>5, <1>6, <1>7, <1>8 DEF EnforcerStep

WriterStep(t) ==
    \/ \E r \in Requests : StartWrite(t, r) \/ StartPlainWrite(t, r)
    \/ EndPlainWrite(t) \/ Authorize(t) \/ WriteRegion(t) \/ WriteBatch(t) \/ WriteRaises(t)
    \/ AuditWrite(t) \/ EndWrite(t)

LEMMA WriterMoves == ASSUME ThreadsOK, NEW t \in Threads, WriterStep(t) PROVE Moves(t)
  <1>1. ASSUME NEW r \in Requests, StartWrite(t, r) PROVE Moves(t)
    BY <1>1 DEF StartWrite, Goto, ThreadsOK, Moves
  <1>2. ASSUME NEW r \in Requests, StartPlainWrite(t, r) PROVE Moves(t)
    BY <1>2 DEF StartPlainWrite, Goto, ThreadsOK, Moves
  <1>3. CASE EndPlainWrite(t)
    BY <1>3 DEF EndPlainWrite, Return, Goto, ThreadsOK, Moves, CtxFields
  <1>4. CASE Authorize(t)
    BY <1>4 DEF Authorize, Return, Goto, ThreadsOK, Moves, CtxFields
  <1>5. CASE WriteRegion(t)
    BY <1>5 DEF WriteRegion, Goto, ThreadsOK, Moves
  <1>6. CASE WriteBatch(t)
    BY <1>6 DEF WriteBatch, Goto, ThreadsOK, Moves
  <1>7. CASE WriteRaises(t)
    BY <1>7 DEF WriteRaises, Goto, ThreadsOK, Moves
  <1>8. CASE AuditWrite(t)
    BY <1>8 DEF AuditWrite, Goto, ThreadsOK, Moves
  <1>9. CASE EndWrite(t)
    BY <1>9 DEF EndWrite, Return, Goto, ThreadsOK, Moves, CtxFields
  <1>. QED
    BY <1>1, <1>2, <1>3, <1>4, <1>5, <1>6, <1>7, <1>8, <1>9 DEF WriterStep

-----------------------------------------------------------------------------
(***************************************************************************)
(* The invariant                                                           *)
(***************************************************************************)

\* The tagging API lists what exists, and tags are functions.
TablesOK ==
    /\ listed \subseteq exists
    /\ \A a \in exists : IsFcn(tags[a])

\* What strict mode lets through.
ValidSet(w) ==
    HasCanonicalKeys(w) /\
    (GOVERNANCE_STRICT_MODE =>
        \E req : IsTagSet(req) /\ w \in normalize(req) /\ ValidWrite(req, w))

Restricted(identity) == identity # None /\ ~can_write_all_resources(identity)

\* A request carries valid tags, has judged what it is about to write, and has
\* filed every resource it was asked for as done, failed or still to come.
WriterInv(t) ==
    /\ At(t, "idle") => ctx[t].caller = None /\ ctx[t].asked = {}
    /\ pc[t] \in {"authorize", "groups", "write"} /\ ctx[t].caller # None => ValidSet(ctx[t].set)
    /\ At(t, "authorize") =>
          /\ ctx[t].asked \subseteq ctx[t].left
          /\ Restricted(ctx[t].caller) => ctx[t].left \ ctx[t].queue \subseteq seen[t]
    /\ At(t, "groups") =>
          /\ ctx[t].asked \subseteq ctx[t].left \cup ctx[t].failed \cup ctx[t].done
          /\ Restricted(ctx[t].caller) => ctx[t].left \subseteq seen[t]
    /\ At(t, "write") =>
          /\ ctx[t].asked \subseteq ctx[t].left \cup ctx[t].queue \cup ctx[t].failed \cup ctx[t].done
          /\ ctx[t].queue \subseteq ctx[t].group
          /\ Restricted(ctx[t].caller) => ctx[t].left \cup ctx[t].queue \subseteq seen[t]
    /\ At(t, "audited") =>
          \A a \in DOMAIN ctx[t].outcome : ctx[t].outcome[a] = "SUCCESS" => a \in ctx[t].done

\* What an invocation takes for ownerless was so at some time since it began.
AutoInv(t) ==
    /\ At(t, "fetch") =>
          \A a \in DOMAIN ctx[t].found : is_missing_owner_tag(ctx[t].found[a]) => a \in seen[t]
    /\ At(t, "tag") => \A a \in ctx[t].queue : a \in DOMAIN ctx[t].found => a \in seen[t]
    /\ At(t, "lookup") => ctx[t].left \subseteq seen[t]
    /\ At(t, "tagOne") => ctx[t].left \cup ctx[t].queue \subseteq seen[t]

Inv ==
    /\ ThreadsOK /\ TablesOK
    /\ \A t \in Writers : WriterInv(t)
    /\ \A t \in Autos : AutoInv(t)

LEMMA InitInv == Init => Inv
  <1>. SUFFICES ASSUME Init PROVE Inv
    OBVIOUS
  <1>1. ThreadsOK
    BY DEF Init, ThreadsOK, CtxFields
  <1>2. TablesOK
    BY DEF Init, TablesOK, NoTags, exists
  <1>3. \A t \in Writers : WriterInv(t)
    BY DEF Init, WriterInv, At, NoCtx, Threads
  <1>4. \A t \in Autos : AutoInv(t)
    BY DEF Init, AutoInv, At, Threads
  <1>. QED
    BY <1>1, <1>2, <1>3, <1>4 DEF Inv

\* A thread that stays where it is keeps what is said of it.
LEMMA Stays ==
    ASSUME SeenGrows, NEW t \in Threads, pc'[t] = pc[t], ctx'[t] = ctx[t]
    PROVE  (WriterInv(t) => WriterInv(t)') /\ (AutoInv(t) => AutoInv(t)')
  <1>1. pc[t] # "idle" => seen[t] \subseteq seen'[t]
    BY DEF SeenGrows
  <1>2. WriterInv(t) => WriterInv(t)'
    BY <1>1 DEF WriterInv, At
  <1>3. AutoInv(t) => AutoInv(t)'
    BY <1>1 DEF AutoInv, At, is_missing_owner_tag
  <1>. QED
    BY <1>2, <1>3

LEMMA OthersStay ==
    ASSUME ThreadsOK, SeenGrows, NEW t \in Threads, Moves(t)
    PROVE  \A u \in Threads \ {t} : (WriterInv(u) => WriterInv(u)') /\ (AutoInv(u) => AutoInv(u)')
BY Stays DEF Moves

-----------------------------------------------------------------------------
(***************************************************************************)
(* The tables                                                              *)
(***************************************************************************)
LEMMA TaggedKeepsTables ==
    ASSUME TablesOK, NEW arns, NEW set, arns \subseteq exists, Tagged(arns, set)
    PROVE  TablesOK'
  <1>1. exists' = exists /\ listed' \subseteq exists
    BY DEF Tagged, TablesOK, exists
  <1>2. \A a \in exists : IsFcn(tags'[a])
    <2>1. \A a \in exists : tags'[a] = IF a \in arns THEN Written(tags[a], set) ELSE tags[a]
      BY DEF Tagged
    <2>2. \A a : IsFcn(Written(tags[a], set))
      BY DEF IsFcn, Written
    <2>. QED
      BY <2>1, <2>2 DEF TablesOK
  <1>. QED
    BY <1>1, <1>2 DEF TablesOK

LEMMA TagSetIsFcn == ASSUME NEW ts, IsTagSet(ts) PROVE IsFcn(ts)
BY DEF IsTagSet, IsFcn

LEMMA MakeCallTables ==
    ASSUME TablesOK, NEW c \in Calls, MakeCall(c)
    PROVE  TablesOK'
  <1>1. IsFcn(c.tags)
    BY TagOnCreateAssumption, TagSetIsFcn
  <1>2. exists' = exists \cup c.makes
    BY DEF MakeCall, exists
  <1>3. \A a \in exists' : IsFcn(tags'[a])
    BY <1>1, <1>2 DEF MakeCall, TablesOK, exists
  <1>. QED
    BY <1>2, <1>3 DEF MakeCall, TablesOK

LEMMA EditTables == ASSUME TablesOK, NEW e \in Editions, Edit(e) PROVE TablesOK'
  <1>1. IsFcn(e.tags)
    BY TagOnCreateAssumption, TagSetIsFcn
  <1>2. exists' = exists
    BY DEF Edit, exists
  <1>3. \A a \in exists : IsFcn(tags'[a])
    BY <1>1 DEF Edit, TablesOK, exists
  <1>. QED
    BY <1>2, <1>3 DEF Edit, TablesOK

LEMMA OutcomesExist == ASSUME NEW b, NEW o \in Outcomes(b) PROVE o.tagged \subseteq exists /\ o.tagged \subseteq b
BY DEF Outcomes

-----------------------------------------------------------------------------
(***************************************************************************)
(* Steps of a request                                                      *)
(***************************************************************************)

\* What normalization makes of an accepted request is what strict mode lets
\* through.
LEMMA AcceptedIsValid ==
    ASSUME NEW r \in Requests, NEW set \in normalize(r.tags), Accepted(r, set)
    PROVE  ValidSet(set)
  <1>1. IsTagSet(r.tags)
    BY TagOnCreateAssumption
  <1>2. HasCanonicalKeys(set)
    BY <1>1, NormalizedTags
  <1>. QED
    BY <1>1, <1>2 DEF ValidSet, Accepted

LEMMA StartWriteInv ==
    ASSUME ThreadsOK, NEW t \in Writers, NEW r \in Requests, StartWrite(t, r), SeenGrows
    PROVE  WriterInv(t)'
  <1>1. PICK set \in normalize(r.tags) :
            /\ Accepted(r, set)
            /\ ctx' = [ctx EXCEPT ![t].set = set, ![t].left = r.arns, ![t].region = r.region,
                          ![t].asked = r.arns, ![t].caller = r.caller,
                          ![t].queue = IF can_write_all_resources(r.caller) THEN {} ELSE r.arns]
    BY DEF StartWrite
  <1>2. t \in DOMAIN ctx /\ t \in DOMAIN pc /\ DOMAIN ctx[t] = CtxFields
    BY DEF ThreadsOK, Threads
  <1>3. /\ ctx'[t].set = set /\ ctx'[t].left = r.arns /\ ctx'[t].asked = r.arns
        /\ ctx'[t].caller = r.caller
        /\ ctx'[t].queue = IF can_write_all_resources(r.caller) THEN {} ELSE r.arns
    BY <1>1, <1>2, NoCtxFields
  <1>4. pc'[t] = IF can_write_all_resources(r.caller) THEN "groups" ELSE "authorize"
    BY <1>2 DEF StartWrite, Goto
  <1>5. ValidSet(set)'
    BY <1>1, AcceptedIsValid
  <1>. QED
    BY <1>3, <1>4, <1>5 DEF WriterInv, At, Restricted

LEMMA PlainWriteInv ==
    ASSUME ThreadsOK, NEW t \in Writers, WriterInv(t),
           (\E r \in Requests : StartPlainWrite(t, r)) \/ EndPlainWrite(t)
    PROVE  WriterInv(t)'
  <1>1. t \in DOMAIN ctx /\ t \in DOMAIN pc /\ DOMAIN ctx[t] = CtxFields
    BY DEF ThreadsOK, Threads
  <1>2. ASSUME NEW r \in Requests, StartPlainWrite(t, r) PROVE WriterInv(t)'
    <2>1. ctx'[t].caller = ctx[t].caller /\ ctx'[t].asked = ctx[t].asked /\ pc'[t] = "groups"
      BY <1>1, <1>2, NoCtxFields DEF StartPlainWrite, Goto
    <2>2. ctx[t].caller = None /\ ctx[t].asked = {}
      BY <1>2 DEF StartPlainWrite, WriterInv
    <2>. QED
      BY <2>1, <2>2 DEF WriterInv, At, Restricted
  <1>3. CASE EndPlainWrite(t)
    <2>1. pc'[t] = "idle" /\ ctx'[t] = NoCtx
      BY <1>1, <1>3 DEF EndPlainWrite, Return, Goto
    <2>. QED
      BY <2>1 DEF WriterInv, At, NoCtx
  <1>. QED
    BY <1>2, <1>3

\* A resource that is judged to be the caller's is listed, and seen as such.
LEMMA JudgedIsOwned ==
    ASSUME NEW c, NEW a, TRUE \in Judged(c, a) PROVE a \in Owned(c.caller)
  <1>1. PICK l \in lowered(current(c, a)) : is_owner(c.caller, l)
    BY DEF Judged
  <1>2. CASE a \in listed
    BY <1>1, <1>2 DEF Owned, current
  <1>3. CASE a \notin listed
    <2>1. l \in [{} -> {}]
      BY <1>1, <1>3 DEF current, lowered, NoTags
    <2>. QED
      BY <1>1, <2>1 DEF is_owner, is_owned, owner_matches
  <1>. QED
    BY <1>2, <1>3

LEMMA AuthorizeInv ==
    ASSUME ThreadsOK, NEW t \in Writers, WriterInv(t), Authorize(t), SeenGrows
    PROVE  WriterInv(t)'
  <1>1. t \in DOMAIN ctx /\ t \in DOMAIN pc /\ t \in Threads /\ DOMAIN ctx[t] = CtxFields
    BY DEF ThreadsOK, Threads
  <1>2. CASE Return(t)
    <2>1. pc'[t] = "idle" /\ ctx'[t] = NoCtx
      BY <1>1, <1>2 DEF Return, Goto
    <2>. QED
      BY <2>1 DEF WriterInv, At, NoCtx
  <1>3. ASSUME NEW group \in SUBSET ctx[t].queue,
               \A b \in group : TRUE \in Judged(ctx[t], b),
               ctx' = [ctx EXCEPT ![t].queue = @ \ group],
               Goto(t, IF group = ctx[t].queue THEN "groups" ELSE "authorize")
        PROVE  WriterInv(t)'
    <2>1. /\ ctx'[t].queue = ctx[t].queue \ group /\ ctx'[t].caller = ctx[t].caller
          /\ ctx'[t].left = ctx[t].left /\ ctx'[t].asked = ctx[t].asked /\ ctx'[t].set = ctx[t].set
          /\ ctx'[t].failed = ctx[t].failed /\ ctx'[t].done = ctx[t].done
      BY <1>1, <1>3, NoCtxFields
    <2>2. pc'[t] = IF group = ctx[t].queue THEN "groups" ELSE "authorize"
      BY <1>1, <1>3 DEF Goto
    <2>3. /\ pc[t] = "authorize" /\ ctx[t].asked \subseteq ctx[t].left
          /\ Restricted(ctx[t].caller) => ctx[t].left \ ctx[t].queue \subseteq seen[t]
          /\ ctx[t].caller # None => ValidSet(ctx[t].set)
      BY DEF Authorize, WriterInv, At
    <2>4. Restricted(ctx[t].caller) => group \subseteq seen'[t]
      <3>1. SUFFICES ASSUME Restricted(ctx[t].caller) PROVE group \subseteq seen'[t]
        OBVIOUS
      <3>2. group \subseteq Owned(ctx[t].caller)
        BY <1>3, JudgedIsOwned
      <3>3. Watched(t)' = Owned(ctx[t].caller)
        <4>1. Watched(t)' = Owned(ctx[t].caller)'
          BY <3>1, <2>1 DEF Watched, Restricted, Owned
        <4>2. UNCHANGED <<tags, listed, ctx[t].caller>>
          BY <2>1 DEF Authorize, aws
        <4>. QED
          BY <4>1, <4>2 DEF Owned
      <3>. QED
        BY <1>1, <2>2, <3>2, <3>3 DEF SeenGrows
    <2>5. seen[t] \subseteq seen'[t]
      BY <1>1, <2>2, <2>3 DEF SeenGrows
    <2>6. ctx[t].caller # None => ValidSet(ctx'[t].set)
      BY <2>1, <2>3
    <2>7. CASE group = ctx[t].queue
      BY <2>1, <2>2, <2>3, <2>4, <2>5, <2>6, <2>7 DEF WriterInv, At, ValidSet
    <2>8. CASE group # ctx[t].queue
      BY <2>1, <2>2, <2>3, <2>4, <2>5, <2>6, <2>8 DEF WriterInv, At, ValidSet
    <2>. QED
      BY <2>7, <2>8
  <1>. QED
    BY <1>2, <1>3 DEF Authorize

LEMMA WriteRegionInv ==
    ASSUME ThreadsOK, NEW t \in Writers, WriterInv(t), WriteRegion(t), SeenGrows
    PROVE  WriterInv(t)'
  <1>1. t \in DOMAIN ctx /\ t \in DOMAIN pc /\ t \in Threads /\ DOMAIN ctx[t] = CtxFields
    BY DEF ThreadsOK, Threads
  <1>2. PICK r \in Regions(t) :
            ctx' = [ctx EXCEPT ![t].left = @ \ InRegion(t, r), ![t].group = InRegion(t, r),
                               ![t].queue = InRegion(t, r)]
    BY DEF WriteRegion
  <1>3. /\ ctx'[t].left = ctx[t].left \ InRegion(t, r) /\ ctx'[t].queue = InRegion(t, r)
        /\ ctx'[t].group = InRegion(t, r) /\ ctx'[t].caller = ctx[t].caller
        /\ ctx'[t].asked = ctx[t].asked /\ ctx'[t].set = ctx[t].set
        /\ ctx'[t].failed = ctx[t].failed /\ ctx'[t].done = ctx[t].done
    BY <1>1, <1>2, NoCtxFields
  <1>4. InRegion(t, r) \subseteq ctx[t].left
    BY DEF InRegion
  <1>5. pc[t] = "groups" /\ pc'[t] = "write"
    BY <1>1 DEF WriteRegion, Goto, At
  <1>6. seen[t] \subseteq seen'[t]
    BY <1>1, <1>5 DEF SeenGrows
  <1>. QED
    BY <1>3, <1>4, <1>5, <1>6 DEF WriterInv, At, ValidSet

\* One or more ARNs have left the queue of the region, and are filed.
LEMMA FiledInv ==
    ASSUME ThreadsOK, NEW t \in Writers, WriterInv(t), At(t, "write"), SeenGrows,
           NEW queue \in SUBSET ctx[t].queue, NEW failed, NEW done,
           ctx[t].queue \ queue \subseteq failed \cup done,
           ctx' = [ctx EXCEPT ![t].queue = queue, ![t].done = @ \cup done, ![t].failed = @ \cup failed],
           Goto(t, IF queue = {} THEN "groups" ELSE "write")
    PROVE  WriterInv(t)'
  <1>1. t \in DOMAIN ctx /\ t \in DOMAIN pc /\ t \in Threads /\ DOMAIN ctx[t] = CtxFields
    BY DEF ThreadsOK, Threads
  <1>2. /\ ctx'[t].queue = queue /\ ctx'[t].left = ctx[t].left /\ ctx'[t].group = ctx[t].group
        /\ ctx'[t].caller = ctx[t].caller /\ ctx'[t].asked = ctx[t].asked /\ ctx'[t].set = ctx[t].set
        /\ ctx'[t].failed = ctx[t].failed \cup failed /\ ctx'[t].done = ctx[t].done \cup done
    BY <1>1, NoCtxFields
  <1>3. pc'[t] = IF queue = {} THEN "groups" ELSE "write"
    BY <1>1 DEF Goto
  <1>4. seen[t] \subseteq seen'[t]
    BY <1>1, <1>3 DEF SeenGrows, At
  <1>5. ctx[t].asked \subseteq ctx[t].left \cup queue \cup (ctx[t].failed \cup failed) \cup (ctx[t].done \cup done)
    BY DEF WriterInv
  <1>6. CASE queue = {}
    BY <1>2, <1>3, <1>4, <1>5, <1>6 DEF WriterInv, At, ValidSet
  <1>7. CASE queue # {}
    BY <1>2, <1>3, <1>4, <1>5, <1>7 DEF WriterInv, At, ValidSet
  <1>. QED
    BY <1>6, <1>7

LEMMA WriteBatchInv ==
    ASSUME ThreadsOK, NEW t \in Writers, WriterInv(t), WriteBatch(t), SeenGrows
    PROVE  WriterInv(t)'
  <1>1. PICK batch \in Batches(ctx[t].queue) : \E o \in Outcomes(batch) :
            /\ ctx' = [ctx EXCEPT ![t].queue = @ \ batch, ![t].done = @ \cup o.tagged,
                                  ![t].failed = @ \cup o.refused]
            /\ Goto(t, IF batch = ctx[t].queue THEN "groups" ELSE "write")
    BY DEF WriteBatch
  <1>2. PICK o \in Outcomes(batch) :
            /\ ctx' = [ctx EXCEPT ![t].queue = @ \ batch, ![t].done = @ \cup o.tagged,
                                  ![t].failed = @ \cup o.refused]
            /\ Goto(t, IF batch = ctx[t].queue THEN "groups" ELSE "write")
    BY <1>1
  <1>3. batch \subseteq ctx[t].queue /\ (batch = ctx[t].queue <=> ctx[t].queue \ batch = {})
    BY DEF Batches
  <1>4. ctx[t].queue \ (ctx[t].queue \ batch) \subseteq o.refused \cup o.tagged
    BY <1>3 DEF Outcomes
  <1>5. ctx' = [ctx EXCEPT ![t].queue = ctx[t].queue \ batch, ![t].done = @ \cup o.tagged,
                           ![t].failed = @ \cup o.refused]
    BY <1>2
  <1>6. Goto(t, IF ctx[t].queue \ batch = {} THEN "groups" ELSE "write")
    BY <1>2, <1>3
  <1>. QED
    BY <1>4, <1>5, <1>6, FiledInv DEF WriteBatch

LEMMA WriteRaisesInv ==
    ASSUME ThreadsOK, NEW t \in Writers, WriterInv(t), WriteRaises(t), SeenGrows
    PROVE  WriterInv(t)'
  <1>1. PICK batch \in Batches(ctx[t].queue) : \E o \in Outcomes(batch) :
            ctx' = [ctx EXCEPT ![t].queue = {}, ![t].failed = @ \cup ctx[t].group,
                               ![t].done = @ \cup o.tagged]
    BY DEF WriteRaises
  <1>2. PICK o \in Outcomes(batch) :
            ctx' = [ctx EXCEPT ![t].queue = {}, ![t].failed = @ \cup ctx[t].group,
                               ![t].done = @ \cup o.tagged]
    BY <1>1
  <1>3. ctx[t].queue \subseteq ctx[t].group
    BY DEF WriterInv, WriteRaises
  <1>4. ctx' = [ctx EXCEPT ![t].queue = {}, ![t].done = @ \cup o.tagged,
                           ![t].failed = @ \cup ctx[t].group]
    BY <1>2
  <1>5. Goto(t, IF {} = {} THEN "groups" ELSE "write")
    BY DEF WriteRaises
  <1>6. {} \in SUBSET ctx[t].queue /\ ctx[t].queue \ {} \subseteq ctx[t].group \cup o.tagged
    BY <1>3
  <1>. QED
    BY <1>4, <1>5, <1>6, FiledInv DEF WriteRaises

LEMMA AnswerInv ==
    ASSUME ThreadsOK, NEW t \in Writers, WriterInv(t), AuditWrite(t) \/ EndWrite(t)
    PROVE  WriterInv(t)'
  <1>1. t \in DOMAIN ctx /\ t \in DOMAIN pc /\ DOMAIN ctx[t] = CtxFields
    BY DEF ThreadsOK, Threads
  <1>2. CASE AuditWrite(t)
    <2>1. /\ pc'[t] = "audited" /\ ctx'[t].done = ctx[t].done
          /\ ctx'[t].outcome = [a \in ctx[t].asked |-> IF a \in ctx[t].failed THEN "FAILED" ELSE "SUCCESS"]
      BY <1>1, <1>2, NoCtxFields DEF AuditWrite, Goto
    <2>2. ctx[t].asked \subseteq ctx[t].failed \cup ctx[t].done
      BY <1>2 DEF AuditWrite, WriterInv
    <2>. QED
      BY <2>1, <2>2 DEF WriterInv, At
  <1>3. CASE EndWrite(t)
    <2>1. pc'[t] = "idle" /\ ctx'[t] = NoCtx
      BY <1>1, <1>3 DEF EndWrite, Return, Goto
    <2>. QED
      BY <2>1 DEF WriterInv, At, NoCtx
  <1>. QED
    BY <1>2, <1>3

LEMMA WriterStepInv ==
    ASSUME ThreadsOK, NEW t \in Writers, WriterInv(t), WriterStep(t), SeenGrows
    PROVE  WriterInv(t)'
BY StartWriteInv, PlainWriteInv, AuthorizeInv, WriteRegionInv, WriteBatchInv, WriteRaisesInv, AnswerInv
   DEF WriterStep

\* What a request does to the tables.
LEMMA WriterTables == ASSUME TablesOK, NEW t, WriterStep(t) PROVE TablesOK'
  <1>1. ASSUME UNCHANGED aws PROVE TablesOK'
    BY <1>1 DEF aws, TablesOK, exists
  <1>2. CASE WriteBatch(t) \/ WriteRaises(t)
    <2>1. PICK batch \in Batches(ctx[t].queue) : \E o \in Outcomes(batch) : Tagged(o.tagged, ctx[t].set)
      BY <1>2 DEF WriteBatch, WriteRaises
    <2>2. PICK o \in Outcomes(batch) : Tagged(o.tagged, ctx[t].set)
      BY <2>1
    <2>3. o.tagged \subseteq exists
      BY OutcomesExist
    <2>. QED
      BY <2>2, <2>3, TaggedKeepsTables
  <1>. QED
    BY <1>1, <1>2 DEF WriterStep, StartWrite, StartPlainWrite, EndPlainWrite, Authorize, WriteRegion,
                      AuditWrite, EndWrite

-----------------------------------------------------------------------------
(***************************************************************************)
(* Steps of the tag-on-create Lambda                                       *)
(***************************************************************************)

\* Looking tags up: what is found without owner is ownerless in this very step.
LEMMA FetchBatchInv ==
    ASSUME ThreadsOK, TablesOK, NEW t \in Autos, AutoInv(t), FetchBatch(t), SeenGrows
    PROVE  AutoInv(t)'
  <1>1. t \in DOMAIN ctx /\ t \in Threads /\ DOMAIN ctx[t] = CtxFields /\ t \notin Writers
    BY TagOnCreateAssumption DEF ThreadsOK, Threads
  <1>2. pc[t] = "fetch" /\ pc'[t] = "fetch" /\ UNCHANGED <<tags, listed>>
    BY DEF FetchBatch, At, aws
  <1>3. seen[t] \subseteq seen'[t] /\ Ownerless \subseteq seen'[t]
    <2>1. Watched(t)' = Ownerless'
      BY <1>1 DEF Watched
    <2>2. Ownerless' = Ownerless
      BY <1>2 DEF Ownerless, exists, is_missing_owner_tag
    <2>. QED
      BY <2>1, <2>2, <1>1, <1>2 DEF SeenGrows
  <1>8. InReach(t) = listed
    BY TagOnCreateAssumption DEF InReach
  <1>4. PICK batch \in Batches(ctx[t].queue) :
           \/ ctx' = [ctx EXCEPT ![t].queue = @ \ batch, ![t].retry = @ \cup (batch \ listed),
                         ![t].found = Written(@, [a \in batch \cap listed |-> tags[a]])]
           \/ ctx' = [ctx EXCEPT ![t].queue = @ \ batch, ![t].retry = @ \cup batch]
    BY <1>8 DEF FetchBatch
  <1>5. CASE ctx'[t].found = ctx[t].found
    BY <1>2, <1>3, <1>5 DEF AutoInv, At, is_missing_owner_tag
  <1>6. CASE ctx'[t].found = Written(ctx[t].found, [a \in batch \cap listed |-> tags[a]])
    <2>1. ASSUME NEW a \in DOMAIN ctx'[t].found, is_missing_owner_tag(ctx'[t].found[a])
          PROVE  a \in seen'[t]
      <3>1. CASE a \in batch \cap listed
        <4>1. ctx'[t].found[a] = tags[a] /\ a \in exists
          BY <1>6, <3>1 DEF Written, TablesOK
        <4>. QED
          BY <2>1, <4>1, <1>3 DEF Ownerless
      <3>2. CASE a \notin batch \cap listed
        <4>1. a \in DOMAIN ctx[t].found /\ ctx'[t].found[a] = ctx[t].found[a]
          BY <1>6, <2>1, <3>2 DEF Written
        <4>. QED
          BY <2>1, <4>1, <1>2, <1>3 DEF AutoInv, At
      <3>. QED
        BY <3>1, <3>2
    <2>. QED
      BY <2>1, <1>2 DEF AutoInv, At, is_missing_owner_tag
  <1>7. ctx'[t].found = ctx[t].found \/ ctx'[t].found = Written(ctx[t].found, [a \in batch \cap listed |-> tags[a]])
    BY <1>1, <1>4, NoCtxFields
  <1>. QED
    BY <1>5, <1>6, <1>7

LEMMA NextAttemptInv ==
    ASSUME ThreadsOK, NEW t \in Autos, AutoInv(t), NextAttempt(t), SeenGrows
    PROVE  AutoInv(t)'
  <1>1. t \in DOMAIN ctx /\ t \in Threads /\ DOMAIN ctx[t] = CtxFields
    BY DEF ThreadsOK, Threads
  <1>2. ctx'[t].found = ctx[t].found /\ pc[t] = "fetch" /\ pc'[t] = "fetch"
    BY <1>1, NoCtxFields DEF NextAttempt, At
  <1>3. seen[t] \subseteq seen'[t]
    BY <1>1, <1>2 DEF SeenGrows
  <1>. QED
    BY <1>2, <1>3 DEF AutoInv, At, is_missing_owner_tag

LEMMA FetchRegionInv ==
    ASSUME ThreadsOK, NEW t \in Autos, FetchRegion(t)
    PROVE  AutoInv(t)'
  <1>1. t \in DOMAIN ctx /\ t \in DOMAIN pc /\ DOMAIN ctx[t] = CtxFields
    BY DEF ThreadsOK, Threads
  <1>2. PICK r \in Regions(t) : ctx' = [ctx EXCEPT ![t] =
            Fetch(InRegion(t, r), [ctx[t] EXCEPT !.left = @ \ InRegion(t, r)])]
    BY DEF FetchRegion
  <1>3. DOMAIN [ctx[t] EXCEPT !.left = @ \ InRegion(t, r)] = CtxFields
    BY <1>1
  <1>4. ctx'[t].found = NoTags /\ pc'[t] = "fetch"
    BY <1>1, <1>2, <1>3, FetchFields DEF FetchRegion, Goto
  <1>. QED
    BY <1>4 DEF AutoInv, At, NoTags

LEMMA DecideTagInv ==
    ASSUME ThreadsOK, NEW t \in Autos, AutoInv(t), DecideTag(t), SeenGrows
    PROVE  AutoInv(t)'
  <1>1. t \in DOMAIN ctx /\ t \in DOMAIN pc /\ t \in Threads /\ DOMAIN ctx[t] = CtxFields
    BY DEF ThreadsOK, Threads
  <1>2. CASE to_tag(ctx[t]) = {}
    <2>1. Goto(t, "regions")
      BY <1>2 DEF DecideTag
    <2>2. pc'[t] = "regions"
      BY <1>1, <2>1 DEF Goto
    <2>. QED
      BY <2>2 DEF AutoInv, At
  <1>3. CASE to_tag(ctx[t]) # {}
    <2>1. PICK set : ctx' = [ctx EXCEPT ![t].queue = to_tag(ctx[t]), ![t].set = set]
      BY <1>3 DEF DecideTag
    <2>2. ctx'[t].queue = to_tag(ctx[t]) /\ ctx'[t].found = ctx[t].found
      BY <1>1, <2>1, NoCtxFields
    <2>3. Goto(t, "tag") /\ pc[t] = "fetch"
      BY <1>3 DEF DecideTag, Fetched, At
    <2>4. pc'[t] = "tag"
      BY <1>1, <2>3 DEF Goto
    <2>5. seen[t] \subseteq seen'[t]
      BY <1>1, <2>3, <2>4 DEF SeenGrows
    <2>. QED
      BY <2>2, <2>3, <2>4, <2>5 DEF AutoInv, At, to_tag
  <1>. QED
    BY <1>2, <1>3

LEMMA TagBatchInv ==
    ASSUME ThreadsOK, NEW t \in Autos, AutoInv(t), TagBatch(t), SeenGrows
    PROVE  AutoInv(t)'
  <1>1. t \in DOMAIN ctx /\ t \in DOMAIN pc /\ t \in Threads /\ DOMAIN ctx[t] = CtxFields
    BY DEF ThreadsOK, Threads
  <1>2. PICK batch \in Batches(ctx[t].queue) :
           /\ ctx' = [ctx EXCEPT ![t].queue = @ \ batch]
           /\ IF batch # ctx[t].queue THEN UNCHANGED pc
              ELSE Goto(t, IF At(t, "tag") THEN "regions" ELSE "lookup")
    BY DEF TagBatch
  <1>3. ctx'[t].queue = ctx[t].queue \ batch /\ ctx'[t].left = ctx[t].left /\ ctx'[t].found = ctx[t].found
    BY <1>1, <1>2, NoCtxFields
  <1>4. \/ pc'[t] = pc[t]
        \/ pc'[t] = "regions"
        \/ pc[t] = "tagOne" /\ pc'[t] = "lookup"
    BY <1>1, <1>2 DEF Goto, At, TagBatch
  <1>5. pc[t] \in {"tag", "tagOne"} /\ seen[t] \subseteq seen'[t]
    BY <1>1, <1>4 DEF TagBatch, SeenGrows
  <1>. QED
    BY <1>3, <1>4, <1>5 DEF AutoInv, At

LEMMA ScanRegionInv ==
    ASSUME ThreadsOK, NEW t \in Autos, ScanRegion(t), SeenGrows
    PROVE  AutoInv(t)'
  <1>1. t \in DOMAIN ctx /\ t \in DOMAIN pc /\ t \in Threads /\ DOMAIN ctx[t] = CtxFields /\ t \notin Writers
    BY TagOnCreateAssumption DEF ThreadsOK, Threads
  <1>2. CASE pc'[t] = pc[t]
    BY <1>2 DEF ScanRegion, AutoInv, At
  <1>3. CASE pc'[t] = "lookup" /\ ctx'[t].left \subseteq Ownerless
    <2>1. Watched(t)' = Ownerless'
      BY <1>1 DEF Watched
    <2>2. Ownerless' = Ownerless
      BY DEF ScanRegion, aws, Ownerless, exists, is_missing_owner_tag
    <2>3. ctx'[t].left \subseteq seen'[t]
      BY <1>1, <1>3, <2>1, <2>2 DEF SeenGrows
    <2>. QED
      BY <1>3, <2>3 DEF AutoInv, At
  <1>4. PICK r \in ctx[t].regions :
          \/ /\ ctx' = [ctx EXCEPT ![t].regions = @ \ {r},
                   ![t].left = {a \in listed \cap Ownerless : get_region_from_arn(a, DEFAULT_REGION) = r}]
             /\ Goto(t, "lookup")
          \/ UNCHANGED pc
    BY DEF ScanRegion
  <1>5. CASE UNCHANGED pc
    BY <1>2, <1>5
  <1>6. ASSUME NEW left, left \subseteq Ownerless, Goto(t, "lookup"),
               ctx' = [ctx EXCEPT ![t].regions = @ \ {r}, ![t].left = left]
        PROVE  AutoInv(t)'
    <2>1. pc'[t] = "lookup" /\ ctx'[t].left = left
      BY <1>1, <1>6, NoCtxFields DEF Goto
    <2>. QED
      BY <2>1, <1>3, <1>6
  <1>7. {a \in listed \cap Ownerless : get_region_from_arn(a, DEFAULT_REGION) = r} \subseteq Ownerless
    OBVIOUS
  <1>. QED
    BY <1>4, <1>5, <1>6, <1>7

LEMMA LookupInv ==
    ASSUME ThreadsOK, NEW t \in Autos, AutoInv(t), Lookup(t), SeenGrows
    PROVE  AutoInv(t)'
  <1>1. t \in DOMAIN ctx /\ t \in DOMAIN pc /\ t \in Threads /\ DOMAIN ctx[t] = CtxFields
    BY DEF ThreadsOK, Threads
  <1>2. PICK a \in ctx[t].left :
           \/ /\ \E set : ctx' = [ctx EXCEPT ![t].left = @ \ {a}, ![t].queue = {a}, ![t].set = set]
              /\ Goto(t, "tagOne")
           \/ ctx' = [ctx EXCEPT ![t].left = @ \ {a}] /\ UNCHANGED pc
    BY DEF Lookup
  <1>3. /\ ctx'[t].left = ctx[t].left \ {a}
        /\ \/ pc'[t] = "tagOne" /\ ctx'[t].queue = {a}
           \/ pc'[t] = "lookup"
    <2>1. pc[t] = "lookup"
      BY DEF Lookup, At
    <2>2. CASE \E set : ctx' = [ctx EXCEPT ![t].left = @ \ {a}, ![t].queue = {a}, ![t].set = set]
      <3>1. PICK set : ctx' = [ctx EXCEPT ![t].left = @ \ {a}, ![t].queue = {a}, ![t].set = set]
        BY <2>2
      <3>2. ctx'[t].left = ctx[t].left \ {a} /\ ctx'[t].queue = {a}
        BY <1>1, <3>1, NoCtxFields
      <3>. QED
        BY <1>1, <1>2, <2>1, <3>2 DEF Goto
    <2>3. CASE ctx' = [ctx EXCEPT ![t].left = @ \ {a}] /\ UNCHANGED pc
      <3>1. ctx'[t].left = ctx[t].left \ {a}
        BY <1>1, <2>3, NoCtxFields
      <3>. QED
        BY <2>1, <2>3, <3>1
    <2>. QED
      BY <1>2, <2>2, <2>3
  <1>4. pc[t] = "lookup" /\ seen[t] \subseteq seen'[t]
    BY <1>1, <1>3 DEF Lookup, At, SeenGrows
  <1>. QED
    BY <1>3, <1>4 DEF AutoInv, At

\* The other steps lead to places of which nothing is said.
LEMMA OtherAutoInv ==
    ASSUME ThreadsOK, NEW t \in Autos,
           \/ \E e \in deliveries : StartAuto(t, e)
           \/ StartScan(t) \/ EndAuto(t) \/ get_all_regions(t) \/ EndScan(t) \/ EndRegion(t)
    PROVE  AutoInv(t)'
  <1>1. t \in DOMAIN pc
    BY DEF ThreadsOK, Threads
  <1>2. pc'[t] \in {"idle", "regions", "listRegions", "scan"}
    BY <1>1 DEF StartAuto, StartScan, EndAuto, get_all_regions, EndScan, EndRegion, Goto, Return, At
  <1>. QED
    BY <1>2 DEF AutoInv, At

LEMMA AutoStepInv ==
    ASSUME ThreadsOK, TablesOK, NEW t \in Autos, AutoInv(t), SeenGrows,
           \/ \E e \in deliveries : StartAuto(t, e)
           \/ StartScan(t) \/ AutoStep(t) \/ ScanStep(t)
    PROVE  AutoInv(t)'
BY FetchBatchInv, NextAttemptInv, FetchRegionInv, DecideTagInv, TagBatchInv, ScanRegionInv, LookupInv,
   OtherAutoInv DEF AutoStep, ScanStep

LEMMA AutoTables ==
    ASSUME TablesOK, NEW t,
           \/ \E e \in deliveries : StartAuto(t, e)
           \/ StartScan(t) \/ AutoStep(t) \/ ScanStep(t)
    PROVE  TablesOK'
  <1>1. ASSUME UNCHANGED aws PROVE TablesOK'
    BY <1>1 DEF aws, TablesOK, exists
  <1>2. CASE TagBatch(t)
    <2>1. PICK batch \in Batches(ctx[t].queue) : \E o \in Outcomes(batch) : Tagged(o.tagged, ctx[t].set)
      BY <1>2 DEF TagBatch
    <2>2. PICK o \in Outcomes(batch) : Tagged(o.tagged, ctx[t].set)
      BY <2>1
    <2>3. o.tagged \subseteq exists
      BY OutcomesExist
    <2>. QED
      BY <2>2, <2>3, TaggedKeepsTables
  <1>. QED
    BY <1>1, <1>2 DEF AutoStep, ScanStep, StartAuto, StartScan, FetchBatch, NextAttempt, FetchRegion,
       EndAuto, DecideTag, get_all_regions, ScanRegion, EndScan, Lookup, EndRegion

LEMMA EnforcerTables ==
    ASSUME TablesOK, NEW t, (\E e \in deliveries : StartEnforcer(t, e)) \/ EnforcerStep(t)
    PROVE  TablesOK'
  <1>1. ASSUME UNCHANGED aws PROVE TablesOK'
    BY <1>1 DEF aws, TablesOK, exists
  <1>2. CASE Mutate(t)
    <2>1. UNCHANGED aws \/ \E o \in Outcomes(ctx[t].group) : Tagged(o.tagged, ctx[t].set)
      BY <1>2 DEF Mutate
    <2>2. ASSUME NEW o \in Outcomes(ctx[t].group), Tagged(o.tagged, ctx[t].set) PROVE TablesOK'
      BY <2>2, OutcomesExist, TaggedKeepsTables
    <2>. QED
      BY <2>1, <2>2, <1>1
  <1>. QED
    BY <1>1, <1>2 DEF EnforcerStep, StartEnforcer, FetchBatch, NextAttempt, StartEvaluation, Evaluate,
       Mutated, EndEnforcer

-----------------------------------------------------------------------------
(***************************************************************************)
(* The invariant is inductive                                              *)
(***************************************************************************)

\* Who makes a step, and how far it reaches.
LEMMA StepCases ==
    ASSUME Step
    PROVE  \/ \E c \in Calls : MakeCall(c) /\ UNCHANGED <<pc, ctx>>
           \/ \E e \in Editions : Edit(e) /\ UNCHANGED <<pc, ctx>>
           \/ \E t \in Autos : \/ \E e \in deliveries : StartAuto(t, e)
                               \/ StartScan(t) \/ AutoStep(t) \/ ScanStep(t)
           \/ \E t \in Enforcers : (\E e \in deliveries : StartEnforcer(t, e)) \/ EnforcerStep(t)
           \/ \E t \in Writers : WriterStep(t)
           \/ story \notin Stories
BY DEF Step, Calls, MakeCall, Edit, WriterStep

\* What may happen in a behaviour is fixed at its start.
StoryOK == story \in Stories

LEMMA NextInv == ASSUME Inv, StoryOK, Next PROVE Inv'
  <1>1. SeenGrows
    BY ObserveGrows DEF Next
  <1>2. /\ ThreadsOK /\ TablesOK
        /\ \A t \in Writers : WriterInv(t)
        /\ \A t \in Autos : AutoInv(t)
    BY DEF Inv
  <1>3. Writers \subseteq Threads /\ Autos \subseteq Threads /\ Enforcers \subseteq Threads
    BY DEF Threads
  <1>4. ASSUME UNCHANGED <<pc, ctx>>, TablesOK' PROVE Inv'
    <2>1. \A t \in Threads : (WriterInv(t) => WriterInv(t)') /\ (AutoInv(t) => AutoInv(t)')
      BY <1>1, <1>4, Stays
    <2>2. ThreadsOK'
      BY <1>1, <1>2, <1>4 DEF ThreadsOK, SeenGrows
    <2>. QED
      BY <1>2, <1>3, <1>4, <2>1, <2>2 DEF Inv
  <1>5. ASSUME NEW t \in Threads, Moves(t), TablesOK',
               t \in Writers => WriterInv(t)', t \in Autos => AutoInv(t)'
        PROVE  Inv'
    <2>1. \A u \in Threads \ {t} : (WriterInv(u) => WriterInv(u)') /\ (AutoInv(u) => AutoInv(u)')
      BY <1>1, <1>2, <1>5, OthersStay
    <2>2. ThreadsOK'
      BY <1>1, <1>2, <1>5, MovesKeeps
    <2>. QED
      BY <1>2, <1>3, <1>5, <2>1, <2>2 DEF Inv
  <1>6. ASSUME NEW c \in Calls, MakeCall(c), UNCHANGED <<pc, ctx>> PROVE Inv'
    BY <1>2, <1>4, <1>6, MakeCallTables
  <1>7. ASSUME NEW e \in Editions, Edit(e), UNCHANGED <<pc, ctx>> PROVE Inv'
    BY <1>2, <1>4, <1>7, EditTables
  <1>8. ASSUME NEW t \in Autos,
               \/ \E e \in deliveries : StartAuto(t, e)
               \/ StartScan(t) \/ AutoStep(t) \/ ScanStep(t)
        PROVE  Inv'
    <2>1. t \in Threads /\ t \notin Writers
      BY <1>3, TagOnCreateAssumption
    <2>2. Moves(t) /\ TablesOK' /\ AutoInv(t)'
      BY <1>1, <1>2, <1>8, <2>1, AutoMoves, AutoTables, AutoStepInv
    <2>. QED
      BY <1>5, <2>1, <2>2
  <1>9. ASSUME NEW t \in Enforcers, (\E e \in deliveries : StartEnforcer(t, e)) \/ EnforcerStep(t)
        PROVE  Inv'
    <2>1. t \in Threads /\ t \notin Writers /\ t \notin Autos
      BY <1>3, TagOnCreateAssumption
    <2>2. Moves(t) /\ TablesOK'
      BY <1>2, <1>9, <2>1, EnforcerMoves, EnforcerTables
    <2>. QED
      BY <1>5, <2>1, <2>2
  <1>10. ASSUME NEW t \in Writers, WriterStep(t) PROVE Inv'
    <2>1. t \in Threads /\ t \notin Autos
      BY <1>3, TagOnCreateAssumption
    <2>2. Moves(t) /\ TablesOK' /\ WriterInv(t)'
      BY <1>1, <1>2, <1>10, <2>1, WriterMoves, WriterTables, WriterStepInv
    <2>. QED
      BY <1>5, <2>1, <2>2
  <1>. QED
    BY <1>6, <1>7, <1>8, <1>9, <1>10, StepCases DEF Next, StoryOK

LEMMA StoryUnchanged == ASSUME Next PROVE story' = story
  <1>1. ASSUME UNCHANGED users PROVE UNCHANGED story
    BY <1>1 DEF users
  <1>2. ASSUME NEW c, MakeCall(c) PROVE UNCHANGED story
    BY <1>2 DEF MakeCall
  <1>3. ASSUME NEW e, Edit(e) PROVE UNCHANGED story
    BY <1>3 DEF Edit
  <1>4. ASSUME NEW t, (\E e \in deliveries : StartAuto(t, e)) \/ StartScan(t) \/ AutoStep(t) PROVE UNCHANGED users
    BY <1>4 DEF StartAuto, StartScan, AutoStep, FetchBatch, NextAttempt, FetchRegion, EndAuto, DecideTag, TagBatch
  <1>5. ASSUME NEW t, ScanStep(t) PROVE UNCHANGED users
    BY <1>5 DEF ScanStep, get_all_regions, ScanRegion, EndScan, Lookup, EndRegion
  <1>6. ASSUME NEW t, (\E e \in deliveries : StartEnforcer(t, e)) \/ EnforcerStep(t) PROVE UNCHANGED users
    BY <1>6 DEF StartEnforcer, EnforcerStep, FetchBatch, NextAttempt, StartEvaluation, Evaluate, Mutate, Mutated,
       EndEnforcer
  <1>7. ASSUME NEW t, WriterStep(t) PROVE UNCHANGED users
    BY <1>7 DEF WriterStep, StartWrite, StartPlainWrite, EndPlainWrite, Authorize, WriteRegion, WriteBatch,
       WriteRaises, AuditWrite, EndWrite
  <1>. QED
    BY <1>1, <1>2, <1>3, <1>4, <1>5, <1>6, <1>7 DEF Next, Step, WriterStep

LEMMA StoryStays == ASSUME StoryOK, Next PROVE StoryOK'
BY StoryUnchanged DEF StoryOK

LEMMA StutterInv == ASSUME Inv, StoryOK, UNCHANGED vars PROVE Inv' /\ StoryOK'
  <1>1. UNCHANGED <<pc, ctx, seen, tags, listed, story>>
    BY DEF vars
  <1>. QED
    BY <1>1 DEF Inv, StoryOK, ThreadsOK, TablesOK, exists, WriterInv, AutoInv, At, ValidSet, is_missing_owner_tag

\* The invariant holds in every behaviour, and who may do what never changes.
THEOREM Invariance == Spec => [](Inv /\ StoryOK)
  <1>1. Init => Inv /\ StoryOK
    BY InitInv DEF Init, StoryOK
  <1>2. Inv /\ StoryOK /\ [Next]_vars => (Inv /\ StoryOK)'
    BY NextInv, StoryStays, StutterInv
  <1>. QED
    BY <1>1, <1>2, PTL DEF Spec

-----------------------------------------------------------------------------
(***************************************************************************)
(* The properties                                                          *)
(***************************************************************************)

\* A row says SUCCESS only for what AWS tagged for the request, in every
\* instance.
THEOREM AuditSuccessIsRealHolds == Spec => []AuditSuccessIsReal
  <1>1. Inv => AuditSuccessIsReal
    BY DEF Inv, WriterInv, AuditSuccessIsReal
  <1>. QED
    BY <1>1, Invariance, PTL

\* The only steps that take something off the list of a request that writes.
LEMMA WritingStep ==
    ASSUME Inv, StoryOK, [Next]_vars, NEW t \in Writers, At(t, "write"), ctx'[t].queue # ctx[t].queue
    PROVE  \E arns \in SUBSET (exists \cap ctx[t].queue) : Tagged(arns, ctx[t].set)
  <1>1. Writers \subseteq Threads /\ Autos \subseteq Threads /\ Enforcers \subseteq Threads /\ ThreadsOK
    BY DEF Threads, Inv
  <1>2. ctx'[t] # ctx[t]
    OBVIOUS
  <1>3. ASSUME NEW u \in Threads, Moves(u) PROVE u = t
    BY <1>1, <1>2, <1>3 DEF Moves
  <1>4. WriterStep(t)
    <2>1. ASSUME NEW u \in Autos,
                 \/ \E e \in deliveries : StartAuto(u, e)
                 \/ StartScan(u) \/ AutoStep(u) \/ ScanStep(u)
          PROVE  FALSE
      BY <1>1, <1>3, <2>1, AutoMoves, TagOnCreateAssumption
    <2>2. ASSUME NEW u \in Enforcers, (\E e \in deliveries : StartEnforcer(u, e)) \/ EnforcerStep(u)
          PROVE  FALSE
      BY <1>1, <1>3, <2>2, EnforcerMoves, TagOnCreateAssumption
    <2>3. ASSUME NEW u \in Writers, WriterStep(u) PROVE u = t
      BY <1>1, <1>3, <2>3, WriterMoves
    <2>4. Step
      BY <1>2 DEF Next, vars
    <2>. QED
      BY <1>2, <2>1, <2>2, <2>3, <2>4, StepCases DEF StoryOK
  <1>5. WriteBatch(t) \/ WriteRaises(t)
    BY <1>4 DEF WriterStep, StartWrite, StartPlainWrite, EndPlainWrite, Authorize, WriteRegion,
       AuditWrite, EndWrite, At
  <1>6. PICK batch \in Batches(ctx[t].queue) : \E o \in Outcomes(batch) : Tagged(o.tagged, ctx[t].set)
    BY <1>5 DEF WriteBatch, WriteRaises
  <1>7. PICK o \in Outcomes(batch) : Tagged(o.tagged, ctx[t].set)
    BY <1>6
  <1>8. o.tagged \subseteq exists /\ o.tagged \subseteq ctx[t].queue
    BY OutcomesExist DEF Batches
  <1>. QED
    BY <1>7, <1>8

\* Whoever is restricted to resources of their own writes only such.
THEOREM OwnersWriteTheirOwnHolds == Spec => OwnersWriteTheirOwn
  <1>1. ASSUME Inv, StoryOK, [Next]_vars, NEW t \in Writers, NEW a \in exists,
               At(t, "write"), ctx[t].caller # None, tags'[a] # tags[a], ctx'[t].queue # ctx[t].queue,
               ~can_write_all_resources(ctx[t].caller)
        PROVE  a \in seen[t]
    <2>1. PICK arns \in SUBSET (exists \cap ctx[t].queue) : Tagged(arns, ctx[t].set)
      BY <1>1, WritingStep
    <2>2. a \in ctx[t].queue
      BY <1>1, <2>1 DEF Tagged
    <2>. QED
      BY <1>1, <2>2 DEF Inv, WriterInv, Restricted
  <1>2. Inv /\ StoryOK /\ [Next]_vars =>
          [\A t \in Writers : \A a \in exists :
            (/\ At(t, "write") /\ ctx[t].caller # None /\ tags'[a] # tags[a]
             /\ ctx'[t].queue # ctx[t].queue /\ ~can_write_all_resources(ctx[t].caller))
            => a \in seen[t]]_vars
    BY <1>1
  <1>. QED
    BY <1>2, Invariance, PTL DEF Spec, OwnersWriteTheirOwn

\* Strict mode never makes a compliant resource violate the schema, whatever
\* the schema, the settings and the other tags.
THEOREM WriteKeepsComplianceHolds == Spec => WriteKeepsCompliance
  <1>1. ASSUME Inv, StoryOK, [Next]_vars, NEW t \in Writers, NEW a \in exists,
               GOVERNANCE_STRICT_MODE, At(t, "write"), ctx[t].caller # None,
               ctx'[t].queue # ctx[t].queue,
               IsCompliant(tags[a]), AllCanonical(tags[a]), NoBlanks(ctx[t].set)
        PROVE  IsCompliant(tags'[a])
    <2>1. PICK arns \in SUBSET (exists \cap ctx[t].queue) : Tagged(arns, ctx[t].set)
      BY <1>1, WritingStep
    <2>2. tags'[a] = IF a \in arns THEN Written(tags[a], ctx[t].set) ELSE tags[a]
      BY <2>1 DEF Tagged
    <2>3. IsFcn(tags[a]) /\ HasCanonicalKeys(tags[a])
      BY <1>1 DEF Inv, TablesOK, AllCanonical, HasCanonicalKeys
    <2>4. Compliant(tags[a], tags[a])
      BY <1>1, <2>3, CanonicalTagsStay DEF IsCompliant
    <2>5. ValidSet(ctx[t].set)
      BY <1>1 DEF Inv, WriterInv, At
    <2>6. PICK req : IsTagSet(req) /\ ctx[t].set \in normalize(req) /\ ValidWrite(req, ctx[t].set)
      BY <1>1, <2>5 DEF ValidSet
    <2>7. Compliant(Written(tags[a], ctx[t].set), Written(tags[a], ctx[t].set))
      BY <1>1, <2>3, <2>4, <2>6, ValidWritesKeepCompliance DEF NoBlanks
    <2>8. Written(tags[a], ctx[t].set) \in normalize(Written(tags[a], ctx[t].set))
      BY <2>3, <2>5, WrittenTags, CanonicalTagsStay DEF ValidSet
    <2>9. IsCompliant(Written(tags[a], ctx[t].set))
      BY <2>7, <2>8 DEF IsCompliant
    <2>. QED
      BY <1>1, <2>2, <2>9
  <1>2. Inv /\ StoryOK /\ [Next]_vars =>
          [\A t \in Writers : \A a \in exists :
            (/\ GOVERNANCE_STRICT_MODE /\ At(t, "write") /\ ctx[t].caller # None /\ ctx'[t].queue # ctx[t].queue
             /\ IsCompliant(tags[a]) /\ AllCanonical(tags[a]) /\ NoBlanks(ctx[t].set))
            => IsCompliant(tags'[a])]_vars
    BY <1>1
  <1>. QED
    BY <1>2, Invariance, PTL DEF Spec, WriteKeepsCompliance

\* An owner is replaced only where none had been, at some time since the
\* invocation began, or where the resource was never found.
THEOREM OwnerKeptHolds == Spec => OwnerKept
  <1>1. ASSUME Inv, StoryOK, [Next]_vars, NEW t \in Autos, NEW a \in exists,
               pc[t] \in {"tag", "tagOne"}, ctx'[t].queue # ctx[t].queue,
               ~is_missing_owner_tag(tags[a]),
               tags'[a][OWNER_TAG_KEY] # tags[a][OWNER_TAG_KEY]
        PROVE  a \in seen[t] \/ (At(t, "tag") /\ a \notin DOMAIN ctx[t].found)
    <2>1. Writers \subseteq Threads /\ Autos \subseteq Threads /\ Enforcers \subseteq Threads /\ ThreadsOK
      BY <1>1 DEF Threads, Inv
    <2>2. ctx'[t] # ctx[t] /\ tags'[a] # tags[a]
      BY <1>1
    <2>3. ASSUME NEW u \in Threads, Moves(u) PROVE u = t
      BY <2>1, <2>2, <2>3 DEF Moves
    <2>4. ASSUME NEW u \in Enforcers, (\E e \in deliveries : StartEnforcer(u, e)) \/ EnforcerStep(u)
          PROVE  FALSE
      BY <2>1, <2>3, <2>4, EnforcerMoves, TagOnCreateAssumption
    <2>5. ASSUME NEW u \in Writers, WriterStep(u) PROVE FALSE
      BY <2>1, <2>3, <2>5, WriterMoves, TagOnCreateAssumption
    <2>6. ASSUME NEW u \in Autos,
                 \/ \E e \in deliveries : StartAuto(u, e)
                 \/ StartScan(u) \/ AutoStep(u) \/ ScanStep(u)
          PROVE  u = t
      BY <2>1, <2>3, <2>6, AutoMoves
    <2>7. Step
      BY <1>1, <2>2 DEF Next, vars
    <2>8. \/ \E e \in deliveries : StartAuto(t, e)
          \/ StartScan(t) \/ AutoStep(t) \/ ScanStep(t)
      BY <1>1, <2>2, <2>4, <2>5, <2>6, <2>7, StepCases DEF StoryOK
    <2>9. TagBatch(t)
      BY <2>2, <2>8 DEF AutoStep, ScanStep, StartAuto, StartScan, FetchBatch, NextAttempt, FetchRegion,
         EndAuto, DecideTag, get_all_regions, ScanRegion, EndScan, Lookup, EndRegion, aws
    <2>10. PICK batch \in Batches(ctx[t].queue) : \E o \in Outcomes(batch) : Tagged(o.tagged, ctx[t].set)
      BY <2>9 DEF TagBatch
    <2>11. PICK o \in Outcomes(batch) : Tagged(o.tagged, ctx[t].set)
      BY <2>10
    <2>12. a \in ctx[t].queue
      BY <1>1, <2>2, <2>11, OutcomesExist DEF Tagged, Batches
    <2>. QED
      BY <1>1, <2>12 DEF Inv, AutoInv, At
  <1>2. Inv /\ StoryOK /\ [Next]_vars =>
          [\A t \in Autos : \A a \in exists :
            (/\ pc[t] \in {"tag", "tagOne"} /\ ctx'[t].queue # ctx[t].queue
             /\ ~is_missing_owner_tag(tags[a])
             /\ tags'[a][OWNER_TAG_KEY] # tags[a][OWNER_TAG_KEY])
            => a \in seen[t] \/ (At(t, "tag") /\ a \notin DOMAIN ctx[t].found)]_vars
    BY <1>1
  <1>. QED
    BY <1>2, Invariance, PTL DEF Spec, OwnerKept
-----------------------------------------------------------------------------
(***************************************************************************)
(* TypeOK.  An invocation asks only for what was mentioned, and what is    *)
(* left to ask for shrinks: left, queue and retry stay apart, so nothing   *)
(* is asked for twice at once; it carries tags in the schema's terms.      *)
(***************************************************************************)

\* Callers that CloudTrail records.
Identities == {e.userIdentity : e \in {c.detail : c \in Calls} \cup Editions}
Records == [call : Calls \cup {None}, names : SUBSET Mentioned, userIdentity : Identities]

WorldOK ==
    /\ exists \subseteq Arns
    /\ \A a \in exists : IsTagSet(tags[a]) /\ (tags[a] # NoTags => a \in listed)
    /\ trail \in Seq(Records)
    /\ \A e \in deliveries : \E c \in Calls, to \in {"tag-on-create", "enforcement"} : e = Event(c, to)

BoundsOK == scans \in Nat /\ edits \in Nat /\ faults \in Nat /\ scans + edits + faults <= story.room

ListsOK(t) ==
    /\ pc[t] \in Locations /\ ctx[t].attempt \in 0..TAG_LOOKUP_RETRIES
    /\ ctx[t].queue \cup ctx[t].left \cup ctx[t].group \subseteq Mentioned
    /\ pc[t] \notin {"authorize", "fetch", "tag", "tagOne", "write"} => ctx[t].queue = {}
    /\ pc[t] \in {"fetch", "tag", "tagOne", "write"} => ctx[t].queue \cap ctx[t].left = {}
    /\ pc[t] = "authorize" => ctx[t].queue \subseteq ctx[t].left
    /\ pc[t] = "fetch" => /\ ctx[t].queue \cap ctx[t].retry = {} /\ ctx[t].group \cap ctx[t].left = {}
                          /\ ctx[t].queue \cup ctx[t].retry \cup DOMAIN ctx[t].found = ctx[t].group

TagsOK(t) ==
    /\ IsTagSet(ctx[t].set)
    /\ \A a \in DOMAIN ctx[t].found : IsTagSet(ctx[t].found[a])
    /\ t \in Autos /\ pc[t] \in {"regions", "fetch", "tag"} => ctx[t].owner \in Values

Typed(t) == ListsOK(t) /\ TagsOK(t)

-----------------------------------------------------------------------------
LEMMA NoTagsIsTagSet == IsTagSet(NoTags) /\ DOMAIN NoTags = {}
BY DEF NoTags, IsTagSet

LEMMA NoCtxTyped ==
    ASSUME NEW t \in Threads, pc'[t] = "idle", ctx'[t] = NoCtx
    PROVE  Typed(t)'
  <1>1. /\ NoCtx.attempt = 0 /\ NoCtx.queue = {} /\ NoCtx.left = {} /\ NoCtx.group = {}
        /\ NoCtx.set = NoTags /\ NoCtx.found = NoTags
    BY DEF NoCtx
  <1>2. 0 \in 0..TAG_LOOKUP_RETRIES
    BY TagOnCreateAssumption
  <1>. QED
    BY <1>1, <1>2, NoTagsIsTagSet DEF Typed, ListsOK, TagsOK, Locations

LEMMA ReturnTyped ==
    ASSUME ThreadsOK, NEW t \in Threads, Return(t) PROVE Typed(t)'
  <1>1. pc'[t] = "idle" /\ ctx'[t] = NoCtx
    BY DEF Return, Goto, ThreadsOK
  <1>. QED
    BY <1>1, NoCtxTyped

\* Where a thread is and what it has.
LEMMA ThreadFacts ==
    ASSUME ThreadsOK, NEW t \in Threads
    PROVE  /\ t \in DOMAIN pc /\ t \in DOMAIN ctx
           /\ DOMAIN ctx[t] = {"owner", "region", "regions", "left", "group", "queue", "retry", "attempt",
                               "found", "set", "failed", "done", "asked", "caller", "outcome"}
BY NoCtxFields DEF ThreadsOK

\* A thread that only goes on: nothing is left in its queue.
LEMMA GotoTyped ==
    ASSUME ThreadsOK, NEW t \in Threads, Typed(t), ctx[t].queue = {}, NEW l \in Locations, Goto(t, l),
           l \notin {"fetch", "regions", "tag"},
           ctx'[t].queue = {}, ctx'[t].left \subseteq Mentioned,
           ctx'[t].group \subseteq Mentioned, ctx'[t].attempt = ctx[t].attempt,
           IsTagSet(ctx'[t].set), ctx'[t].found = ctx[t].found
    PROVE  Typed(t)'
  <1>1. pc'[t] = l
    BY ThreadFacts DEF Goto
  <1>2. ListsOK(t)'
    BY <1>1 DEF Typed, ListsOK
  <1>3. TagsOK(t)'
    BY <1>1 DEF Typed, TagsOK
  <1>. QED
    BY <1>2, <1>3 DEF Typed

-----------------------------------------------------------------------------
\* What an event names was mentioned by the call it tells of.
LEMMA EventNames ==
    ASSUME WorldOK, NEW e \in deliveries
    PROVE  LET p == parse_detail(e) IN
           /\ EVENT_EXTRACTORS(p.detail, p.envelope) \subseteq Mentioned
           /\ owner_from_user_identity(p.detail.userIdentity) \in Values \cup {None}
  <1>1. PICK c \in Calls, to \in {"tag-on-create", "enforcement"} : e = Event(c, to)
    BY DEF WorldOK
  <1>2. c.detail # None /\ owner_from_user_identity(c.detail.userIdentity) \in Values \cup {None}
    BY TagOnCreateAssumption
  <1>3. parse_detail(e) = [detail |-> c.detail, envelope |-> c.envelope]
    BY <1>1, <1>2 DEF parse_detail, Event
  <1>4. Names(c) \subseteq Mentioned
    BY DEF Mentioned
  <1>. QED
    BY <1>2, <1>3, <1>4 DEF Names

LEMMA StartAutoTyped ==
    ASSUME ThreadsOK, WorldOK, NEW t \in Threads, Typed(t), NEW e \in deliveries, StartAuto(t, e)
    PROVE  Typed(t)'
  <1> DEFINE p == parse_detail(e)
             owner == owner_from_user_identity(p.detail.userIdentity)
             arns == EVENT_EXTRACTORS(p.detail, p.envelope)
  <1>1. arns \subseteq Mentioned /\ owner \in Values \cup {None}
    BY EventNames
  <1>2. pc[t] = "idle" /\ ctx[t].queue = {}
    BY DEF StartAuto, At, Typed, ListsOK
  <1>3. CASE UNCHANGED <<pc, ctx>>
    BY <1>3 DEF Typed, ListsOK, TagsOK
  <1>4. CASE owner # None /\ Goto(t, "regions")
             /\ ctx' = [ctx EXCEPT ![t].owner = owner, ![t].left = arns,
                              ![t].region = _region(p.detail, p.envelope)]
    <2>. HIDE DEF owner, arns, p
    <2>1. /\ ctx'[t].owner = owner /\ ctx'[t].left = arns /\ ctx'[t].queue = ctx[t].queue
          /\ ctx'[t].group = ctx[t].group /\ ctx'[t].attempt = ctx[t].attempt
          /\ ctx'[t].set = ctx[t].set /\ ctx'[t].found = ctx[t].found /\ pc'[t] = "regions"
      BY <1>4, ThreadFacts DEF Goto
    <2>2. ListsOK(t)'
      BY <1>1, <1>2, <2>1 DEF Typed, ListsOK, Locations
    <2>3. TagsOK(t)'
      BY <1>1, <1>4, <2>1 DEF Typed, TagsOK
    <2>. QED
      BY <2>2, <2>3 DEF Typed
  <1>. QED
    BY <1>3, <1>4 DEF StartAuto

LEMMA FetchBatchTyped ==
    ASSUME ThreadsOK, TablesOK, WorldOK, NEW t \in Threads, Typed(t), FetchBatch(t)
    PROVE  Typed(t)'
  <1>1. pc[t] = "fetch" /\ pc'[t] = "fetch" /\ tags' = tags
    BY DEF FetchBatch, At, aws
  <1>2. PICK batch \in Batches(ctx[t].queue) :
           \/ ctx' = [ctx EXCEPT ![t].queue = @ \ batch, ![t].retry = @ \cup (batch \ InReach(t)),
                         ![t].found = Written(@, [a \in batch \cap InReach(t) |-> tags[a]])]
           \/ ctx' = [ctx EXCEPT ![t].queue = @ \ batch, ![t].retry = @ \cup batch]
    BY DEF FetchBatch
  <1>3. batch \subseteq ctx[t].queue
    BY DEF Batches
  <1>4. PICK new \in SUBSET (batch \cap listed) :
           /\ ctx'[t].queue = ctx[t].queue \ batch /\ ctx'[t].retry = ctx[t].retry \cup (batch \ new)
           /\ ctx'[t].left = ctx[t].left /\ ctx'[t].group = ctx[t].group
           /\ ctx'[t].attempt = ctx[t].attempt /\ ctx'[t].set = ctx[t].set /\ ctx'[t].owner = ctx[t].owner
           /\ \/ ctx'[t].found = Written(ctx[t].found, [a \in new |-> tags[a]])
              \/ new = {} /\ ctx'[t].found = ctx[t].found
    <2>1. CASE ctx' = [ctx EXCEPT ![t].queue = @ \ batch, ![t].retry = @ \cup (batch \ InReach(t)),
                         ![t].found = Written(@, [a \in batch \cap InReach(t) |-> tags[a]])]
      <3>1. batch \ InReach(t) = batch \ (batch \cap InReach(t))
        OBVIOUS
      <3>2. /\ ctx'[t].queue = ctx[t].queue \ batch /\ ctx'[t].retry = ctx[t].retry \cup (batch \ InReach(t))
            /\ ctx'[t].left = ctx[t].left /\ ctx'[t].group = ctx[t].group
            /\ ctx'[t].attempt = ctx[t].attempt /\ ctx'[t].set = ctx[t].set /\ ctx'[t].owner = ctx[t].owner
            /\ ctx'[t].found = Written(ctx[t].found, [a \in batch \cap InReach(t) |-> tags[a]])
        BY <2>1, ThreadFacts
      <3>3. batch \cap InReach(t) \in SUBSET (batch \cap listed)
        BY DEF InReach
      <3>. QED
        BY <3>1, <3>2, <3>3, Zenon
    <2>2. CASE ctx' = [ctx EXCEPT ![t].queue = @ \ batch, ![t].retry = @ \cup batch]
      <3>1. /\ ctx'[t].queue = ctx[t].queue \ batch /\ ctx'[t].retry = ctx[t].retry \cup (batch \ {})
            /\ ctx'[t].left = ctx[t].left /\ ctx'[t].group = ctx[t].group
            /\ ctx'[t].attempt = ctx[t].attempt /\ ctx'[t].set = ctx[t].set /\ ctx'[t].owner = ctx[t].owner
            /\ ctx'[t].found = ctx[t].found
        BY <2>2, ThreadFacts
      <3>. QED
        BY <3>1
    <2>. QED
      BY <1>2, <2>1, <2>2
  <1>5. DOMAIN ctx'[t].found = DOMAIN ctx[t].found \cup new
    BY <1>4 DEF Written
  <1>6. \A a \in DOMAIN ctx'[t].found : ctx'[t].found[a] \in {tags[a], ctx[t].found[a]}
                                        /\ (a \in new \/ ctx'[t].found[a] = ctx[t].found[a])
    BY <1>4 DEF Written
  <1>7. \A a \in new : IsTagSet(tags[a])
    BY DEF TablesOK, WorldOK
  <1>8. \A a \in DOMAIN ctx'[t].found : IsTagSet(ctx'[t].found[a])
    BY <1>4, <1>5, <1>6, <1>7 DEF Typed, TagsOK, Written
  <1>9. ListsOK(t)'
    BY <1>1, <1>3, <1>4, <1>5 DEF Typed, ListsOK
  <1>. QED
    BY <1>1, <1>4, <1>8, <1>9 DEF Typed, TagsOK

LEMMA NextAttemptTyped ==
    ASSUME ThreadsOK, NEW t \in Threads, Typed(t), NextAttempt(t)
    PROVE  Typed(t)'
  <1>1. /\ pc[t] = "fetch" /\ pc'[t] = "fetch" /\ ctx[t].queue = {} /\ ctx[t].attempt < TAG_LOOKUP_RETRIES
    BY DEF NextAttempt, At
  <1>2. /\ ctx'[t].queue = ctx[t].retry /\ ctx'[t].retry = {} /\ ctx'[t].attempt = ctx[t].attempt + 1
        /\ ctx'[t].left = ctx[t].left /\ ctx'[t].group = ctx[t].group /\ ctx'[t].set = ctx[t].set
        /\ ctx'[t].owner = ctx[t].owner /\ ctx'[t].found = ctx[t].found
    BY ThreadFacts DEF NextAttempt
  <1>3. ctx'[t].attempt \in 0..TAG_LOOKUP_RETRIES
    BY <1>1, <1>2, TagOnCreateAssumption DEF Typed, ListsOK
  <1>4. ListsOK(t)'
    BY <1>1, <1>2, <1>3 DEF Typed, ListsOK
  <1>. QED
    BY <1>1, <1>2, <1>4 DEF Typed, TagsOK

\* The ARNs of a region are on the list.
LEMMA InRegionLeft == ASSUME NEW t, NEW r PROVE InRegion(t, r) \subseteq ctx[t].left
BY DEF InRegion

\* A fetch begins with a list of its own.
LEMMA FetchTyped ==
    ASSUME ThreadsOK, NEW t \in Threads, pc'[t] = "fetch", NEW arns \in SUBSET Mentioned,
           NEW c, DOMAIN c = CtxFields, ctx'[t] = Fetch(arns, c),
           c.left \subseteq Mentioned, c.left \cap arns = {}, IsTagSet(c.set),
           t \in Autos => c.owner \in Values
    PROVE  Typed(t)'
  <1>1. /\ ctx'[t].group = arns /\ ctx'[t].queue = arns /\ ctx'[t].retry = {} /\ ctx'[t].attempt = 1
        /\ ctx'[t].found = NoTags /\ ctx'[t].left = c.left /\ ctx'[t].set = c.set
        /\ ctx'[t].owner = c.owner
    BY NoCtxFields DEF Fetch
  <1>2. 1 \in 0..TAG_LOOKUP_RETRIES
    BY TagOnCreateAssumption
  <1>3. ListsOK(t)'
    BY <1>1, <1>2, NoTagsIsTagSet DEF ListsOK, Locations
  <1>. QED
    BY <1>1, <1>3, NoTagsIsTagSet DEF Typed, TagsOK

LEMMA FetchRegionTyped ==
    ASSUME ThreadsOK, NEW t \in Autos, Typed(t), FetchRegion(t)
    PROVE  Typed(t)'
  <1>1. PICK r \in Regions(t) : ctx' = [ctx EXCEPT ![t] =
            Fetch(InRegion(t, r), [ctx[t] EXCEPT !.left = @ \ InRegion(t, r)])]
    BY DEF FetchRegion
  <1> DEFINE c == [ctx[t] EXCEPT !.left = @ \ InRegion(t, r)]
  <1>2. t \in Threads /\ pc[t] = "regions" /\ pc'[t] = "fetch"
    BY ThreadFacts DEF FetchRegion, At, Goto, Threads
  <1>3. /\ DOMAIN c = CtxFields /\ c.left = ctx[t].left \ InRegion(t, r) /\ c.set = ctx[t].set
        /\ c.owner = ctx[t].owner
    BY <1>2, ThreadFacts, NoCtxFields
  <1>4. InRegion(t, r) \in SUBSET Mentioned /\ ctx[t].left \subseteq Mentioned
    BY InRegionLeft DEF Typed, ListsOK
  <1>5. ctx'[t] = Fetch(InRegion(t, r), c)
    BY <1>1, <1>2, ThreadFacts
  <1>. HIDE DEF c
  <1>6. c.left \subseteq Mentioned /\ c.left \cap InRegion(t, r) = {}
    BY <1>3, <1>4
  <1>7. IsTagSet(c.set) /\ c.owner \in Values
    BY <1>2, <1>3 DEF Typed, TagsOK
  <1>. QED
    BY <1>2, <1>3, <1>4, <1>5, <1>6, <1>7, FetchTyped

\* The tag that names an owner is a tag set, and so is what it normalizes to.
LEMMA OwnerTagTyped ==
    ASSUME NEW owner \in Values, NEW set \in normalize(OwnerTag(owner)) PROVE IsTagSet(set)
  <1>1. IsTagSet(OwnerTag(owner))
    BY TagOnCreateAssumption DEF OwnerTag, IsTagSet
  <1>. QED
    BY <1>1, NormalizedTags

LEMMA DecideTagTyped ==
    ASSUME ThreadsOK, NEW t \in Autos, Typed(t), DecideTag(t)
    PROVE  Typed(t)'
  <1>1. t \in Threads /\ pc[t] = "fetch" /\ ctx[t].queue = {} /\ ctx[t].owner \in Values
    BY DEF DecideTag, Fetched, At, Threads, Typed, TagsOK
  <1>2. CASE Goto(t, "regions") /\ UNCHANGED ctx
    <2>1. pc'[t] = "regions" /\ ctx'[t] = ctx[t]
      BY <1>1, <1>2, ThreadFacts DEF Goto
    <2>. QED
      BY <1>1, <2>1 DEF Typed, ListsOK, TagsOK, Locations
  <1>3. ASSUME NEW set \in normalize(OwnerTag(ctx[t].owner)), Goto(t, "tag"),
               ctx' = [ctx EXCEPT ![t].queue = to_tag(ctx[t]), ![t].set = set]
        PROVE  Typed(t)'
    <2>1. IsTagSet(set)
      BY <1>1, <1>3, OwnerTagTyped
    <2>2. /\ ctx'[t].queue = to_tag(ctx[t]) /\ ctx'[t].left = ctx[t].left /\ ctx'[t].group = ctx[t].group
          /\ ctx'[t].attempt = ctx[t].attempt /\ ctx'[t].set = set /\ ctx'[t].owner = ctx[t].owner
          /\ ctx'[t].found = ctx[t].found /\ pc'[t] = "tag"
      BY <1>1, <1>3, ThreadFacts DEF Goto
    <2>3. to_tag(ctx[t]) \subseteq ctx[t].group
      BY DEF to_tag
    <2>4. ListsOK(t)'
      BY <1>1, <2>2, <2>3 DEF Typed, ListsOK, Locations
    <2>. QED
      BY <1>1, <2>1, <2>2, <2>4 DEF Typed, TagsOK
  <1>. QED
    BY <1>2, <1>3 DEF DecideTag

LEMMA TagBatchTyped ==
    ASSUME ThreadsOK, NEW t \in Threads, Typed(t), TagBatch(t)
    PROVE  Typed(t)'
  <1>1. PICK batch \in Batches(ctx[t].queue) :
           /\ ctx' = [ctx EXCEPT ![t].queue = @ \ batch]
           /\ IF batch # ctx[t].queue THEN UNCHANGED pc
              ELSE Goto(t, IF At(t, "tag") THEN "regions" ELSE "lookup")
    BY DEF TagBatch
  <1>2. /\ ctx'[t].queue = ctx[t].queue \ batch /\ ctx'[t].left = ctx[t].left /\ ctx'[t].group = ctx[t].group
        /\ ctx'[t].attempt = ctx[t].attempt /\ ctx'[t].set = ctx[t].set /\ ctx'[t].owner = ctx[t].owner
        /\ ctx'[t].found = ctx[t].found
    BY <1>1, ThreadFacts
  <1>3. pc[t] \in {"tag", "tagOne"}
    BY DEF TagBatch
  <1>4. \/ pc'[t] = pc[t]
        \/ batch = ctx[t].queue /\ pc[t] = "tag" /\ pc'[t] = "regions"
        \/ batch = ctx[t].queue /\ pc[t] = "tagOne" /\ pc'[t] = "lookup"
    BY <1>1, <1>3, ThreadFacts DEF Goto, At
  <1>5. ListsOK(t)'
    BY <1>2, <1>3, <1>4 DEF Typed, ListsOK, Locations
  <1>6. TagsOK(t)'
    BY <1>2, <1>3, <1>4 DEF Typed, TagsOK
  <1>. QED
    BY <1>5, <1>6 DEF Typed

-----------------------------------------------------------------------------
LEMMA ScanStarts ==
    ASSUME ThreadsOK, NEW t \in Threads, Typed(t), StartScan(t) \/ get_all_regions(t)
    PROVE  Typed(t)'
  <1>1. ctx[t].queue = {} /\ ctx[t].left \subseteq Mentioned /\ ctx[t].group \subseteq Mentioned
        /\ IsTagSet(ctx[t].set)
    BY DEF StartScan, get_all_regions, At, Typed, ListsOK, TagsOK
  <1>2. /\ ctx'[t].queue = ctx[t].queue /\ ctx'[t].left = ctx[t].left /\ ctx'[t].group = ctx[t].group
        /\ ctx'[t].attempt = ctx[t].attempt /\ ctx'[t].set = ctx[t].set /\ ctx'[t].found = ctx[t].found
    BY ThreadFacts DEF StartScan, get_all_regions
  <1>3. Goto(t, "listRegions") \/ Goto(t, "scan")
    BY DEF StartScan, get_all_regions
  <1>4. {"listRegions", "scan"} \subseteq Locations
    BY DEF Locations
  <1>. QED
    BY <1>1, <1>2, <1>3, <1>4, GotoTyped

\* A thread that stays where it is and has nothing in its queue.
LEMMA StayTyped ==
    ASSUME NEW t, Typed(t), pc'[t] = pc[t], pc[t] \notin {"authorize", "fetch", "tag", "tagOne", "write"},
           ctx'[t].queue = {}, ctx'[t].left \subseteq Mentioned, ctx'[t].group \subseteq Mentioned,
           ctx'[t].attempt = ctx[t].attempt, ctx'[t].set = ctx[t].set, ctx'[t].owner = ctx[t].owner,
           ctx'[t].found = ctx[t].found
    PROVE  Typed(t)'
  <1>1. ListsOK(t)'
    BY DEF Typed, ListsOK
  <1>. QED
    BY <1>1 DEF Typed, TagsOK

LEMMA ScanRegionTyped ==
    ASSUME ThreadsOK, WorldOK, TablesOK, NEW t \in Threads, Typed(t), ScanRegion(t)
    PROVE  Typed(t)'
  <1>1. PICK r \in ctx[t].regions :
          \/ /\ ctx' = [ctx EXCEPT ![t].regions = @ \ {r},
                   ![t].left = {a \in listed \cap Ownerless : get_region_from_arn(a, DEFAULT_REGION) = r}]
             /\ Goto(t, "lookup")
          \/ ctx' = [ctx EXCEPT ![t].regions = @ \ {r}] /\ UNCHANGED pc
    BY DEF ScanRegion
  <1>2. pc[t] = "scan" /\ ctx[t].queue = {} /\ ctx[t].left \subseteq Mentioned
        /\ ctx[t].group \subseteq Mentioned /\ IsTagSet(ctx[t].set)
    BY DEF ScanRegion, At, Typed, ListsOK, TagsOK
  <1>3. ASSUME NEW left \in SUBSET listed, Goto(t, "lookup"),
               ctx' = [ctx EXCEPT ![t].regions = @ \ {r}, ![t].left = left]
        PROVE  Typed(t)'
    <2>1. /\ ctx'[t].queue = ctx[t].queue /\ ctx'[t].left = left /\ ctx'[t].group = ctx[t].group
          /\ ctx'[t].attempt = ctx[t].attempt /\ ctx'[t].set = ctx[t].set /\ ctx'[t].found = ctx[t].found
      BY <1>3, ThreadFacts
    <2>2. left \subseteq Mentioned
      BY DEF TablesOK, WorldOK, Mentioned
    <2>3. "lookup" \in Locations
      BY DEF Locations
    <2>. QED
      BY <1>2, <1>3, <2>1, <2>2, <2>3, GotoTyped
  <1>4. CASE ctx' = [ctx EXCEPT ![t].regions = @ \ {r}] /\ UNCHANGED pc
    <2>1. /\ ctx'[t].queue = ctx[t].queue /\ ctx'[t].left = ctx[t].left /\ ctx'[t].group = ctx[t].group
          /\ ctx'[t].attempt = ctx[t].attempt /\ ctx'[t].set = ctx[t].set /\ ctx'[t].found = ctx[t].found
          /\ ctx'[t].owner = ctx[t].owner /\ pc'[t] = pc[t]
      BY <1>4, ThreadFacts
    <2>. QED
      BY <1>2, <2>1, StayTyped
  <1>5. {a \in listed \cap Ownerless : get_region_from_arn(a, DEFAULT_REGION) = r} \in SUBSET listed
    OBVIOUS
  <1>. QED
    BY <1>1, <1>3, <1>4, <1>5

\* Whom CloudTrail names as creator is a caller it recorded.
LEMMA LookupFindsCallers ==
    ASSUME WorldOK, NEW a, lookup_owner_for_resource(a) # None
    PROVE  lookup_owner_for_resource(a) \in Values
  <1> DEFINE events == {i \in DOMAIN trail : a \in trail[i].names}
             page(i) == Cardinality({j \in events : j > i}) \div PageSize
             known == {i \in events : owner_from_user_identity(trail[i].userIdentity) # None}
             first == {i \in known : \A j \in known : page(i) < page(j) \/ (page(i) = page(j) /\ i <= j)}
             i == CHOOSE i \in first : TRUE
  <1>1. first # {} /\ lookup_owner_for_resource(a) = owner_from_user_identity(trail[i].userIdentity)
    BY DEF lookup_owner_for_resource
  <1>2. i \in first
    BY <1>1
  <1>. HIDE DEF i, page
  <1>3. i \in DOMAIN trail
    BY <1>2
  <1>4. trail[i].userIdentity \in Identities
    <2>1. trail \in Seq(Records)
      BY DEF WorldOK
    <2>2. trail[i] \in Records
      BY <1>3, <2>1
    <2>. QED
      BY <2>2 DEF Records
  <1>5. owner_from_user_identity(trail[i].userIdentity) \in Values \cup {None}
    BY <1>4, TagOnCreateAssumption DEF Identities
  <1>. QED
    BY <1>1, <1>5 DEF i

LEMMA LookupTyped ==
    ASSUME ThreadsOK, WorldOK, NEW t \in Threads, Typed(t), Lookup(t)
    PROVE  Typed(t)'
  <1>1. PICK a \in ctx[t].left :
          \/ /\ lookup_owner_for_resource(a) # None
             /\ \E set \in normalize(OwnerTag(lookup_owner_for_resource(a))) :
                   ctx' = [ctx EXCEPT ![t].left = @ \ {a}, ![t].queue = {a}, ![t].set = set]
             /\ Goto(t, "tagOne")
          \/ ctx' = [ctx EXCEPT ![t].left = @ \ {a}] /\ UNCHANGED pc
    BY DEF Lookup
  <1>2. /\ pc[t] = "lookup" /\ ctx[t].queue = {} /\ ctx[t].left \subseteq Mentioned
        /\ ctx[t].group \subseteq Mentioned
    BY DEF Lookup, At, Typed, ListsOK
  <1>3. CASE /\ lookup_owner_for_resource(a) # None
             /\ \E set \in normalize(OwnerTag(lookup_owner_for_resource(a))) :
                   ctx' = [ctx EXCEPT ![t].left = @ \ {a}, ![t].queue = {a}, ![t].set = set]
             /\ Goto(t, "tagOne")
    <2>1. PICK set \in normalize(OwnerTag(lookup_owner_for_resource(a))) :
             ctx' = [ctx EXCEPT ![t].left = @ \ {a}, ![t].queue = {a}, ![t].set = set]
      BY <1>3
    <2>2. IsTagSet(set)
      BY <1>3, LookupFindsCallers, OwnerTagTyped
    <2>3. /\ ctx'[t].queue = {a} /\ ctx'[t].left = ctx[t].left \ {a} /\ ctx'[t].group = ctx[t].group
          /\ ctx'[t].attempt = ctx[t].attempt /\ ctx'[t].set = set /\ ctx'[t].owner = ctx[t].owner
          /\ ctx'[t].found = ctx[t].found /\ pc'[t] = "tagOne"
      BY <1>3, <2>1, ThreadFacts DEF Goto
    <2>4. ListsOK(t)'
      BY <1>2, <2>3 DEF Typed, ListsOK, Locations
    <2>. QED
      BY <2>2, <2>3, <2>4 DEF Typed, TagsOK
  <1>4. CASE ctx' = [ctx EXCEPT ![t].left = @ \ {a}] /\ UNCHANGED pc
    <2>1. /\ ctx'[t].queue = ctx[t].queue /\ ctx'[t].left = ctx[t].left \ {a} /\ ctx'[t].group = ctx[t].group
          /\ ctx'[t].attempt = ctx[t].attempt /\ ctx'[t].set = ctx[t].set /\ ctx'[t].owner = ctx[t].owner
          /\ ctx'[t].found = ctx[t].found /\ pc'[t] = pc[t]
      BY <1>4, ThreadFacts
    <2>. QED
      BY <1>2, <2>1, StayTyped
  <1>. QED
    BY <1>1, <1>3, <1>4

\* Steps that change the place only.
LEMMA PlaceTyped ==
    ASSUME ThreadsOK, NEW t \in Threads, Typed(t), EndRegion(t) \/ Mutated(t)
    PROVE  Typed(t)'
  <1>1. ctx[t].queue = {} /\ ctx[t].left \subseteq Mentioned /\ ctx[t].group \subseteq Mentioned
        /\ IsTagSet(ctx[t].set)
    BY DEF EndRegion, Mutated, At, Typed, ListsOK, TagsOK
  <1>2. ctx' = ctx /\ (Goto(t, "scan") \/ Goto(t, "evaluate"))
    BY DEF EndRegion, Mutated
  <1>3. {"scan", "evaluate"} \subseteq Locations
    BY DEF Locations
  <1>. QED
    BY <1>1, <1>2, <1>3, GotoTyped

LEMMA AutoTyped ==
    ASSUME ThreadsOK, TablesOK, WorldOK, NEW t \in Autos, Typed(t),
           \/ \E e \in deliveries : StartAuto(t, e)
           \/ StartScan(t) \/ AutoStep(t) \/ ScanStep(t)
    PROVE  Typed(t)'
  <1>1. t \in Threads
    BY DEF Threads
  <1>2. CASE EndAuto(t) \/ EndScan(t)
    BY <1>1, <1>2, ReturnTyped DEF EndAuto, EndScan
  <1>. QED
    BY <1>1, <1>2, StartAutoTyped, FetchBatchTyped, NextAttemptTyped, FetchRegionTyped, DecideTagTyped,
       TagBatchTyped, ScanStarts, ScanRegionTyped, LookupTyped, PlaceTyped DEF AutoStep, ScanStep

-----------------------------------------------------------------------------
LEMMA StartEnforcerTyped ==
    ASSUME ThreadsOK, WorldOK, NEW t \in Enforcers, Typed(t), NEW e \in deliveries, StartEnforcer(t, e)
    PROVE  Typed(t)'
  <1> DEFINE p == parse_detail(e)
             arns == EVENT_EXTRACTORS(p.detail, p.envelope)
             c == [NoCtx EXCEPT !.region = _region(p.detail, p.envelope)]
  <1>1. arns \in SUBSET Mentioned /\ t \in Threads /\ t \notin Autos
    BY EventNames, TagOnCreateAssumption DEF Threads
  <1>2. \/ UNCHANGED <<pc, ctx>>
        \/ Goto(t, "fetch") /\ ctx' = [ctx EXCEPT ![t] = Fetch(arns, c)]
    BY DEF StartEnforcer
  <1>5. DOMAIN c = CtxFields /\ c.left = {} /\ c.set = NoTags
    BY DEF CtxFields, NoCtx
  <1>. HIDE DEF arns, p, c
  <1>3. CASE UNCHANGED <<pc, ctx>>
    BY <1>3 DEF Typed, ListsOK, TagsOK
  <1>4. CASE Goto(t, "fetch") /\ ctx' = [ctx EXCEPT ![t] = Fetch(arns, c)]
    <2>1. pc'[t] = "fetch" /\ ctx'[t] = Fetch(arns, c)
      BY <1>1, <1>4, ThreadFacts DEF Goto
    <2>. QED
      BY <1>1, <1>5, <2>1, NoTagsIsTagSet, FetchTyped
  <1>. QED
    BY <1>2, <1>3, <1>4

LEMMA StartEvaluationTyped ==
    ASSUME ThreadsOK, NEW t \in Threads, Typed(t), StartEvaluation(t)
    PROVE  Typed(t)'
  <1>1. /\ ctx[t].queue = {} /\ ctx[t].group \subseteq Mentioned /\ IsTagSet(ctx[t].set)
    BY DEF StartEvaluation, Fetched, Typed, ListsOK, TagsOK
  <1>2. /\ ctx'[t].queue = ctx[t].queue /\ ctx'[t].left = ctx[t].group /\ ctx'[t].group = ctx[t].group
        /\ ctx'[t].attempt = ctx[t].attempt /\ ctx'[t].set = ctx[t].set /\ ctx'[t].found = ctx[t].found
    BY ThreadFacts DEF StartEvaluation
  <1>3. Goto(t, "evaluate") /\ "evaluate" \in Locations
    BY DEF StartEvaluation, Locations
  <1>. QED
    BY <1>1, <1>2, <1>3, GotoTyped

LEMMA EvaluateTyped ==
    ASSUME ThreadsOK, NEW t \in Threads, Typed(t), Evaluate(t)
    PROVE  Typed(t)'
  <1> DEFINE Done(a) == ctx' = [ctx EXCEPT ![t].left = @ \ {a}] /\ UNCHANGED pc
             Begun(a, n) == /\ ctx' = [ctx EXCEPT ![t].left = @ \ {a}, ![t].group = {a}, ![t].set = n]
                            /\ Goto(t, "mutate")
  <1>. HIDE DEF Done, Begun
  <1>1. PICK a \in ctx[t].left : \E n \in normalize(TagsFound(ctx[t], a)) : Done(a) \/ Begun(a, n)
    BY DEF Evaluate, Done, Begun
  <1>2. PICK n \in normalize(TagsFound(ctx[t], a)) : Done(a) \/ Begun(a, n)
    BY <1>1
  <1>3. /\ pc[t] = "evaluate" /\ ctx[t].queue = {} /\ ctx[t].left \subseteq Mentioned
        /\ ctx[t].group \subseteq Mentioned
    BY DEF Evaluate, At, Typed, ListsOK
  <1>4. CASE Done(a)
    <2>1. /\ ctx'[t].queue = ctx[t].queue /\ ctx'[t].left = ctx[t].left \ {a} /\ ctx'[t].group = ctx[t].group
          /\ ctx'[t].attempt = ctx[t].attempt /\ ctx'[t].set = ctx[t].set /\ ctx'[t].owner = ctx[t].owner
          /\ ctx'[t].found = ctx[t].found /\ pc'[t] = pc[t]
      BY <1>4, ThreadFacts DEF Done
    <2>. QED
      BY <1>3, <2>1, StayTyped
  <1>5. CASE Begun(a, n)
    <2>1. IsTagSet(TagsFound(ctx[t], a))
      BY NoTagsIsTagSet DEF TagsFound, Typed, TagsOK
    <2>2. IsTagSet(n)
      BY <2>1, NormalizedTags
    <2>3. /\ ctx'[t].queue = ctx[t].queue /\ ctx'[t].left = ctx[t].left \ {a} /\ ctx'[t].group = {a}
          /\ ctx'[t].attempt = ctx[t].attempt /\ ctx'[t].set = n /\ ctx'[t].found = ctx[t].found
      BY <1>5, ThreadFacts DEF Begun
    <2>4. "mutate" \in Locations
      BY DEF Locations
    <2>. QED
      BY <1>3, <1>5, <2>2, <2>3, <2>4, GotoTyped DEF Begun
  <1>. QED
    BY <1>4, <1>5, <1>2

LEMMA MutateTyped ==
    ASSUME ThreadsOK, NEW t \in Threads, Typed(t), Mutate(t)
    PROVE  Typed(t)'
  <1>1. PICK status : ctx' = [ctx EXCEPT ![t].outcome = status]
    BY DEF Mutate
  <1>2. /\ ctx'[t].queue = ctx[t].queue /\ ctx'[t].left = ctx[t].left /\ ctx'[t].group = ctx[t].group
        /\ ctx'[t].attempt = ctx[t].attempt /\ ctx'[t].set = ctx[t].set /\ ctx'[t].found = ctx[t].found
    BY <1>1, ThreadFacts
  <1>3. ctx[t].queue = {} /\ ctx[t].left \subseteq Mentioned /\ ctx[t].group \subseteq Mentioned
        /\ IsTagSet(ctx[t].set)
    BY DEF Mutate, At, Typed, ListsOK, TagsOK
  <1>4. Goto(t, "mutated") /\ "mutated" \in Locations
    BY DEF Mutate, Locations
  <1>. QED
    BY <1>2, <1>3, <1>4, GotoTyped

LEMMA EnforcerTyped ==
    ASSUME ThreadsOK, TablesOK, WorldOK, NEW t \in Enforcers, Typed(t),
           (\E e \in deliveries : StartEnforcer(t, e)) \/ EnforcerStep(t)
    PROVE  Typed(t)'
  <1>1. t \in Threads
    BY DEF Threads
  <1>2. CASE EndEnforcer(t)
    BY <1>1, <1>2, ReturnTyped DEF EndEnforcer
  <1>. QED
    BY <1>1, <1>2, StartEnforcerTyped, FetchBatchTyped, NextAttemptTyped, StartEvaluationTyped, EvaluateTyped,
       MutateTyped, PlaceTyped DEF EnforcerStep

-----------------------------------------------------------------------------
LEMMA StartWriteTyped ==
    ASSUME ThreadsOK, NEW t \in Writers, Typed(t), NEW r \in Requests, StartWrite(t, r)
    PROVE  Typed(t)'
  <1> DEFINE queue == IF can_write_all_resources(r.caller) THEN {} ELSE r.arns
  <1>1. PICK set \in normalize(r.tags) :
           ctx' = [ctx EXCEPT ![t].set = set, ![t].left = r.arns, ![t].region = r.region,
                              ![t].asked = r.arns, ![t].caller = r.caller, ![t].queue = queue]
    BY DEF StartWrite
  <1>2. t \in Threads /\ t \notin Autos
    BY TagOnCreateAssumption DEF Threads
  <1>3. pc'[t] = IF queue = {} /\ can_write_all_resources(r.caller) THEN "groups" ELSE "authorize"
    BY <1>2, ThreadFacts DEF StartWrite, Goto
  <1>4. queue \subseteq r.arns /\ (can_write_all_resources(r.caller) => queue = {})
    OBVIOUS
  <1>. HIDE DEF queue
  <1>5. /\ ctx'[t].queue = queue /\ ctx'[t].left = r.arns /\ ctx'[t].group = ctx[t].group
        /\ ctx'[t].attempt = ctx[t].attempt /\ ctx'[t].set = set /\ ctx'[t].found = ctx[t].found
    BY <1>1, <1>2, ThreadFacts
  <1>6. IsTagSet(set)
    BY TagOnCreateAssumption, NormalizedTags
  <1>7. r.arns \subseteq Mentioned
    BY DEF Mentioned, Arns
  <1>8. ListsOK(t)'
    BY <1>3, <1>4, <1>5, <1>7 DEF Typed, ListsOK, Locations
  <1>. QED
    BY <1>2, <1>5, <1>6, <1>8 DEF Typed, TagsOK

LEMMA PlainWriteTyped ==
    ASSUME ThreadsOK, NEW t \in Writers, Typed(t), NEW r \in Requests, StartPlainWrite(t, r)
    PROVE  Typed(t)'
  <1>1. t \in Threads /\ ctx[t].queue = {} /\ ctx[t].group \subseteq Mentioned
    BY DEF StartPlainWrite, At, Typed, ListsOK, Threads
  <1>2. /\ ctx'[t].queue = ctx[t].queue /\ ctx'[t].left = r.arns /\ ctx'[t].group = ctx[t].group
        /\ ctx'[t].attempt = ctx[t].attempt /\ ctx'[t].set = r.tags /\ ctx'[t].found = ctx[t].found
    BY <1>1, ThreadFacts DEF StartPlainWrite
  <1>3. IsTagSet(r.tags) /\ r.arns \subseteq Mentioned
    BY TagOnCreateAssumption DEF Mentioned, Arns
  <1>4. Goto(t, "groups") /\ "groups" \in Locations
    BY DEF StartPlainWrite, Locations
  <1>. QED
    BY <1>1, <1>2, <1>3, <1>4, GotoTyped

LEMMA AuthorizeTyped ==
    ASSUME ThreadsOK, NEW t \in Writers, Typed(t), Authorize(t)
    PROVE  Typed(t)'
  <1>1. t \in Threads /\ t \notin Autos /\ pc[t] = "authorize"
    BY TagOnCreateAssumption DEF Threads, Authorize, At
  <1>2. CASE Return(t)
    BY <1>1, <1>2, ReturnTyped
  <1>3. ASSUME NEW group \in SUBSET ctx[t].queue, ctx' = [ctx EXCEPT ![t].queue = @ \ group],
               Goto(t, IF group = ctx[t].queue THEN "groups" ELSE "authorize")
        PROVE  Typed(t)'
    <2>1. /\ ctx'[t].queue = ctx[t].queue \ group /\ ctx'[t].left = ctx[t].left /\ ctx'[t].group = ctx[t].group
          /\ ctx'[t].attempt = ctx[t].attempt /\ ctx'[t].set = ctx[t].set /\ ctx'[t].found = ctx[t].found
      BY <1>1, <1>3, ThreadFacts
    <2>2. pc'[t] = IF group = ctx[t].queue THEN "groups" ELSE "authorize"
      BY <1>1, <1>3, ThreadFacts DEF Goto
    <2>3. ListsOK(t)'
      BY <1>1, <2>1, <2>2 DEF Typed, ListsOK, Locations
    <2>. QED
      BY <1>1, <2>1, <2>3 DEF Typed, TagsOK
  <1>4. \/ Return(t)
        \/ \E group \in SUBSET ctx[t].queue :
              /\ ctx' = [ctx EXCEPT ![t].queue = @ \ group]
              /\ Goto(t, IF group = ctx[t].queue THEN "groups" ELSE "authorize")
    <2>1. ASSUME NEW a, {b \in ctx[t].queue : _group_key(b) = _group_key(a)} \notin SUBSET ctx[t].queue
          PROVE  FALSE
      BY <2>1
    <2>. QED
      BY <2>1, Zenon DEF Authorize
  <1>. QED
    BY <1>2, <1>3, <1>4

LEMMA WriteRegionTyped ==
    ASSUME ThreadsOK, NEW t \in Writers, Typed(t), WriteRegion(t)
    PROVE  Typed(t)'
  <1>1. t \in Threads /\ t \notin Autos /\ pc[t] = "groups"
    BY TagOnCreateAssumption DEF Threads, WriteRegion, At
  <1>2. PICK r \in Regions(t) :
            ctx' = [ctx EXCEPT ![t].left = @ \ InRegion(t, r), ![t].group = InRegion(t, r),
                               ![t].queue = InRegion(t, r)]
    BY DEF WriteRegion
  <1>3. /\ ctx'[t].queue = InRegion(t, r) /\ ctx'[t].left = ctx[t].left \ InRegion(t, r)
        /\ ctx'[t].group = InRegion(t, r) /\ ctx'[t].attempt = ctx[t].attempt
        /\ ctx'[t].set = ctx[t].set /\ ctx'[t].found = ctx[t].found
    BY <1>1, <1>2, ThreadFacts
  <1>4. pc'[t] = "write"
    BY <1>1, ThreadFacts DEF WriteRegion, Goto
  <1>5. ListsOK(t)'
    BY <1>3, <1>4, InRegionLeft DEF Typed, ListsOK, Locations
  <1>. QED
    BY <1>1, <1>3, <1>5 DEF Typed, TagsOK

\* A batch, or all of the region, leaves the queue.
LEMMA WriteTyped ==
    ASSUME ThreadsOK, NEW t \in Writers, Typed(t), WriteBatch(t) \/ WriteRaises(t)
    PROVE  Typed(t)'
  <1>1. t \in Threads /\ t \notin Autos /\ pc[t] = "write"
    BY TagOnCreateAssumption DEF Threads, WriteBatch, WriteRaises, At
  <1>2. PICK queue, done, failed :
           /\ queue \subseteq ctx[t].queue
           /\ ctx' = [ctx EXCEPT ![t].queue = queue, ![t].done = done, ![t].failed = failed]
           /\ Goto(t, IF queue = {} THEN "groups" ELSE "write")
    <2>1. CASE WriteRaises(t)
      <3>1. PICK batch \in Batches(ctx[t].queue) : \E o \in Outcomes(batch) :
               ctx' = [ctx EXCEPT ![t].queue = {}, ![t].failed = @ \cup ctx[t].group,
                                  ![t].done = @ \cup o.tagged]
        BY <2>1 DEF WriteRaises
      <3>2. PICK o \in Outcomes(batch) :
               ctx' = [ctx EXCEPT ![t].queue = {}, ![t].failed = @ \cup ctx[t].group,
                                  ![t].done = @ \cup o.tagged]
        BY <3>1
      <3>3. ctx' = [ctx EXCEPT ![t].queue = {}, ![t].done = ctx[t].done \cup o.tagged,
                               ![t].failed = ctx[t].failed \cup ctx[t].group]
        BY <1>1, <3>2, ThreadFacts
      <3>4. Goto(t, "groups") /\ {} \subseteq ctx[t].queue
        BY <2>1 DEF WriteRaises
      <3>. QED
        BY <3>3, <3>4
    <2>2. CASE WriteBatch(t)
      <3>1. PICK batch \in Batches(ctx[t].queue) : \E o \in Outcomes(batch) :
               /\ ctx' = [ctx EXCEPT ![t].queue = @ \ batch, ![t].done = @ \cup o.tagged,
                                     ![t].failed = @ \cup o.refused]
               /\ Goto(t, IF batch = ctx[t].queue THEN "groups" ELSE "write")
        BY <2>2 DEF WriteBatch
      <3>2. PICK o \in Outcomes(batch) :
               /\ ctx' = [ctx EXCEPT ![t].queue = @ \ batch, ![t].done = @ \cup o.tagged,
                                     ![t].failed = @ \cup o.refused]
               /\ Goto(t, IF batch = ctx[t].queue THEN "groups" ELSE "write")
        BY <3>1
      <3>3. batch \subseteq ctx[t].queue /\ (batch = ctx[t].queue <=> ctx[t].queue \ batch = {})
        BY DEF Batches
      <3>4. ctx' = [ctx EXCEPT ![t].queue = ctx[t].queue \ batch, ![t].done = ctx[t].done \cup o.tagged,
                               ![t].failed = ctx[t].failed \cup o.refused]
        BY <1>1, <3>2, ThreadFacts
      <3>5. Goto(t, IF ctx[t].queue \ batch = {} THEN "groups" ELSE "write")
        BY <3>2, <3>3
      <3>. QED
        BY <3>4, <3>5
    <2>. QED
      BY <2>1, <2>2
  <1>3. /\ ctx'[t].queue = queue /\ ctx'[t].left = ctx[t].left /\ ctx'[t].group = ctx[t].group
        /\ ctx'[t].attempt = ctx[t].attempt /\ ctx'[t].set = ctx[t].set /\ ctx'[t].found = ctx[t].found
    BY <1>1, <1>2, ThreadFacts
  <1>4. pc'[t] = IF queue = {} THEN "groups" ELSE "write"
    BY <1>1, <1>2, ThreadFacts DEF Goto
  <1>5. ListsOK(t)'
    BY <1>1, <1>2, <1>3, <1>4 DEF Typed, ListsOK, Locations
  <1>. QED
    BY <1>1, <1>3, <1>5 DEF Typed, TagsOK

LEMMA AuditTyped ==
    ASSUME ThreadsOK, NEW t \in Writers, Typed(t), AuditWrite(t)
    PROVE  Typed(t)'
  <1>1. /\ t \in Threads /\ ctx[t].queue = {} /\ ctx[t].left \subseteq Mentioned
        /\ ctx[t].group \subseteq Mentioned /\ IsTagSet(ctx[t].set)
    BY DEF AuditWrite, At, Typed, ListsOK, TagsOK, Threads
  <1>2. /\ ctx'[t].queue = ctx[t].queue /\ ctx'[t].left = ctx[t].left /\ ctx'[t].group = ctx[t].group
        /\ ctx'[t].attempt = ctx[t].attempt /\ ctx'[t].set = ctx[t].set /\ ctx'[t].found = ctx[t].found
    BY <1>1, ThreadFacts DEF AuditWrite
  <1>3. Goto(t, "audited") /\ "audited" \in Locations
    BY DEF AuditWrite, Locations
  <1>. QED
    BY <1>1, <1>2, <1>3, GotoTyped

LEMMA WriterTyped ==
    ASSUME ThreadsOK, NEW t \in Writers, Typed(t), WriterStep(t)
    PROVE  Typed(t)'
  <1>1. CASE EndWrite(t) \/ EndPlainWrite(t)
    BY <1>1, ReturnTyped DEF EndWrite, EndPlainWrite, Threads
  <1>. QED
    BY <1>1, StartWriteTyped, PlainWriteTyped, AuthorizeTyped, WriteRegionTyped, WriteTyped, AuditTyped
       DEF WriterStep

-----------------------------------------------------------------------------
(***************************************************************************)
(* The world: resources, CloudTrail and deliveries                         *)
(***************************************************************************)
LEMMA QuietWorld ==
    ASSUME WorldOK, UNCHANGED aws, trail' = trail, deliveries' \subseteq deliveries PROVE WorldOK'
BY DEF WorldOK, aws, exists

LEMMA WrittenTagSet ==
    ASSUME NEW ts, IsTagSet(ts), NEW set, IsTagSet(set) PROVE IsTagSet(Written(ts, set))
BY DEF IsTagSet, Written

LEMMA TaggedWorld ==
    ASSUME WorldOK, NEW batch, NEW o \in Outcomes(batch), NEW set, IsTagSet(set), Tagged(o.tagged, set),
           trail' = trail, deliveries' = deliveries
    PROVE  WorldOK'
  <1>1. exists' = exists /\ listed' = listed \cup o.tagged
        /\ \A a \in exists : tags'[a] = IF a \in o.tagged THEN Written(tags[a], set) ELSE tags[a]
    BY DEF Tagged, exists
  <1>2. \A a \in exists : IsTagSet(tags'[a])
    BY <1>1, WrittenTagSet DEF WorldOK
  <1>. QED
    BY <1>1, <1>2 DEF WorldOK

LEMMA MakeCallWorld ==
    ASSUME WorldOK, StoryOK, NEW c \in Calls, MakeCall(c) PROVE WorldOK'
  <1>1. exists' = exists \cup c.makes /\ exists' \subseteq Arns
    BY DEF MakeCall, exists, WorldOK, Arns
  <1>2. IsTagSet(c.tags)
    BY TagOnCreateAssumption
  <1>3. \A a \in exists' : tags'[a] = IF a \in c.makes THEN c.tags ELSE tags[a]
    BY <1>1 DEF MakeCall
  <1>4. listed \subseteq listed' /\ (c.tags = NoTags \/ c.makes \subseteq listed')
    BY DEF MakeCall
  <1>5. \A a \in exists' : IsTagSet(tags'[a]) /\ (tags'[a] # NoTags => a \in listed')
    BY <1>1, <1>2, <1>3, <1>4 DEF WorldOK
  <1>6. trail' \in Seq(Records)
    <2>1. [call |-> c, names |-> Names(c), userIdentity |-> c.detail.userIdentity] \in Records
      BY DEF Records, Mentioned, Identities
    <2>. QED
      BY <2>1 DEF MakeCall, WorldOK
  <1>7. deliveries' = deliveries \cup {Event(c, to) : to \in story.targets}
        /\ story.targets \subseteq {"tag-on-create", "enforcement"}
    BY TagOnCreateAssumption DEF MakeCall, StoryOK
  <1>. QED
    BY <1>1, <1>5, <1>6, <1>7 DEF WorldOK

LEMMA EditWorld == ASSUME WorldOK, NEW e \in Editions, Edit(e) PROVE WorldOK'
  <1>1. exists' = exists /\ e.arn \in exists /\ deliveries' = deliveries /\ listed' = listed \cup {e.arn}
        /\ \A a \in exists : tags'[a] = IF a = e.arn THEN e.tags ELSE tags[a]
    BY DEF Edit, exists
  <1>2. IsTagSet(e.tags)
    BY TagOnCreateAssumption
  <1>3. trail' \in Seq(Records)
    <2>1. e.arn \in Mentioned
      BY <1>1 DEF WorldOK, Mentioned
    <2>2. [call |-> None, names |-> {e.arn}, userIdentity |-> e.userIdentity] \in Records
      BY <2>1 DEF Records, Identities
    <2>. QED
      BY <2>2 DEF Edit, WorldOK
  <1>. QED
    BY <1>1, <1>2, <1>3 DEF WorldOK

\* Invocations and requests tag with the tag set they carry.
LEMMA TaggingWorld ==
    ASSUME WorldOK, NEW t, Typed(t), TagBatch(t) \/ WriteBatch(t) \/ WriteRaises(t) \/ Mutate(t)
    PROVE  WorldOK'
  <1>1. trail' = trail /\ deliveries' = deliveries
    BY DEF TagBatch, WriteBatch, WriteRaises, Mutate, users
  <1>2. IsTagSet(ctx[t].set)
    BY DEF Typed, TagsOK
  <1>3. UNCHANGED aws \/ \E batch : \E o \in Outcomes(batch) : Tagged(o.tagged, ctx[t].set)
    <2>1. CASE TagBatch(t) \/ WriteBatch(t) \/ WriteRaises(t)
      BY <2>1, Zenon DEF TagBatch, WriteBatch, WriteRaises
    <2>2. CASE Mutate(t)
      BY <2>2, Zenon DEF Mutate
    <2>. QED
      BY <2>1, <2>2
  <1>4. CASE UNCHANGED aws
    BY <1>1, <1>4, QuietWorld
  <1>5. ASSUME NEW batch, NEW o \in Outcomes(batch), Tagged(o.tagged, ctx[t].set) PROVE WorldOK'
    BY <1>1, <1>2, <1>5, TaggedWorld
  <1>. QED
    BY <1>3, <1>4, <1>5

LEMMA ThreadWorld ==
    ASSUME WorldOK, NEW t, Typed(t),
           \/ \E e \in deliveries : StartAuto(t, e) \/ StartEnforcer(t, e)
           \/ StartScan(t) \/ AutoStep(t) \/ ScanStep(t) \/ EnforcerStep(t) \/ WriterStep(t)
    PROVE  WorldOK'
  <1>1. CASE TagBatch(t) \/ WriteBatch(t) \/ WriteRaises(t) \/ Mutate(t)
    BY <1>1, TaggingWorld
  <1>2. ASSUME NEW e, StartAuto(t, e) \/ StartEnforcer(t, e) PROVE WorldOK'
    <2>1. UNCHANGED aws /\ trail' = trail /\ deliveries' \subseteq deliveries
      BY <1>2 DEF StartAuto, StartEnforcer, Receive, users
    <2>. QED
      BY <2>1, QuietWorld
  <1>3. ASSUME UNCHANGED <<aws, users, deliveries>> PROVE WorldOK'
    BY <1>3, QuietWorld DEF users
  <1>4. CASE StartScan(t) \/ AutoStep(t) \/ ScanStep(t)
    BY <1>1, <1>3, <1>4 DEF StartScan, AutoStep, ScanStep, FetchBatch, NextAttempt, FetchRegion, EndAuto,
       DecideTag, get_all_regions, ScanRegion, EndScan, Lookup, EndRegion
  <1>5. CASE EnforcerStep(t)
    BY <1>1, <1>3, <1>5 DEF EnforcerStep, FetchBatch, NextAttempt, StartEvaluation, Evaluate, Mutated, EndEnforcer
  <1>6. CASE WriterStep(t)
    BY <1>1, <1>3, <1>6 DEF WriterStep, StartWrite, StartPlainWrite, EndPlainWrite, Authorize, WriteRegion,
       AuditWrite, EndWrite
  <1>. QED
    BY <1>2, <1>4, <1>5, <1>6

-----------------------------------------------------------------------------
\* A step takes room for at most one scan, edit or fault.
Counted ==
    \/ UNCHANGED <<scans, edits, faults>>
    \/ Room /\ \/ scans' = scans + 1 /\ UNCHANGED <<edits, faults>>
               \/ edits' = edits + 1 /\ UNCHANGED <<scans, faults>>
               \/ faults' = faults + 1 /\ UNCHANGED <<scans, edits>>

LEMMA StepCounts == ASSUME Step PROVE Counted
  <1>1. ASSUME UNCHANGED bounds PROVE Counted
    BY <1>1 DEF bounds, Counted
  <1>2. ASSUME UNCHANGED <<scans, edits>>, Fault \/ UNCHANGED faults PROVE Counted
    BY <1>2 DEF Fault, Counted
  <1>3. ASSUME NEW c, MakeCall(c) PROVE Counted
    BY <1>1, <1>3 DEF MakeCall
  <1>4. ASSUME NEW e, Edit(e) PROVE Counted
    BY <1>4 DEF Edit, Counted
  <1>5. ASSUME NEW t, NEW e, StartAuto(t, e) \/ StartEnforcer(t, e) PROVE Counted
    <2>1. UNCHANGED <<scans, edits>> /\ (Fault \/ UNCHANGED faults)
      BY <1>5 DEF StartAuto, StartEnforcer, Receive
    <2>. QED
      BY <1>2, <2>1
  <1>6. ASSUME NEW t, FetchBatch(t) \/ TagBatch(t) PROVE Counted
    <2>1. UNCHANGED <<scans, edits>> /\ (Fault \/ UNCHANGED faults)
      BY <1>6, Zenon DEF FetchBatch, TagBatch
    <2>. QED
      BY <1>2, <2>1
  <1>7. ASSUME NEW t, StartScan(t) PROVE Counted
    BY <1>7 DEF StartScan, Counted
  <1>8. ASSUME NEW t, AutoStep(t) PROVE Counted
    BY <1>1, <1>6, <1>8 DEF AutoStep, NextAttempt, FetchRegion, EndAuto, DecideTag
  <1>9. ASSUME NEW t, ScanStep(t) PROVE Counted
    <2>1. CASE get_all_regions(t) \/ ScanRegion(t) \/ Lookup(t)
      <3>1. UNCHANGED <<scans, edits>> /\ (Fault \/ UNCHANGED faults)
        BY <2>1, Zenon DEF get_all_regions, ScanRegion, Lookup
      <3>. QED
        BY <1>2, <3>1
    <2>2. CASE EndScan(t) \/ EndRegion(t)
      BY <1>1, <2>2 DEF EndScan, EndRegion
    <2>. QED
      BY <1>9, <2>1, <2>2 DEF ScanStep
  <1>10. ASSUME NEW t, EnforcerStep(t) PROVE Counted
    <2>1. CASE Mutate(t)
      <3>1. UNCHANGED <<scans, edits>> /\ (Fault \/ UNCHANGED faults)
        BY <2>1, Zenon DEF Mutate
      <3>. QED
        BY <1>2, <3>1
    <2>. QED
      BY <1>1, <1>6, <1>10, <2>1 DEF EnforcerStep, NextAttempt, StartEvaluation, Evaluate, Mutated, EndEnforcer
  <1>11. ASSUME NEW t, WriterStep(t) PROVE Counted
    <2>1. CASE Authorize(t) \/ WriteBatch(t) \/ WriteRaises(t)
      <3>1. UNCHANGED <<scans, edits>> /\ (Fault \/ UNCHANGED faults)
        BY <2>1, Zenon DEF Authorize, WriteBatch, WriteRaises
      <3>. QED
        BY <1>2, <3>1
    <2>2. ASSUME NEW r, StartWrite(t, r) \/ StartPlainWrite(t, r) PROVE Counted
      BY <2>2 DEF StartWrite, StartPlainWrite, Counted
    <2>. QED
      BY <1>1, <1>11, <2>1, <2>2 DEF WriterStep, EndPlainWrite, WriteRegion, AuditWrite, EndWrite
  <1>. QED
    BY <1>3, <1>4, <1>5, <1>7, <1>8, <1>9, <1>10, <1>11 DEF Step, WriterStep

LEMMA BoundsStay == ASSUME BoundsOK, StoryOK, Step, story' = story PROVE BoundsOK'
  <1>1. story.room \in Nat
    BY TagOnCreateAssumption DEF StoryOK
  <1>. QED
    BY <1>1, StepCounts DEF BoundsOK, Counted, Room

-----------------------------------------------------------------------------
TypeInv == WorldOK /\ BoundsOK /\ \A t \in Threads : Typed(t)

LEMMA InitTyped == Init => TypeInv
  <1> SUFFICES ASSUME Init PROVE TypeInv
    OBVIOUS
  <1>1. WorldOK
    BY DEF Init, WorldOK, NoTags, exists
  <1>2. BoundsOK
    BY TagOnCreateAssumption DEF Init, BoundsOK
  <1>3. ASSUME NEW t \in Threads PROVE Typed(t)
    <2>1. /\ pc[t] = "idle" /\ ctx[t] = NoCtx
      BY DEF Init
    <2>2. /\ NoCtx.attempt = 0 /\ NoCtx.queue = {} /\ NoCtx.left = {} /\ NoCtx.group = {}
          /\ NoCtx.set = NoTags /\ NoCtx.found = NoTags
      BY DEF NoCtx
    <2>3. 0 \in 0..TAG_LOOKUP_RETRIES
      BY TagOnCreateAssumption
    <2>. QED
      BY <2>1, <2>2, <2>3, NoTagsIsTagSet DEF Typed, ListsOK, TagsOK, Locations
  <1>. QED
    BY <1>1, <1>2, <1>3 DEF TypeInv

\* Threads that do not move keep their locals.
LEMMA OthersTyped ==
    ASSUME NEW t \in Threads, Typed(t), pc'[t] = pc[t], ctx'[t] = ctx[t] PROVE Typed(t)'
BY DEF Typed, ListsOK, TagsOK

LEMMA NextTyped == ASSUME Inv, StoryOK, TypeInv, Next PROVE TypeInv'
  <1>1. ThreadsOK /\ TablesOK /\ WorldOK /\ BoundsOK /\ \A t \in Threads : Typed(t)
    BY DEF Inv, TypeInv
  <1>2. Writers \subseteq Threads /\ Autos \subseteq Threads /\ Enforcers \subseteq Threads
    BY DEF Threads
  <1>3. story' = story
    BY StoryUnchanged
  <1>4. BoundsOK'
    BY <1>1, <1>3, BoundsStay DEF Next
  <1>5. ASSUME UNCHANGED <<pc, ctx>>, WorldOK' PROVE TypeInv'
    BY <1>1, <1>4, <1>5, OthersTyped DEF TypeInv
  <1>6. ASSUME NEW t \in Threads, Moves(t), WorldOK', Typed(t)' PROVE TypeInv'
    BY <1>1, <1>4, <1>6, OthersTyped DEF TypeInv, Moves
  <1>7. ASSUME NEW c \in Calls, MakeCall(c), UNCHANGED <<pc, ctx>> PROVE TypeInv'
    BY <1>1, <1>5, <1>7, MakeCallWorld
  <1>8. ASSUME NEW e \in Editions, Edit(e), UNCHANGED <<pc, ctx>> PROVE TypeInv'
    BY <1>1, <1>5, <1>8, EditWorld
  <1>9. ASSUME NEW t \in Autos,
               \/ \E e \in deliveries : StartAuto(t, e)
               \/ StartScan(t) \/ AutoStep(t) \/ ScanStep(t)
        PROVE  TypeInv'
    <2>1. Moves(t) /\ WorldOK' /\ Typed(t)'
      BY <1>1, <1>2, <1>9, AutoMoves, ThreadWorld, AutoTyped
    <2>. QED
      BY <1>2, <1>6, <2>1
  <1>10. ASSUME NEW t \in Enforcers, (\E e \in deliveries : StartEnforcer(t, e)) \/ EnforcerStep(t)
         PROVE  TypeInv'
    <2>1. Moves(t) /\ WorldOK' /\ Typed(t)'
      BY <1>1, <1>2, <1>10, EnforcerMoves, ThreadWorld, EnforcerTyped
    <2>. QED
      BY <1>2, <1>6, <2>1
  <1>11. ASSUME NEW t \in Writers, WriterStep(t) PROVE TypeInv'
    <2>1. Moves(t) /\ WorldOK' /\ Typed(t)'
      BY <1>1, <1>2, <1>11, WriterMoves, ThreadWorld, WriterTyped
    <2>. QED
      BY <1>2, <1>6, <2>1
  <1>. QED
    BY <1>7, <1>8, <1>9, <1>10, <1>11, StepCases DEF Next, StoryOK

\* Nothing is asked of AWS that nobody mentioned, nothing twice at once, and
\* never more often than configured -- for any table of calls and requests.
THEOREM TypeCorrect == Spec => []TypeOK
  <1>1. Inv /\ StoryOK /\ TypeInv /\ [Next]_vars => TypeInv'
    <2>1. ASSUME TypeInv, UNCHANGED vars PROVE TypeInv'
      BY <2>1 DEF vars, TypeInv, WorldOK, exists, BoundsOK, Typed, ListsOK, TagsOK
    <2>. QED
      BY <2>1, NextTyped
  <1>2. ASSUME Inv, TypeInv PROVE TypeOK
    <2>1. \A a \in exists : IsTagSet(tags[a]) /\ (tags[a] # NoTags => a \in listed)
      BY <1>2 DEF TypeInv, WorldOK
    <2>2. listed \subseteq exists /\ exists \subseteq Arns
      BY <1>2 DEF Inv, TablesOK, TypeInv, WorldOK
    <2>3. {scans, edits, faults} \subseteq Nat /\ scans + edits + faults <= story.room
      BY <1>2 DEF TypeInv, BoundsOK
    <2>4. ASSUME NEW t \in Threads
          PROVE  /\ pc[t] \in Locations
                 /\ ctx[t].attempt \in 0..TAG_LOOKUP_RETRIES
                 /\ ctx[t].queue \subseteq Mentioned
                 /\ IF At(t, "authorize") THEN ctx[t].queue \subseteq ctx[t].left
                    ELSE ctx[t].queue \cap ctx[t].left = {}
                 /\ At(t, "fetch") => /\ ctx[t].queue \cap ctx[t].retry = {}
                                      /\ ctx[t].queue \cup ctx[t].retry \cup DOMAIN ctx[t].found = ctx[t].group
      <3>1. ListsOK(t)
        BY <1>2 DEF TypeInv, Typed
      <3>. QED
        BY <3>1 DEF ListsOK, At
    <2>. QED
      BY <2>1, <2>2, <2>3, <2>4 DEF TypeOK
  <1>. QED
    BY <1>1, <1>2, InitTyped, Invariance, PTL DEF Spec
=============================================================================
