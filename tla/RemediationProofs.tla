------------------------- MODULE RemediationProofs -------------------------
(***************************************************************************)
(* Proofs about module Remediation, for any sets of actions, workers and   *)
(* request threads, any attempt budget and any number of failures, and     *)
(* about module WorkerLoop, which drives it from a queue.                  *)
(***************************************************************************)
EXTENDS WorkerLoop, TLAPS

\* Locations of a process that holds a claim, and of one that knows that the
\* item exists and carries the fingerprint it works for.
Claimed == Executing \cup {"auditEnd"}
Bound == Claimed \cup {"claim", "afterClaim", "exhaust", "auditExhausted"}

\* One item, its AWS calls and its rows of the audit log agree.
ItemInv(a) ==
    /\ status[a] # "ABSENT" => request_fingerprint[a] \in Fingerprints
    /\ status[a] \in {"ABSENT", "PENDING", "SKIPPED_EXEMPT"} => attempt_count[a] = 0
    /\ attempt_count[a] = 0 => tagged[a] = {}
    /\ tagged[a] \subseteq {request_fingerprint[a]}
    /\ status[a] = "COMPLETED" => request_fingerprint[a] \in tagged[a]
    /\ \A n \in 1..MaxAttempts :
          /\ calls[a][n] <= 1
          /\ n > attempt_count[a] => calls[a][n] = 0
          /\ calls[a][n] > 0 => <<"STARTED", n>> \in audit[a]
          /\ <<"COMPLETED", n>> \in audit[a] => request_fingerprint[a] \in tagged[a]

\* What a process at a location knows about the item it works on.
ProcInv(p) ==
    LET a == ctx[p].action
        n == ctx[p].attempt IN
    /\ pc[p] # "idle" => a \in Actions
    /\ pc[p] = "idle" => ctx[p] = NoCtx
    /\ pc[p] = "create" => ctx[p].fp \in Fingerprints
    /\ pc[p] = "resolve" => status[a] # "ABSENT"
    /\ pc[p] \in Bound => status[a] # "ABSENT" /\ ctx[p].fp = request_fingerprint[a]
    /\ pc[p] \in Claimed => n \in 1..attempt_count[a]
    /\ pc[p] \in {"auditStart", "mutate"} => calls[a][n] = 0
    /\ pc[p] \in {"mutate", "update", "auditEnd"} => <<"STARTED", n>> \in audit[a]
    /\ pc[p] \in {"update", "auditEnd"} =>
          /\ ctx[p].outcome \in Outcomes
          /\ ctx[p].outcome = "COMPLETED" => request_fingerprint[a] \in tagged[a]
    /\ ctx[p].exhausted \/ pc[p] = "exhaust" =>
          a \in Actions /\ attempt_count[a] >= MaxAttempts

\* No two processes hold the same claim.
PairInv(p, q) ==
    (/\ p # q
     /\ pc[p] \in Claimed /\ pc[q] \in Claimed
     /\ ctx[p].action = ctx[q].action) => ctx[p].attempt # ctx[q].attempt

IInv ==
    /\ TypeOK
    /\ \A a \in Actions : ItemInv(a)
    /\ \A p \in Procs : ProcInv(p)
    /\ \A p, q \in Procs : PairInv(p, q)
-----------------------------------------------------------------------------
(***************************************************************************)
(* What one step may do to the items and to the other processes.           *)
(***************************************************************************)

\* Whatever happens to an item, it stays, keeps its fingerprint and spends no
\* attempt twice.
StoreEvolves(a) ==
    /\ attempt_count'[a] >= attempt_count[a]
    /\ status[a] # "ABSENT" => /\ status'[a] # "ABSENT"
                               /\ request_fingerprint'[a] = request_fingerprint[a]

\* Nothing is taken back from AWS or from the audit log.
HistoryEvolves(a) == tagged[a] \subseteq tagged'[a] /\ audit[a] \subseteq audit'[a]

\* Only process p moves.
Moves(p) == \A q \in Procs \ {p} : pc'[q] = pc[q] /\ ctx'[q] = ctx[q]

\* A claim that p holds after the step is one it had, or a fresh one.
ClaimIsFresh(p) ==
    pc'[p] \in Claimed =>
        \/ /\ pc[p] \in Claimed
           /\ ctx'[p].action = ctx[p].action
           /\ ctx'[p].attempt = ctx[p].attempt
        \/ ctx'[p].attempt > attempt_count[ctx'[p].action]

\* The three conditional writes of the state store keep its types and let
\* items only evolve (state.py, create / claim / update_remediation_action).
LEMMA CreateEffect ==
    ASSUME StoreTypeOK, NEW a \in Actions, NEW fp \in Fingerprints,
           NEW exempt \in BOOLEAN, create_remediation_action(a, fp, exempt)
    PROVE  /\ StoreTypeOK'
           /\ \A b \in Actions : StoreEvolves(b)
           /\ \A b \in Actions \ {a} : /\ status'[b] = status[b]
                                       /\ request_fingerprint'[b] = request_fingerprint[b]
           /\ attempt_count' = attempt_count
           /\ status[a] = "ABSENT" /\ status'[a] \in {"PENDING", "SKIPPED_EXEMPT"}
           /\ request_fingerprint'[a] = fp
  BY DEF StoreTypeOK, StoreEvolves, create_remediation_action, Statuses

LEMMA ClaimEffect ==
    ASSUME StoreTypeOK, NEW a \in Actions, NEW leased \in BOOLEAN,
           claim_remediation_action(a, leased)
    PROVE  /\ StoreTypeOK'
           /\ \A b \in Actions : StoreEvolves(b)
           /\ \A b \in Actions \ {a} : /\ status'[b] = status[b]
                                       /\ attempt_count'[b] = attempt_count[b]
           /\ request_fingerprint' = request_fingerprint
           /\ status[a] \in {"PENDING", "FAILED_RETRYABLE", "IN_PROGRESS"}
           /\ status'[a] = "IN_PROGRESS"
           /\ attempt_count'[a] = attempt_count[a] + 1
           /\ attempt_count[a] < MaxAttempts
  BY ConstantsAssumption
     DEF StoreTypeOK, StoreEvolves, claim_remediation_action, ClaimCondition, Statuses

LEMMA UpdateEffect ==
    ASSUME StoreTypeOK, NEW a \in Actions, NEW new \in Outcomes,
           NEW expected \in {"IN_PROGRESS", "FAILED_RETRYABLE"},
           update_remediation_action(a, new, expected)
    PROVE  /\ StoreTypeOK'
           /\ \A b \in Actions : StoreEvolves(b)
           /\ \A b \in Actions \ {a} : status'[b] = status[b]
           /\ attempt_count' = attempt_count /\ request_fingerprint' = request_fingerprint
           /\ status[a] = expected /\ status'[a] = new
  BY DEF StoreTypeOK, StoreEvolves, update_remediation_action, Statuses, Outcomes

LEMMA SameStore ==
    ASSUME StoreTypeOK, UNCHANGED store
    PROVE  StoreTypeOK' /\ \A b \in Actions : StoreEvolves(b)
  BY DEF StoreTypeOK, StoreEvolves, store

\* Going to another location with the same locals.
LEMMA GotoEffect ==
    ASSUME ProcessTypeOK, NEW p \in Procs, NEW l \in Locations, Goto(p, l), UNCHANGED ctx
    PROVE  ProcessTypeOK' /\ Moves(p) /\ pc'[p] = l /\ ctx'[p] = ctx[p]
  BY DEF ProcessTypeOK, Goto, Moves

\* A process that ends its call is idle again and owes nothing.
LEMMA RespondEffect ==
    ASSUME ProcessTypeOK, NEW p \in Procs, Respond(p)
    PROVE  /\ ProcessTypeOK' /\ Moves(p) /\ ClaimIsFresh(p)
           /\ pc'[p] = "idle" /\ ctx'[p] = NoCtx /\ ProcInv(p)'
  <1>1. NoCtx \in Contexts
    BY ConstantsAssumption DEF NoCtx, Context, Contexts
  <1>2. ProcessTypeOK' /\ Moves(p) /\ pc'[p] = "idle" /\ ctx'[p] = NoCtx
    BY <1>1 DEF ProcessTypeOK, Respond, Goto, Moves, Locations
  <1>3. NoCtx.exhausted = FALSE
    BY DEF NoCtx, Context
  <1>4. ProcInv(p)' /\ ClaimIsFresh(p)
    BY <1>2, <1>3 DEF ProcInv, ClaimIsFresh, Bound, Claimed, Executing
  <1>. QED
    BY <1>2, <1>4

\* The same for a verdict, which a worker takes back to its loop.
LEMMA ReturnEffect ==
    ASSUME ProcessTypeOK, NEW p \in Procs, NEW v \in {"ack", "keep"}, Return(p, v),
           ProcInv(p), pc[p] # "idle", \A b \in Actions : StoreEvolves(b),
           StoreTypeOK, StoreTypeOK'
    PROVE  ProcessTypeOK' /\ Moves(p) /\ ClaimIsFresh(p) /\ ProcInv(p)'
  <1>1. CASE p \in Workers
    <2>1. ProcessTypeOK' /\ Moves(p) /\ pc'[p] = v /\ ctx'[p] = ctx[p]
      BY <1>1, GotoEffect DEF Return, Locations
    <2>2. ProcInv(p)'
      BY <2>1, ConstantsAssumption
         DEF ProcInv, Bound, Claimed, Executing, StoreEvolves, StoreTypeOK
    <2>3. ClaimIsFresh(p)
      BY <2>1 DEF ClaimIsFresh, Claimed, Executing
    <2>. QED
      BY <2>1, <2>2, <2>3
  <1>2. CASE p \notin Workers
    BY <1>2, RespondEffect DEF Return
  <1>. QED
    BY <1>1, <1>2

\* A process that does not move keeps what it knows while items evolve.
LEMMA ProcKeeps ==
    ASSUME IInv, TypeOK', NEW q \in Procs, pc'[q] = pc[q], ctx'[q] = ctx[q],
           \A a \in Actions : StoreEvolves(a) /\ HistoryEvolves(a),
           pc[q] \in {"auditStart", "mutate"} =>
               calls'[ctx[q].action][ctx[q].attempt] = calls[ctx[q].action][ctx[q].attempt]
    PROVE  ProcInv(q)'
  <1>1. pc'[q] = pc[q] /\ ctx'[q] = ctx[q] /\ ProcInv(q)
    BY DEF IInv
  <1>2. CASE pc[q] = "idle"
    BY <1>1, <1>2 DEF ProcInv, Bound, Claimed, Executing, NoCtx, Context
  <1>3. CASE pc[q] # "idle"
    <2>1. ctx[q].action \in Actions
      BY <1>1, <1>3 DEF ProcInv
    <2>2. /\ StoreEvolves(ctx[q].action) /\ HistoryEvolves(ctx[q].action)
          /\ attempt_count[ctx[q].action] \in Nat /\ attempt_count'[ctx[q].action] \in Nat
      BY <2>1, ConstantsAssumption DEF IInv, TypeOK, StoreTypeOK
    <2>. QED
      BY <1>1, <1>3, <2>1, <2>2, ConstantsAssumption
         DEF ProcInv, StoreEvolves, HistoryEvolves, Bound, Claimed, Executing
  <1>. QED
    BY <1>2, <1>3

\* A step of p: the others keep what they know, and nobody takes the claim of
\* another.
LEMMA Frame ==
    ASSUME IInv, NEW p \in Procs, TypeOK', Moves(p), ClaimIsFresh(p), ProcInv(p)',
           \A a \in Actions : StoreEvolves(a) /\ HistoryEvolves(a) /\ ItemInv(a)',
           \A q \in Procs \ {p} : pc[q] \in {"auditStart", "mutate"} =>
               calls'[ctx[q].action][ctx[q].attempt] = calls[ctx[q].action][ctx[q].attempt]
    PROVE  IInv'
  <1>1. ASSUME NEW q \in Procs \ {p} PROVE ProcInv(q)'
    BY ProcKeeps DEF Moves
  <1>2. ASSUME NEW q \in Procs \ {p} PROVE PairInv(p, q)' /\ PairInv(q, p)'
    <2>1. pc'[q] = pc[q] /\ ctx'[q] = ctx[q] /\ ProcInv(q) /\ PairInv(p, q)
      BY DEF Moves, IInv
    <2>2. pc[q] \in Claimed => ctx[q].action \in Actions /\ ctx[q].attempt <= attempt_count[ctx[q].action]
      BY <2>1, ConstantsAssumption DEF ProcInv, IInv, TypeOK, StoreTypeOK, Claimed, Executing
    <2>3. ctx[q].attempt \in Nat /\ ctx'[p].attempt \in Nat
      BY ConstantsAssumption DEF IInv, TypeOK, ProcessTypeOK, Contexts
    <2>4. pc[q] \in Claimed => attempt_count[ctx[q].action] \in Nat
      BY <2>2, ConstantsAssumption DEF IInv, TypeOK, StoreTypeOK
    <2>. QED
      BY <2>1, <2>2, <2>3, <2>4 DEF PairInv, ClaimIsFresh
  <1>3. ASSUME NEW q \in Procs \ {p}, NEW r \in Procs \ {p} PROVE PairInv(q, r)'
    BY DEF Moves, IInv, PairInv
  <1>4. PairInv(p, p)'
    BY DEF PairInv
  <1>. QED
    BY <1>1, <1>2, <1>3, <1>4 DEF IInv

\* The same for a step that touches neither the items nor the history.
LEMMA LocalFrame ==
    ASSUME IInv, NEW p \in Procs, ProcessTypeOK', Moves(p), ClaimIsFresh(p), ProcInv(p)',
           UNCHANGED <<store, History>>, faults' \in 0..MaxFaults
    PROVE  IInv'
  <1>1. TypeOK'
    BY DEF IInv, TypeOK, StoreTypeOK, HistoryTypeOK, store, History
  <1>2. \A a \in Actions : StoreEvolves(a) /\ HistoryEvolves(a) /\ ItemInv(a)'
    BY DEF IInv, TypeOK, StoreTypeOK, StoreEvolves, HistoryEvolves, ItemInv, store, History
  <1>. QED
    BY <1>1, <1>2, Frame DEF History

LEMMA FaultType == ASSUME HistoryTypeOK, Fault \/ NoFault PROVE faults' \in 0..MaxFaults
  BY ConstantsAssumption DEF HistoryTypeOK, Fault, NoFault
-----------------------------------------------------------------------------
(***************************************************************************)
(* Every step of every process preserves the invariant.                    *)
(***************************************************************************)

\* What the invariant says of a process about to move.
LEMMA Ready ==
    ASSUME IInv, NEW p \in Procs
    PROVE  /\ StoreTypeOK /\ ProcessTypeOK /\ HistoryTypeOK /\ ProcInv(p)
           /\ pc[p] # "idle" => ctx[p].action \in Actions /\ ItemInv(ctx[p].action)
  BY DEF IInv, TypeOK, ProcInv

\* A step that only responds, or only returns a verdict.
LEMMA RespondStep ==
    ASSUME IInv, NEW p \in Procs, Respond(p), UNCHANGED <<store, History>>, Fault \/ NoFault
    PROVE  IInv'
  BY Ready, RespondEffect, FaultType, LocalFrame

LEMMA ReturnStep ==
    ASSUME IInv, NEW p \in Procs, NEW v \in {"ack", "keep"}, Return(p, v), pc[p] # "idle",
           UNCHANGED <<store, History>>, Fault \/ NoFault
    PROVE  IInv'
  <1>1. StoreTypeOK' /\ \A b \in Actions : StoreEvolves(b)
    BY Ready, SameStore DEF store
  <1>. QED
    BY <1>1, Ready, ReturnEffect, FaultType, LocalFrame

\* A step that only goes on to a location where no claim is held.
LEMMA GotoStep ==
    ASSUME IInv, NEW p \in Procs, NEW l \in {"claim", "exhaust", "afterClaim", "resolve"},
           Goto(p, l), UNCHANGED ctx, UNCHANGED <<store, History>>, Fault \/ NoFault,
           ctx[p].action \in Actions, status[ctx[p].action] # "ABSENT",
           l # "resolve" => ctx[p].fp = request_fingerprint[ctx[p].action],
           l = "exhaust" => attempt_count[ctx[p].action] >= MaxAttempts
    PROVE  IInv'
  <1>1. ProcessTypeOK' /\ Moves(p) /\ pc'[p] = l /\ ctx'[p] = ctx[p]
    BY Ready, GotoEffect DEF Locations
  <1>2. ProcInv(p)'
    BY <1>1, Ready DEF ProcInv, Bound, Claimed, Executing, store
  <1>3. ClaimIsFresh(p)
    BY <1>1 DEF ClaimIsFresh, Claimed, Executing
  <1>. QED
    BY <1>1, <1>2, <1>3, Ready, FaultType, LocalFrame

LEMMA StartSyncStep ==
    ASSUME IInv, NEW p \in Callers, NEW a \in Actions, NEW fp \in Fingerprints,
           NEW exempt \in BOOLEAN, StartSync(p, a, fp, exempt)
    PROVE  IInv'
  <1>. DEFINE c == Context(a, fp, exempt)
  <1>1. p \in Procs /\ "create" \in Locations
    BY DEF Procs, Locations
  <1>2. c \in Contexts /\ c.action = a /\ c.fp = fp /\ c.exhausted = FALSE
    BY ConstantsAssumption DEF Context, Contexts
  <1>3. pc' = [pc EXCEPT ![p] = "create"] /\ ctx' = [ctx EXCEPT ![p] = c]
    BY DEF StartSync, Goto
  <1>. HIDE DEF c
  <1>4. ProcessTypeOK' /\ Moves(p) /\ pc'[p] = "create" /\ ctx'[p] = c
    BY <1>1, <1>2, <1>3, Ready DEF ProcessTypeOK, Moves
  <1>5. ProcInv(p)' /\ ClaimIsFresh(p)
    BY <1>2, <1>4 DEF ProcInv, ClaimIsFresh, Bound, Claimed, Executing
  <1>. QED
    BY <1>1, <1>4, <1>5, Ready, FaultType, LocalFrame DEF StartSync, NoFault

LEMMA StartAsyncStep ==
    ASSUME IInv, NEW w \in Workers, NEW a \in Actions, StartAsync(w, a)
    PROVE  IInv'
  <1>. DEFINE c == Context(a, None, FALSE)
  <1>1. w \in Procs /\ "read" \in Locations
    BY DEF Procs, Locations
  <1>2. c \in Contexts /\ c.action = a /\ c.exhausted = FALSE
    BY ConstantsAssumption DEF Context, Contexts
  <1>3. pc' = [pc EXCEPT ![w] = "read"] /\ ctx' = [ctx EXCEPT ![w] = c]
    BY DEF StartAsync, Goto
  <1>. HIDE DEF c
  <1>4. ProcessTypeOK' /\ Moves(w) /\ pc'[w] = "read" /\ ctx'[w] = c
    BY <1>1, <1>2, <1>3, Ready DEF ProcessTypeOK, Moves
  <1>5. ProcInv(w)' /\ ClaimIsFresh(w)
    BY <1>2, <1>4 DEF ProcInv, ClaimIsFresh, Bound, Claimed, Executing
  <1>. QED
    BY <1>1, <1>4, <1>5, Ready, FaultType, LocalFrame DEF StartAsync, NoFault

LEMMA ResolveStep == ASSUME IInv, NEW p \in Callers, Resolve(p) PROVE IInv'
  <1>. DEFINE a == ctx[p].action
  <1>1. p \in Procs /\ pc[p] = "resolve" /\ a \in Actions /\ status[a] # "ABSENT"
    BY Ready DEF Procs, Resolve, ProcInv
  <1>2. CASE Respond(p)
    BY <1>1, <1>2, RespondStep DEF Resolve
  <1>3. CASE /\ request_fingerprint[a] = ctx[p].fp
             /\ Goto(p, "claim") /\ ctx' = [ctx EXCEPT ![p].exhausted = Exhausted(a)]
    <2>1. Exhausted(a) \in BOOLEAN /\ ctx[p] \in Contexts
      BY <1>1, Ready DEF Exhausted, ProcessTypeOK
    <2>2. /\ ctx'[p] \in Contexts /\ ctx'[p].action = a /\ ctx'[p].fp = ctx[p].fp
          /\ ctx'[p].exhausted = Exhausted(a)
      BY <1>1, <1>3, <2>1, Ready DEF ProcessTypeOK, Contexts
    <2>3. ProcessTypeOK' /\ Moves(p) /\ pc'[p] = "claim"
      BY <1>1, <1>3, <2>2, Ready DEF ProcessTypeOK, Goto, Moves, Locations
    <2>4. ProcInv(p)' /\ ClaimIsFresh(p)
      BY <1>1, <1>3, <2>2, <2>3
         DEF ProcInv, ClaimIsFresh, Resolve, Exhausted, store, Bound, Claimed, Executing
    <2>. QED
      BY <1>1, <2>3, <2>4, Ready, FaultType, LocalFrame DEF Resolve
  <1>. QED
    BY <1>2, <1>3 DEF Resolve

LEMMA ReadStep == ASSUME IInv, NEW p \in Workers, Read(p) PROVE IInv'
  <1>. DEFINE a == ctx[p].action
  <1>1. /\ p \in Procs /\ pc[p] = "read" /\ a \in Actions
        /\ request_fingerprint[a] \in Fingerprints \cup {None} /\ ctx[p] \in Contexts
    BY Ready DEF Procs, Read, ProcInv, StoreTypeOK, ProcessTypeOK, Contexts
  <1>2. PICK l \in {"keep", "ack", "claim"} :
           Goto(p, l) /\ (l = "claim" => status[a] # "ABSENT")
    BY DEF Read
  <1>3. /\ ctx'[p] \in Contexts /\ ctx'[p].action = a /\ ctx'[p].fp = request_fingerprint[a]
        /\ ctx'[p].exhausted = ctx[p].exhausted
    BY <1>1, Ready DEF Read, ProcessTypeOK, Contexts
  <1>4. ProcessTypeOK' /\ Moves(p) /\ pc'[p] = l
    BY <1>1, <1>2, <1>3, Ready DEF Read, ProcessTypeOK, Goto, Moves, Locations
  <1>5. ProcInv(p)' /\ ClaimIsFresh(p)
    BY <1>1, <1>2, <1>3, <1>4, Ready
       DEF ProcInv, ClaimIsFresh, Read, store, Bound, Claimed, Executing
  <1>. QED
    BY <1>1, <1>4, <1>5, Ready, FaultType, LocalFrame DEF Read

LEMMA ReadFaultStep == ASSUME IInv, NEW p \in Workers, ReadFault(p) PROVE IInv'
  <1>1. p \in Procs /\ pc[p] = "read" /\ "keep" \in Locations
    BY DEF Procs, ReadFault, Locations
  <1>2. ProcessTypeOK' /\ Moves(p) /\ pc'[p] = "keep" /\ ctx'[p] = ctx[p]
    BY <1>1, Ready, GotoEffect DEF ReadFault
  <1>3. ProcInv(p)' /\ ClaimIsFresh(p)
    BY <1>1, <1>2, Ready DEF ProcInv, ClaimIsFresh, ReadFault, store, Bound, Claimed, Executing
  <1>. QED
    BY <1>1, <1>2, <1>3, Ready, FaultType, LocalFrame DEF ReadFault

LEMMA AfterClaimStep ==
    ASSUME IInv, NEW p \in Procs, AfterClaim(p) \/ AfterClaimFault(p) PROVE IInv'
  <1>. DEFINE a == ctx[p].action
  <1>1. /\ pc[p] = "afterClaim" /\ UNCHANGED <<store, History>> /\ (Fault \/ NoFault)
        /\ a \in Actions /\ status[a] # "ABSENT" /\ ctx[p].fp = request_fingerprint[a]
    BY Ready DEF AfterClaim, AfterClaimFault, ProcInv, Bound
  <1>2. CASE Goto(p, "exhaust") /\ UNCHANGED ctx /\ (Exhausted(a) \/ ctx[p].exhausted)
    <2>1. attempt_count[a] >= MaxAttempts
      BY <1>2, Ready DEF Exhausted, ProcInv
    <2>. QED
      BY <1>1, <1>2, <2>1, GotoStep
  <1>3. CASE \E v \in {"ack", "keep"} : Return(p, v)
    BY <1>1, <1>3, ReturnStep
  <1>. QED
    BY <1>2, <1>3 DEF AfterClaim, AfterClaimFault

\* The one write of process_sync before the claim.
LEMMA CreateStep == ASSUME IInv, NEW p \in Callers, Create(p) \/ CreateFault(p) PROVE IInv'
  <1>. DEFINE a == ctx[p].action
  <1>1. /\ p \in Procs /\ pc[p] = "create" /\ a \in Actions /\ UNCHANGED History
        /\ (Fault \/ NoFault) /\ ctx[p].fp \in Fingerprints /\ ctx[p].exempt \in BOOLEAN
    BY Ready DEF Procs, Create, CreateFault, ProcInv, ProcessTypeOK, Contexts
  <1>2. CASE UNCHANGED store /\ Respond(p)
    BY <1>1, <1>2, RespondStep
  <1>3. CASE UNCHANGED store /\ Goto(p, "resolve") /\ UNCHANGED ctx /\ status[a] # "ABSENT"
    BY <1>1, <1>3, GotoStep
  <1>4. CASE /\ create_remediation_action(a, ctx[p].fp, ctx[p].exempt)
             /\ \/ Respond(p)
                \/ \E l \in {"resolve", "claim", "auditSkip"} : Goto(p, l) /\ UNCHANGED ctx
    <2>1. /\ StoreTypeOK' /\ \A b \in Actions : StoreEvolves(b)
          /\ \A b \in Actions \ {a} : /\ status'[b] = status[b]
                                      /\ request_fingerprint'[b] = request_fingerprint[b]
          /\ attempt_count' = attempt_count
          /\ status[a] = "ABSENT" /\ status'[a] \in {"PENDING", "SKIPPED_EXEMPT"}
          /\ request_fingerprint'[a] = ctx[p].fp
      BY <1>1, <1>4, Ready, CreateEffect
    <2>2. \A b \in Actions : HistoryEvolves(b)
      BY <1>1 DEF HistoryEvolves, History
    <2>3. ASSUME NEW b \in Actions PROVE ItemInv(b)'
      <3>1. ItemInv(b)
        BY DEF IInv
      <3>2. CASE b = a
        BY <1>1, <2>1, <3>1, <3>2 DEF ItemInv, History
      <3>3. CASE b # a
        BY <1>1, <2>1, <3>1, <3>3 DEF ItemInv, History
      <3>. QED
        BY <3>2, <3>3
    <2>4. HistoryTypeOK'
      BY <1>1, Ready, FaultType DEF HistoryTypeOK, History
    <2>5. CASE Respond(p)
      BY <1>1, <2>1, <2>2, <2>3, <2>4, <2>5, Ready, RespondEffect, Frame DEF TypeOK, History
    <2>6. ASSUME NEW l \in {"resolve", "claim", "auditSkip"}, Goto(p, l), UNCHANGED ctx
          PROVE IInv'
      <3>1. ProcessTypeOK' /\ Moves(p) /\ pc'[p] = l /\ ctx'[p] = ctx[p]
        BY <1>1, <2>6, Ready, GotoEffect DEF Locations
      <3>2. ProcInv(p)' /\ ClaimIsFresh(p)
        BY <1>1, <2>1, <3>1, Ready DEF ProcInv, ClaimIsFresh, Bound, Claimed, Executing
      <3>. QED
        BY <1>1, <2>1, <2>2, <2>3, <2>4, <3>1, <3>2, Frame DEF TypeOK, History
    <2>. QED
      BY <1>4, <2>5, <2>6
  <1>. QED
    BY <1>2, <1>3, <1>4 DEF Create, CreateFault

\* The claim, seen or lost: a fresh attempt for p, or one that nobody uses.
LEMMA ClaimStep == ASSUME IInv, NEW p \in Procs, Claim(p) \/ ClaimFault(p) PROVE IInv'
  <1>. DEFINE a == ctx[p].action
              leased == p \in Workers
  <1>1. /\ pc[p] = "claim" /\ UNCHANGED History /\ (Fault \/ NoFault)
        /\ a \in Actions /\ status[a] # "ABSENT" /\ ctx[p].fp = request_fingerprint[a]
    BY Ready DEF Claim, ClaimFault, ProcInv, Bound
  <1>a. leased \in BOOLEAN
    OBVIOUS
  <1>2. CASE UNCHANGED store /\ Goto(p, "afterClaim") /\ UNCHANGED ctx
    BY <1>1, <1>2, GotoStep
  <1>3. CASE /\ claim_remediation_action(a, leased)
             /\ \/ Goto(p, "afterClaim") /\ UNCHANGED ctx
                \/ /\ Goto(p, "auditStart")
                   /\ ctx' = [ctx EXCEPT ![p].attempt = attempt_count[a] + 1]
    <2>1. /\ StoreTypeOK' /\ \A b \in Actions : StoreEvolves(b)
          /\ \A b \in Actions \ {a} : /\ status'[b] = status[b]
                                      /\ attempt_count'[b] = attempt_count[b]
          /\ request_fingerprint' = request_fingerprint
          /\ status'[a] = "IN_PROGRESS"
          /\ attempt_count'[a] = attempt_count[a] + 1 /\ attempt_count[a] < MaxAttempts
      <3>. HIDE DEF leased
      <3>. QED
        BY <1>1, <1>a, <1>3, Ready, ClaimEffect
    <2>2. \A b \in Actions : HistoryEvolves(b)
      BY <1>1 DEF HistoryEvolves, History
    <2>3. ASSUME NEW b \in Actions PROVE ItemInv(b)'
      <3>1. ItemInv(b) /\ attempt_count[b] \in Nat
        BY ConstantsAssumption DEF IInv, TypeOK, StoreTypeOK
      <3>2. CASE b = a
        BY <1>1, <2>1, <3>1, <3>2, Ready DEF ItemInv, History
      <3>3. CASE b # a
        BY <1>1, <2>1, <3>1, <3>3 DEF ItemInv, History
      <3>. QED
        BY <3>2, <3>3
    <2>4. HistoryTypeOK'
      BY <1>1, Ready, FaultType DEF HistoryTypeOK, History
    <2>7. ctx[p].exhausted = FALSE
      <3>1. attempt_count[a] \in Nat /\ ctx[p].exhausted \in BOOLEAN
        BY <1>1, Ready, ConstantsAssumption DEF StoreTypeOK, ProcessTypeOK, Contexts
      <3>2. ctx[p].exhausted => attempt_count[a] >= MaxAttempts
        BY Ready DEF ProcInv
      <3>3. ~(attempt_count[a] >= MaxAttempts)
        BY <2>1, <3>1, ConstantsAssumption
      <3>. QED
        BY <3>1, <3>2, <3>3
    <2>5. CASE Goto(p, "afterClaim") /\ UNCHANGED ctx
      <3>1. ProcessTypeOK' /\ Moves(p) /\ pc'[p] = "afterClaim" /\ ctx'[p] = ctx[p]
        BY <2>5, Ready, GotoEffect DEF Locations
      <3>2. ProcInv(p)'
        BY <1>1, <2>1, <2>7, <3>1 DEF ProcInv, Bound, Claimed, Executing
      <3>3. ClaimIsFresh(p)
        BY <3>1 DEF ClaimIsFresh, Claimed, Executing
      <3>. QED
        BY <3>3, <1>1, <2>1, <2>2, <2>3, <2>4, <3>1, <3>2, Frame DEF TypeOK, History
    <2>6. CASE /\ Goto(p, "auditStart")
               /\ ctx' = [ctx EXCEPT ![p].attempt = attempt_count[a] + 1]
      <3>1. attempt_count[a] \in Nat /\ attempt_count[a] + 1 \in 1..MaxAttempts
        BY <1>1, <2>1, Ready, ConstantsAssumption DEF StoreTypeOK
      <3>2. /\ ctx'[p] \in Contexts /\ ctx'[p].action = a /\ ctx'[p].fp = ctx[p].fp
            /\ ctx'[p].exhausted = ctx[p].exhausted
            /\ ctx'[p].attempt = attempt_count[a] + 1
        BY <2>6, <3>1, Ready, ConstantsAssumption DEF ProcessTypeOK, Contexts
      <3>3. ProcessTypeOK' /\ Moves(p) /\ pc'[p] = "auditStart"
        BY <2>6, <3>2, Ready DEF ProcessTypeOK, Goto, Moves, Locations
      <3>4. calls'[a][attempt_count[a] + 1] = 0
        <4>1. ItemInv(a) /\ attempt_count[a] + 1 > attempt_count[a]
          BY <1>1, <3>1, Ready
        <4>2. calls' = calls
          BY <1>1 DEF History
        <4>. QED
          BY <3>1, <4>1, <4>2 DEF ItemInv
      <3>5. ProcInv(p)'
        BY <1>1, <2>1, <2>7, <3>1, <3>2, <3>3, <3>4 DEF ProcInv, Bound, Claimed, Executing
      <3>6. ClaimIsFresh(p)
        BY <3>1, <3>2 DEF ClaimIsFresh
      <3>. QED
        BY <3>6, <1>1, <2>1, <2>2, <2>3, <2>4, <3>3, <3>5, Frame DEF TypeOK, History
    <2>. QED
      BY <1>3, <2>5, <2>6
  <1>. QED
    BY <1>2, <1>3 DEF Claim, ClaimFault

\* An update of the item that holds no surprise for anybody.
LEMMA UpdateItems ==
    ASSUME IInv, NEW a \in Actions, NEW new \in Outcomes,
           NEW expected \in {"IN_PROGRESS", "FAILED_RETRYABLE"},
           update_remediation_action(a, new, expected),
           new = "COMPLETED" => request_fingerprint[a] \in tagged[a],
           UNCHANGED History, Fault \/ NoFault
    PROVE  /\ StoreTypeOK' /\ HistoryTypeOK'
           /\ attempt_count' = attempt_count /\ request_fingerprint' = request_fingerprint
           /\ status'[a] # "ABSENT"
           /\ \A b \in Actions : StoreEvolves(b) /\ HistoryEvolves(b) /\ ItemInv(b)'
  <1>1. StoreTypeOK /\ HistoryTypeOK
    BY DEF IInv, TypeOK
  <1>2. /\ StoreTypeOK' /\ \A b \in Actions : StoreEvolves(b)
        /\ \A b \in Actions \ {a} : status'[b] = status[b]
        /\ attempt_count' = attempt_count /\ request_fingerprint' = request_fingerprint
        /\ status[a] = expected /\ status'[a] = new
    BY <1>1, UpdateEffect
  <1>3. HistoryTypeOK' /\ \A b \in Actions : HistoryEvolves(b)
    BY <1>1, FaultType DEF HistoryTypeOK, HistoryEvolves, History
  <1>4. ASSUME NEW b \in Actions PROVE ItemInv(b)'
    <2>1. ItemInv(b)
      BY DEF IInv
    <2>. QED
      BY <1>2, <2>1 DEF ItemInv, History, Outcomes
  <1>. QED
    BY <1>2, <1>3, <1>4 DEF Outcomes

LEMMA ExhaustStep == ASSUME IInv, NEW p \in Procs, Exhaust(p) \/ ExhaustFault(p) PROVE IInv'
  <1>. DEFINE a == ctx[p].action
  <1>1. /\ pc[p] = "exhaust" /\ a \in Actions /\ UNCHANGED History /\ (Fault \/ NoFault)
    BY Ready DEF Exhaust, ExhaustFault, ProcInv
  <1>2. CASE UNCHANGED store /\ Return(p, "ack")
    BY <1>1, <1>2, ReturnStep
  <1>3. CASE /\ update_remediation_action(a, "FAILED", "FAILED_RETRYABLE")
             /\ Return(p, "ack") \/ (Goto(p, "auditExhausted") /\ UNCHANGED ctx)
    <2>1. /\ StoreTypeOK' /\ HistoryTypeOK'
          /\ attempt_count' = attempt_count /\ request_fingerprint' = request_fingerprint
          /\ status'[a] # "ABSENT"
          /\ \A b \in Actions : StoreEvolves(b) /\ HistoryEvolves(b) /\ ItemInv(b)'
      BY <1>1, <1>3, UpdateItems DEF Outcomes
    <2>2. CASE Return(p, "ack")
      BY <1>1, <2>1, <2>2, Ready, ReturnEffect, Frame DEF TypeOK, History
    <2>3. CASE Goto(p, "auditExhausted") /\ UNCHANGED ctx
      <3>1. ProcessTypeOK' /\ Moves(p) /\ pc'[p] = "auditExhausted" /\ ctx'[p] = ctx[p]
        BY <2>3, Ready, GotoEffect DEF Locations
      <3>2. ProcInv(p)' /\ ClaimIsFresh(p)
        BY <1>1, <2>1, <3>1, Ready DEF ProcInv, ClaimIsFresh, Bound, Claimed, Executing
      <3>. QED
        BY <1>1, <2>1, <3>1, <3>2, Frame DEF TypeOK, History
    <2>. QED
      BY <1>3, <2>2, <2>3
  <1>. QED
    BY <1>2, <1>3 DEF Exhaust, ExhaustFault

LEMMA UpdateStep == ASSUME IInv, NEW p \in Procs, Update(p) PROVE IInv'
  <1>. DEFINE a == ctx[p].action
  <1>1. /\ pc[p] = "update" /\ a \in Actions /\ UNCHANGED History /\ (Fault \/ NoFault)
        /\ Goto(p, "auditEnd") /\ UNCHANGED ctx /\ ctx[p].outcome \in Outcomes
        /\ ctx[p].outcome = "COMPLETED" => request_fingerprint[a] \in tagged[a]
    BY Ready DEF Update, ProcInv
  <1>2. ProcessTypeOK' /\ Moves(p) /\ pc'[p] = "auditEnd" /\ ctx'[p] = ctx[p]
    BY <1>1, Ready, GotoEffect DEF Locations
  <1>3. ClaimIsFresh(p)
    BY <1>1, <1>2 DEF ClaimIsFresh, Claimed, Executing
  <1>4. CASE UNCHANGED store
    <2>1. ProcInv(p)'
      BY <1>1, <1>2, <1>4, Ready DEF ProcInv, store, History, Bound, Claimed, Executing
    <2>. QED
      BY <1>1, <1>2, <1>3, <1>4, <2>1, Ready, FaultType, LocalFrame
  <1>5. CASE update_remediation_action(a, ctx[p].outcome, "IN_PROGRESS")
    <2>1. /\ StoreTypeOK' /\ HistoryTypeOK'
          /\ attempt_count' = attempt_count /\ request_fingerprint' = request_fingerprint
          /\ status'[a] # "ABSENT"
          /\ \A b \in Actions : StoreEvolves(b) /\ HistoryEvolves(b) /\ ItemInv(b)'
      BY <1>1, <1>5, UpdateItems
    <2>2. ProcInv(p)'
      BY <1>1, <1>2, <2>1, Ready DEF ProcInv, History, Bound, Claimed, Executing
    <2>. QED
      BY <1>1, <1>2, <1>3, <2>1, <2>2, Frame DEF TypeOK, History
  <1>. QED
    BY <1>4, <1>5 DEF Update

\* A row of the audit log that is true: COMPLETED only for applied tags.
LEMMA LogItems ==
    ASSUME IInv, NEW a \in Actions, NEW n \in 0..MaxAttempts,
           NEW event \in {"SKIPPED", "STARTED"} \cup Outcomes,
           Log(a, event, n), UNCHANGED <<store, calls, tagged>>, NoFault,
           event = "COMPLETED" => request_fingerprint[a] \in tagged[a]
    PROVE  /\ StoreTypeOK' /\ HistoryTypeOK'
           /\ \A b \in Actions : StoreEvolves(b) /\ HistoryEvolves(b) /\ ItemInv(b)'
           /\ <<event, n>> \in audit'[a]
  <1>1. StoreTypeOK /\ HistoryTypeOK
    BY DEF IInv, TypeOK
  <1>2. StoreTypeOK' /\ \A b \in Actions : StoreEvolves(b)
    BY <1>1, SameStore
  <1>3. <<event, n>> \in Rows
    BY DEF Rows
  <1>4. /\ audit'[a] = audit[a] \cup {<<event, n>>}
        /\ \A b \in Actions \ {a} : audit'[b] = audit[b]
        /\ HistoryTypeOK'
    BY <1>1, <1>3, FaultType DEF Log, HistoryTypeOK
  <1>5. ASSUME NEW b \in Actions PROVE HistoryEvolves(b) /\ ItemInv(b)'
    <2>1. ItemInv(b)
      BY DEF IInv
    <2>2. \A i \in 1..MaxAttempts : <<"COMPLETED", i>> = <<event, n>> => event = "COMPLETED"
      OBVIOUS
    <2>3. \A i \in 1..MaxAttempts :
             <<"COMPLETED", i>> \in audit'[b] => request_fingerprint[b] \in tagged[b]
      BY <1>4, <2>1, <2>2 DEF ItemInv
    <2>. QED
      BY <1>4, <2>1, <2>3 DEF ItemInv, HistoryEvolves, store
  <1>. QED
    BY <1>2, <1>4, <1>5

\* Logging and ending the call, or going on to l with the same locals.
LEMMA LogStep ==
    ASSUME IInv, NEW p \in Procs, pc[p] # "idle",
           NEW n \in 0..MaxAttempts, NEW event \in {"SKIPPED", "STARTED"} \cup Outcomes,
           Log(ctx[p].action, event, n), UNCHANGED <<store, calls, tagged>>, NoFault,
           event = "COMPLETED" =>
               request_fingerprint[ctx[p].action] \in tagged[ctx[p].action],
           Respond(p) \/ \E v \in {"ack", "keep"} : Return(p, v)
    PROVE  IInv'
  <1>1. ctx[p].action \in Actions
    BY Ready
  <1>2. /\ StoreTypeOK' /\ HistoryTypeOK'
        /\ \A b \in Actions : StoreEvolves(b) /\ HistoryEvolves(b) /\ ItemInv(b)'
    BY <1>1, LogItems
  <1>3. ProcessTypeOK' /\ Moves(p) /\ ClaimIsFresh(p) /\ ProcInv(p)'
    BY <1>2, Ready, RespondEffect, ReturnEffect
  <1>. QED
    BY <1>2, <1>3, Frame DEF TypeOK

LEMMA AuditSkipStep == ASSUME IInv, NEW p \in Callers, AuditSkip(p) PROVE IInv'
  <1>1. p \in Procs /\ pc[p] = "auditSkip" /\ Respond(p) /\ 0 \in 0..MaxAttempts
    BY ConstantsAssumption DEF Procs, AuditSkip
  <1>2. CASE NoFault /\ Log(ctx[p].action, "SKIPPED", 0)
    BY <1>1, <1>2, LogStep DEF AuditSkip
  <1>3. CASE Fault /\ UNCHANGED audit
    BY <1>1, <1>3, RespondStep DEF AuditSkip, History
  <1>. QED
    BY <1>2, <1>3 DEF AuditSkip

LEMMA AuditExhaustedStep == ASSUME IInv, NEW p \in Procs, AuditExhausted(p) PROVE IInv'
  <1>1. pc[p] = "auditExhausted" /\ 0 \in 0..MaxAttempts
    BY ConstantsAssumption DEF AuditExhausted
  <1>2. CASE NoFault /\ Log(ctx[p].action, "FAILED", 0) /\ Return(p, "ack")
    BY <1>1, <1>2, LogStep DEF AuditExhausted, Outcomes
  <1>3. CASE Fault /\ UNCHANGED audit /\ Return(p, "keep")
    BY <1>1, <1>3, ReturnStep DEF AuditExhausted, History
  <1>. QED
    BY <1>2, <1>3 DEF AuditExhausted

LEMMA AuditEndStep == ASSUME IInv, NEW p \in Procs, AuditEnd(p) PROVE IInv'
  <1>. DEFINE a == ctx[p].action
              n == ctx[p].attempt
              v == IF ctx[p].outcome = "FAILED_RETRYABLE" THEN "keep" ELSE "ack"
  <1>1. /\ pc[p] = "auditEnd" /\ n \in 0..MaxAttempts /\ ctx[p].outcome \in Outcomes
        /\ ctx[p].outcome = "COMPLETED" => request_fingerprint[a] \in tagged[a]
    BY Ready DEF AuditEnd, ProcInv, ProcessTypeOK, Contexts
  <1>2. CASE NoFault /\ Log(a, ctx[p].outcome, n) /\ Return(p, v)
    BY <1>1, <1>2, LogStep DEF AuditEnd
  <1>3. CASE Fault /\ UNCHANGED audit /\ Return(p, "keep")
    BY <1>1, <1>3, ReturnStep DEF AuditEnd, History
  <1>. QED
    BY <1>2, <1>3 DEF AuditEnd

LEMMA AuditStartStep == ASSUME IInv, NEW p \in Procs, AuditStart(p) PROVE IInv'
  <1>. DEFINE a == ctx[p].action
              n == ctx[p].attempt
  <1>1. pc[p] = "auditStart" /\ n \in 0..MaxAttempts /\ a \in Actions
    BY Ready DEF AuditStart, ProcInv, ProcessTypeOK, Contexts
  <1>2. CASE NoFault /\ Log(a, "STARTED", n) /\ Goto(p, "mutate") /\ UNCHANGED ctx
    <2>1. /\ StoreTypeOK' /\ HistoryTypeOK'
          /\ \A b \in Actions : StoreEvolves(b) /\ HistoryEvolves(b) /\ ItemInv(b)'
          /\ <<"STARTED", n>> \in audit'[a]
      BY <1>1, <1>2, LogItems DEF AuditStart
    <2>2. ProcessTypeOK' /\ Moves(p) /\ pc'[p] = "mutate" /\ ctx'[p] = ctx[p]
      BY <1>2, Ready, GotoEffect DEF Locations
    <2>3. ProcInv(p)'
      BY <1>1, <2>1, <2>2, Ready DEF ProcInv, AuditStart, store, Bound, Claimed, Executing
    <2>4. ClaimIsFresh(p)
      BY <1>1, <2>2 DEF ClaimIsFresh, Claimed, Executing
    <2>. QED
      BY <2>1, <2>2, <2>3, <2>4, Frame DEF AuditStart, TypeOK
  <1>3. CASE Fault /\ UNCHANGED audit /\ Return(p, "keep")
    BY <1>1, <1>3, ReturnStep DEF AuditStart, History
  <1>. QED
    BY <1>2, <1>3 DEF AuditStart

\* The AWS call: the first of its claim, and no other process has that claim.
LEMMA MutateStep == ASSUME IInv, NEW p \in Procs, Mutate(p) PROVE IInv'
  <1>. DEFINE a == ctx[p].action
              n == ctx[p].attempt
  <1>1. /\ pc[p] = "mutate" /\ a \in Actions /\ UNCHANGED <<store, audit, faults>>
        /\ Goto(p, "update") /\ ctx[p] \in Contexts /\ ItemInv(a)
    BY Ready DEF Mutate, ProcessTypeOK
  <1>2. /\ n \in 1..attempt_count[a] /\ attempt_count[a] \in 0..MaxAttempts
        /\ calls[a][n] = 0 /\ <<"STARTED", n>> \in audit[a]
        /\ ctx[p].fp = request_fingerprint[a] /\ status[a] # "ABSENT"
    BY <1>1, Ready DEF ProcInv, StoreTypeOK, Bound, Claimed, Executing
  <1>3. n \in 1..MaxAttempts /\ n <= attempt_count[a]
    BY <1>2, ConstantsAssumption
  <1>4. PICK r \in MutationResults :
           /\ calls' = [calls EXCEPT ![a][n] = @ + r.called]
           /\ tagged' = [tagged EXCEPT ![a] = IF r.hit THEN @ \cup {ctx[p].fp} ELSE @]
           /\ ctx' = [ctx EXCEPT ![p].outcome = r.new]
    BY DEF Mutate
  <1>5. /\ r.called = 0 \/ r.called = 1
        /\ r.new \in Outcomes
        /\ r.new = "COMPLETED" => r.hit
    BY DEF MutationResults, Outcomes
  <1>6. /\ calls' \in [Actions -> [1..MaxAttempts -> Nat]]
        /\ calls'[a][n] \in {0, 1}
        /\ \A i \in 1..MaxAttempts : i # n => calls'[a][i] = calls[a][i]
        /\ \A b \in Actions : b # a => calls'[b] = calls[b]
    <2>1. calls \in [Actions -> [1..MaxAttempts -> Nat]]
      BY Ready DEF HistoryTypeOK
    <2>2. calls' = [calls EXCEPT ![a] = [calls[a] EXCEPT ![n] = r.called]]
      <3>1. calls[a][n] + r.called = r.called
        BY <1>2, <1>5
      <3>2. calls' = [calls EXCEPT ![a] = [calls[a] EXCEPT ![n] = calls[a][n] + r.called]]
        BY <1>4
      <3>. QED
        BY <3>1, <3>2
    <2>3. [calls[a] EXCEPT ![n] = r.called] \in [1..MaxAttempts -> Nat]
      BY <1>1, <1>3, <1>5, <2>1
    <2>. QED
      BY <1>1, <1>3, <1>5, <2>1, <2>2, <2>3
  <1>7. ctx[p].fp \in Fingerprints
    BY <1>1, <1>2 DEF ItemInv
  <1>8. /\ tagged' \in [Actions -> SUBSET Fingerprints]
        /\ tagged[a] \subseteq tagged'[a] /\ tagged'[a] \subseteq {request_fingerprint[a]}
        /\ r.hit => request_fingerprint[a] \in tagged'[a]
        /\ \A b \in Actions : b # a => tagged'[b] = tagged[b]
    <2>1. tagged[a] \subseteq {request_fingerprint[a]} /\ tagged \in [Actions -> SUBSET Fingerprints]
      BY <1>1, Ready DEF ItemInv, HistoryTypeOK
    <2>2. CASE r.hit
      BY <1>1, <1>2, <1>4, <1>7, <2>1, <2>2
    <2>3. CASE ~r.hit
      BY <1>1, <1>4, <2>1, <2>3
    <2>. QED
      BY <2>2, <2>3
  <1>9. /\ StoreTypeOK' /\ HistoryTypeOK'
        /\ \A b \in Actions : StoreEvolves(b) /\ HistoryEvolves(b)
    BY <1>1, <1>6, <1>8, Ready, SameStore DEF HistoryTypeOK, HistoryEvolves
  <1>10. ASSUME NEW b \in Actions PROVE ItemInv(b)'
    <2>1. ItemInv(b) /\ attempt_count[b] \in Nat
      BY ConstantsAssumption DEF IInv, TypeOK, StoreTypeOK
    <2>2. CASE b # a
      BY <1>1, <1>6, <1>8, <2>1, <2>2 DEF ItemInv, store
    <2>3. CASE b = a
      <3>1. attempt_count[a] # 0
        BY <1>2, <1>3, <2>1, <2>3
      <3>2. ASSUME NEW i \in 1..MaxAttempts
            PROVE  /\ calls'[a][i] <= 1
                   /\ i > attempt_count[a] => calls'[a][i] = 0
                   /\ calls'[a][i] > 0 => <<"STARTED", i>> \in audit[a]
        <4>1. /\ calls[a][i] <= 1
              /\ i > attempt_count[a] => calls[a][i] = 0
              /\ calls[a][i] > 0 => <<"STARTED", i>> \in audit[a]
          BY <2>1, <2>3 DEF ItemInv
        <4>2. CASE i = n
          BY <1>2, <1>3, <1>6, <2>1, <2>3, <4>2
        <4>3. CASE i # n
          BY <1>6, <4>1, <4>3
        <4>. QED
          BY <4>2, <4>3
      <3>3. /\ status[a] = "COMPLETED" => request_fingerprint[a] \in tagged'[a]
            /\ \A i \in 1..MaxAttempts :
                  <<"COMPLETED", i>> \in audit[a] => request_fingerprint[a] \in tagged'[a]
        BY <1>8, <2>1, <2>3 DEF ItemInv
      <3>. QED
        BY <1>1, <1>8, <2>1, <2>3, <3>1, <3>2, <3>3 DEF ItemInv, store
    <2>. QED
      BY <2>2, <2>3
  <1>11. /\ ctx'[p] \in Contexts /\ ctx'[p].action = a /\ ctx'[p].attempt = n
         /\ ctx'[p].fp = ctx[p].fp /\ ctx'[p].exhausted = ctx[p].exhausted
         /\ ctx'[p].outcome = r.new
    BY <1>1, <1>4, <1>5, Ready DEF ProcessTypeOK, Contexts
  <1>12. ProcessTypeOK' /\ Moves(p) /\ pc'[p] = "update"
    BY <1>1, <1>4, <1>11, Ready DEF ProcessTypeOK, Goto, Moves, Locations
  <1>13. ProcInv(p)'
    BY <1>1, <1>2, <1>5, <1>8, <1>11, <1>12, Ready
       DEF ProcInv, store, Bound, Claimed, Executing
  <1>14. ClaimIsFresh(p)
    BY <1>1, <1>11, <1>12 DEF ClaimIsFresh, Claimed, Executing
  <1>15. ASSUME NEW q \in Procs \ {p}, pc[q] \in {"auditStart", "mutate"}
         PROVE  calls'[ctx[q].action][ctx[q].attempt] = calls[ctx[q].action][ctx[q].attempt]
    <2>1. ctx[q].action \in Actions /\ ctx[q].attempt \in 1..attempt_count[ctx[q].action]
      BY <1>15 DEF IInv, ProcInv, Claimed, Executing
    <2>2. ctx[q].attempt \in 1..MaxAttempts
      BY <2>1, Ready, ConstantsAssumption DEF StoreTypeOK
    <2>3. ctx[q].action = a => ctx[q].attempt # n
      BY <1>1, <1>15 DEF IInv, PairInv, Claimed, Executing
    <2>. QED
      BY <1>6, <2>1, <2>2, <2>3
  <1>. QED
    BY <1>9, <1>10, <1>12, <1>13, <1>14, <1>15, Frame DEF TypeOK

\* Steps that no process takes: deferred creation and the passing of time.
LEMMA EnvFrame ==
    ASSUME IInv, TypeOK', UNCHANGED <<pc, ctx, History>>,
           \A a \in Actions : StoreEvolves(a) /\ ItemInv(a)'
    PROVE  IInv'
  <1>1. \A a \in Actions : HistoryEvolves(a)
    BY DEF HistoryEvolves, History
  <1>2. \A q \in Procs : ProcInv(q)'
    BY <1>1, ProcKeeps DEF History
  <1>3. \A q, r \in Procs : PairInv(q, r)'
    BY DEF IInv, PairInv
  <1>. QED
    BY <1>2, <1>3 DEF IInv

LEMMA CreateDeferredStep ==
    ASSUME IInv, NEW a \in Actions, NEW fp \in Fingerprints, NEW exempt \in BOOLEAN,
           CreateDeferred(a, fp, exempt)
    PROVE  IInv'
  <1>1. StoreTypeOK /\ ProcessTypeOK /\ HistoryTypeOK /\ create_remediation_action(a, fp, exempt)
    BY DEF IInv, TypeOK, CreateDeferred
  <1>2. /\ StoreTypeOK' /\ \A b \in Actions : StoreEvolves(b)
        /\ \A b \in Actions \ {a} : /\ status'[b] = status[b]
                                    /\ request_fingerprint'[b] = request_fingerprint[b]
        /\ attempt_count' = attempt_count
        /\ status[a] = "ABSENT" /\ status'[a] \in {"PENDING", "SKIPPED_EXEMPT"}
        /\ request_fingerprint'[a] = fp
    BY <1>1, CreateEffect
  <1>3. \A b \in Actions : ItemInv(b)'
    BY <1>2 DEF IInv, ItemInv, CreateDeferred, History
  <1>4. TypeOK'
    BY <1>1, <1>2 DEF TypeOK, ProcessTypeOK, HistoryTypeOK, CreateDeferred, History
  <1>. QED
    BY <1>2, <1>3, <1>4, EnvFrame DEF CreateDeferred

LEMMA LeaseExpiresStep == ASSUME IInv, NEW a \in Actions, LeaseExpires(a) PROVE IInv'
  <1>1. TypeOK'
    BY DEF IInv, TypeOK, StoreTypeOK, ProcessTypeOK, HistoryTypeOK, LeaseExpires, History
  <1>2. \A b \in Actions : StoreEvolves(b) /\ ItemInv(b)'
    BY DEF IInv, TypeOK, StoreTypeOK, StoreEvolves, ItemInv, LeaseExpires, History
  <1>. QED
    BY <1>1, <1>2, EnvFrame DEF LeaseExpires

-----------------------------------------------------------------------------
(***************************************************************************)
(* The invariant and what follows from it.                                 *)
(***************************************************************************)

LEMMA InitIInv == Init => IInv
  <1> SUFFICES ASSUME Init PROVE IInv
    OBVIOUS
  <1>1. TypeOK
    BY ConstantsAssumption
       DEF Init, TypeOK, StoreTypeOK, ProcessTypeOK, HistoryTypeOK, Statuses, Locations,
           Contexts, NoCtx, Context
  <1>2. ASSUME NEW a \in Actions PROVE ItemInv(a)
    <2>1. /\ status[a] = "ABSENT" /\ attempt_count[a] = 0 /\ tagged[a] = {} /\ audit[a] = {}
          /\ \A n \in 1..MaxAttempts : calls[a][n] = 0
      BY DEF Init
    <2>. QED
      BY <2>1 DEF ItemInv
  <1>3. \A p \in Procs : ProcInv(p)
    BY DEF Init, ProcInv, NoCtx, Context, Bound, Claimed, Executing
  <1>4. \A p, q \in Procs : PairInv(p, q)
    BY DEF Init, PairInv, Claimed, Executing
  <1>. QED
    BY <1>1, <1>2, <1>3, <1>4 DEF IInv

LEMMA NextIInv == IInv /\ [Next]_vars => IInv'
  <1> SUFFICES ASSUME IInv, [Next]_vars PROVE IInv'
    OBVIOUS
  <1>1. CASE Next
    <2>1. ASSUME NEW p \in Callers, SyncStep(p) PROVE IInv'
      BY <2>1, CreateStep, ResolveStep, RespondStep, AuditSkipStep
         DEF SyncStep, ResolveFault, Procs
    <2>2. ASSUME NEW w \in Workers, AsyncStep(w) \/ Finish(w) PROVE IInv'
      BY <2>2, ReadStep, ReadFaultStep, RespondStep DEF AsyncStep, Finish, NoFault, Procs
    <2>3. ASSUME NEW p \in Procs, CommonStep(p) \/ Crash(p) PROVE IInv'
      BY <2>3, ClaimStep, AfterClaimStep, ExhaustStep, AuditExhaustedStep, AuditStartStep,
         MutateStep, UpdateStep, AuditEndStep, RespondStep DEF CommonStep, Crash
    <2>. QED
      BY <1>1, <2>1, <2>2, <2>3, StartSyncStep, StartAsyncStep, CreateDeferredStep,
         LeaseExpiresStep DEF Next
  <1>2. CASE UNCHANGED vars
    BY <1>2 DEF vars, store, IInv, TypeOK, StoreTypeOK, ProcessTypeOK, HistoryTypeOK,
                ItemInv, ProcInv, PairInv
  <1>. QED
    BY <1>1, <1>2

LEMMA Invariance == Spec => []IInv
  BY InitIInv, NextIInv, PTL DEF Spec

\* The variables keep their types; in particular no action is ever claimed
\* more than MAX_REMEDIATION_ATTEMPTS times.
THEOREM TypeCorrect == Spec => []TypeOK
  <1>1. IInv => TypeOK
    BY DEF IInv
  <1>. QED
    BY <1>1, Invariance, PTL

\* However the processes interleave, die and are retried, a claim buys at most
\* one AWS call, so an action costs at most MAX_REMEDIATION_ATTEMPTS of them.
THEOREM OneCallPerAttemptHolds == Spec => []OneCallPerAttempt
  <1>1. IInv => OneCallPerAttempt
    BY DEF IInv, ItemInv, OneCallPerAttempt
  <1>. QED
    BY <1>1, Invariance, PTL

\* An action whose status is COMPLETED has had its tags applied by AWS, even
\* though a process may settle a claim that another one has taken over.
THEOREM CompletedMeansTaggedHolds == Spec => []CompletedMeansTagged
  <1>1. IInv => CompletedMeansTagged
    BY DEF IInv, ItemInv, CompletedMeansTagged
  <1>. QED
    BY <1>1, Invariance, PTL

\* Under an idempotency key no other tags are applied than those of the
\* request that created the action.
THEOREM OnlyRequestedTagsHolds == Spec => []OnlyRequestedTags
  <1>1. IInv => OnlyRequestedTags
    BY DEF IInv, ItemInv, OnlyRequestedTags
  <1>. QED
    BY <1>1, Invariance, PTL

\* Exempt and unclaimed actions have caused no AWS call and no tag.
THEOREM UnclaimedIsUntouchedHolds == Spec => []UnclaimedIsUntouched
  <1>1. ASSUME IInv PROVE UnclaimedIsUntouched
    <2>1. ASSUME NEW a \in Actions, status[a] \in {"ABSENT", "PENDING", "SKIPPED_EXEMPT"}
          PROVE  tagged[a] = {} /\ \A n \in 1..MaxAttempts : calls[a][n] = 0
      <3>1. ItemInv(a) /\ attempt_count[a] = 0
        BY <1>1, <2>1 DEF IInv, ItemInv
      <3>2. \A n \in 1..MaxAttempts : n > attempt_count[a]
        BY <3>1, ConstantsAssumption
      <3>. QED
        BY <3>1, <3>2 DEF ItemInv
    <2>. QED
      BY <2>1 DEF UnclaimedIsUntouched
  <1>. QED
    BY <1>1, Invariance, PTL

\* Every AWS call has its REMEDIATE_STARTED row, and a row that reports
\* COMPLETED is true.
THEOREM AuditTrailHolds == Spec => []AuditTrail
  <1>1. IInv => AuditTrail
    BY DEF IInv, ItemInv, AuditTrail
  <1>. QED
    BY <1>1, Invariance, PTL

-----------------------------------------------------------------------------
(***************************************************************************)
(* What a step can do to the table: it implements the life cycle.          *)
(***************************************************************************)

SameItems == UNCHANGED <<status, attempt_count, request_fingerprint>>

\* The writes of the table, with what the writer knows about them.
TableWrite(a) ==
    /\ UNCHANGED tagged
    /\ \/ \E fp \in Fingerprints, exempt \in BOOLEAN : create_remediation_action(a, fp, exempt)
       \/ \E leased \in BOOLEAN : claim_remediation_action(a, leased)
       \/ \E new \in Outcomes :
             /\ update_remediation_action(a, new, "IN_PROGRESS")
             /\ new = "COMPLETED" => request_fingerprint[a] \in tagged[a]
       \/ /\ update_remediation_action(a, "FAILED", "FAILED_RETRYABLE")
          /\ attempt_count[a] >= MaxAttempts

\* AWS applies the tags of a claimed action.
TagWrite(a) ==
    /\ SameItems
    /\ attempt_count[a] > 0
    /\ tagged' = [tagged EXCEPT ![a] = @ \cup {request_fingerprint[a]}]

LEMMA StepKinds ==
    ASSUME IInv, Next
    PROVE  \/ SameItems /\ UNCHANGED tagged
           \/ \E a \in Actions : TableWrite(a) \/ TagWrite(a)
  <1>. USE DEF SameItems, store, History
  <1>1. ASSUME NEW p \in Callers, SyncStep(p)
        PROVE  \/ SameItems /\ UNCHANGED tagged
               \/ \E a \in Actions : TableWrite(a)
    <2>1. CASE Create(p) \/ CreateFault(p)
      <3>1. /\ ctx[p].action \in Actions /\ ctx[p].fp \in Fingerprints
            /\ ctx[p].exempt \in BOOLEAN
        BY <2>1, Ready DEF Create, CreateFault, ProcInv, ProcessTypeOK, Contexts, Procs
      <3>. QED
        BY <2>1, <3>1 DEF Create, CreateFault, TableWrite
    <2>. QED
      BY <1>1, <2>1 DEF SyncStep, Resolve, ResolveFault, AuditSkip
  <1>2. ASSUME NEW w \in Workers, AsyncStep(w) \/ Finish(w)
        PROVE  SameItems /\ UNCHANGED tagged
    BY <1>2 DEF AsyncStep, Read, ReadFault, Finish
  <1>3. ASSUME NEW p \in Procs, CommonStep(p) \/ Crash(p)
        PROVE  \/ SameItems /\ UNCHANGED tagged
               \/ \E a \in Actions : TableWrite(a) \/ TagWrite(a)
    <2>1. CASE Claim(p) \/ ClaimFault(p)
      <3>1. ctx[p].action \in Actions
        BY <2>1, Ready DEF Claim, ClaimFault
      <3>2. (p \in Workers) \in BOOLEAN
        OBVIOUS
      <3>. QED
        BY <2>1, <3>1, <3>2 DEF Claim, ClaimFault, TableWrite
    <2>2. CASE Exhaust(p) \/ ExhaustFault(p)
      <3>1. ctx[p].action \in Actions /\ attempt_count[ctx[p].action] >= MaxAttempts
        BY <2>2, Ready DEF Exhaust, ExhaustFault, ProcInv
      <3>. QED
        BY <2>2, <3>1 DEF Exhaust, ExhaustFault, TableWrite
    <2>3. CASE Update(p)
      <3>1. /\ ctx[p].action \in Actions /\ ctx[p].outcome \in Outcomes
            /\ ctx[p].outcome = "COMPLETED" =>
                   request_fingerprint[ctx[p].action] \in tagged[ctx[p].action]
        BY <2>3, Ready DEF Update, ProcInv
      <3>. QED
        BY <2>3, <3>1 DEF Update, TableWrite
    <2>4. CASE Mutate(p)
      <3>1. /\ ctx[p].action \in Actions /\ ctx[p].fp = request_fingerprint[ctx[p].action]
            /\ ctx[p].attempt \in 1..attempt_count[ctx[p].action]
            /\ attempt_count[ctx[p].action] \in 0..MaxAttempts
        BY <2>4, Ready DEF Mutate, ProcInv, StoreTypeOK, Bound, Claimed, Executing
      <3>2. attempt_count[ctx[p].action] > 0
        BY <3>1, ConstantsAssumption
      <3>3. tagged \in [Actions -> SUBSET Fingerprints]
        BY <2>4, Ready DEF HistoryTypeOK
      <3>4. PICK hit \in BOOLEAN :
               tagged' = [tagged EXCEPT ![ctx[p].action] = IF hit THEN @ \cup {ctx[p].fp} ELSE @]
        BY <2>4 DEF Mutate, MutationResults
      <3>5. CASE hit
        BY <2>4, <3>1, <3>2, <3>4, <3>5 DEF TagWrite, Mutate
      <3>6. CASE ~hit
        BY <2>4, <3>3, <3>4, <3>6 DEF Mutate
      <3>. QED
        BY <3>5, <3>6
    <2>. QED
      BY <1>3, <2>1, <2>2, <2>3, <2>4
         DEF CommonStep, Crash, AfterClaim, AfterClaimFault, AuditExhausted, AuditStart, AuditEnd
  <1>4. ASSUME NEW a \in Actions, NEW fp \in Fingerprints, NEW exempt \in BOOLEAN,
               CreateDeferred(a, fp, exempt)
        PROVE  TableWrite(a)
    BY <1>4 DEF CreateDeferred, TableWrite
  <1>5. ASSUME NEW a \in Actions, LeaseExpires(a) PROVE SameItems /\ UNCHANGED tagged
    BY <1>5 DEF LeaseExpires
  <1>. QED
    BY <1>1, <1>2, <1>3, <1>4, <1>5 DEF Next, StartSync, StartAsync

\* A finished action keeps its status, whoever still works on it.
THEOREM TerminalIsFinalHolds == Spec => TerminalIsFinal
  <1>1. ASSUME IInv, [Next]_vars
        PROVE  \A a \in Actions : status[a] \in Terminal => status'[a] = status[a]
    <2>1. ASSUME NEW a \in Actions, TableWrite(a), NEW b \in Actions, status[b] \in Terminal
          PROVE  status'[b] = status[b]
      <3>1. StoreTypeOK
        BY <1>1 DEF IInv, TypeOK
      <3>2. \E s : status' = [status EXCEPT ![a] = s]
        BY <2>1 DEF TableWrite, create_remediation_action, claim_remediation_action,
                    update_remediation_action
      <3>3. status[a] \notin Terminal
        BY <2>1 DEF TableWrite, create_remediation_action, claim_remediation_action,
                    ClaimCondition, update_remediation_action, Terminal
      <3>. QED
        BY <2>1, <3>1, <3>2, <3>3 DEF StoreTypeOK
    <2>2. CASE Next
      BY <1>1, <2>1, <2>2, StepKinds DEF TagWrite, SameItems
    <2>3. CASE UNCHANGED vars
      BY <2>3 DEF vars, store
    <2>. QED
      BY <1>1, <2>2, <2>3
  <1>. QED
    BY <1>1, Invariance, PTL DEF Spec, TerminalIsFinal

\* The engine implements the life cycle: whatever the processes do, the table
\* only goes through the transitions of ActionLifecycle.
THEOREM LifecycleHolds == Spec => LifecycleSpec
  <1>. DEFINE applied == [a \in Actions |-> request_fingerprint[a] \in tagged[a]]
  <1>1. ASSUME Init PROVE Lifecycle!Init
    <2>1. \A a \in Actions : tagged[a] = {}
      BY <1>1 DEF Init
    <2>2. ASSUME NEW a \in Actions PROVE (request_fingerprint[a] \in tagged[a]) = FALSE
      <3>1. ~(request_fingerprint[a] \in tagged[a])
        BY <2>1
      <3>. QED
        BY <3>1
    <2>3. applied = [a \in Actions |-> FALSE]
      BY <2>2
    <2>. QED
      BY <1>1, <2>3 DEF Init, Lifecycle!Init
  <1>2. ASSUME IInv, [Next]_vars PROVE [Lifecycle!Next]_(Lifecycle!vars)
    <2>1. StoreTypeOK /\ \A a \in Actions : ItemInv(a)
      BY <1>2 DEF IInv, TypeOK
    <2>2. CASE SameItems /\ UNCHANGED tagged
      BY <2>2 DEF SameItems, Lifecycle!vars
    <2>3. ASSUME NEW a \in Actions, TableWrite(a)
          PROVE  Lifecycle!Next
      <3>1. CASE \E fp \in Fingerprints, exempt \in BOOLEAN : create_remediation_action(a, fp, exempt)
        <4>1. PICK fp \in Fingerprints, exempt \in BOOLEAN : create_remediation_action(a, fp, exempt)
          BY <3>1
        <4>2. tagged[a] = {} /\ tagged' = tagged
          BY <2>1, <2>3, <4>1 DEF ItemInv, TableWrite, create_remediation_action
        <4>3. applied' = applied
          BY <2>1, <4>1, <4>2 DEF create_remediation_action, StoreTypeOK
        <4>. QED
          BY <4>1, <4>3 DEF Lifecycle!Next, Lifecycle!Create, create_remediation_action
      <3>2. ASSUME UNCHANGED request_fingerprint PROVE applied' = applied
        BY <2>3, <3>2 DEF TableWrite
      <3>3. CASE \E leased \in BOOLEAN : claim_remediation_action(a, leased)
        BY <3>2, <3>3 DEF Lifecycle!Next, Lifecycle!Claim, claim_remediation_action, ClaimCondition
      <3>4. CASE \E new \in Outcomes :
                   /\ update_remediation_action(a, new, "IN_PROGRESS")
                   /\ new = "COMPLETED" => request_fingerprint[a] \in tagged[a]
        <4>1. applied[a] = (request_fingerprint[a] \in tagged[a])
          OBVIOUS
        <4>2. Lifecycle!Settle(a)
          BY <3>2, <3>4, <4>1 DEF Lifecycle!Settle, update_remediation_action, Outcomes
        <4>. QED
          BY <4>2 DEF Lifecycle!Next
      <3>5. CASE /\ update_remediation_action(a, "FAILED", "FAILED_RETRYABLE")
                 /\ attempt_count[a] >= MaxAttempts
        BY <3>2, <3>5 DEF Lifecycle!Next, Lifecycle!GiveUp, update_remediation_action
      <3>. QED
        BY <2>3, <3>1, <3>3, <3>4, <3>5 DEF TableWrite
    <2>4. ASSUME NEW a \in Actions, TagWrite(a) PROVE Lifecycle!Next
      <3>1. tagged \in [Actions -> SUBSET Fingerprints]
        BY <1>2 DEF IInv, TypeOK, HistoryTypeOK
      <3>2. applied' = [applied EXCEPT ![a] = TRUE]
        BY <2>4, <3>1 DEF TagWrite, SameItems
      <3>. QED
        BY <2>4, <3>2 DEF TagWrite, SameItems, Lifecycle!Next, Lifecycle!Apply
    <2>5. CASE UNCHANGED vars
      BY <2>5 DEF vars, store, Lifecycle!vars
    <2>. QED
      BY <1>2, <2>2, <2>3, <2>4, <2>5, StepKinds
  <1>. QED
    BY <1>1, <1>2, Invariance, PTL DEF Spec, LifecycleSpec, Lifecycle!Spec

-----------------------------------------------------------------------------
(***************************************************************************)
(* Workers alone, each done with its claim before its lease runs out.      *)
(***************************************************************************)

\* An executing process works under a live lease ...
UnderLease(p) ==
    LET a == ctx[p].action IN
    pc[p] \in Executing => status[a] = "IN_PROGRESS" /\ lease_until[a] = "live"

\* ... which is what keeps the others out.
LeaseInv == (\A p \in Procs : UnderLease(p)) /\ OneExecutor

\* A step of p that starts no execution and disturbs no live lease.
LEMMA LeaseFrame ==
    ASSUME IInv, LeaseInv, NEW p \in Procs, Moves(p),
           pc'[p] \in Executing => pc[p] \in Executing /\ ctx'[p].action = ctx[p].action,
           \A b \in Actions : status[b] = "IN_PROGRESS" /\ lease_until[b] = "live" =>
                status'[b] = "IN_PROGRESS" /\ lease_until'[b] = "live"
    PROVE  LeaseInv'
  <1>1. ASSUME NEW q \in Procs, pc'[q] \in Executing
        PROVE  /\ pc[q] \in Executing /\ ctx'[q].action = ctx[q].action
               /\ ctx[q].action \in Actions
    <2>1. pc[q] \in Executing /\ ctx'[q].action = ctx[q].action
      BY <1>1 DEF Moves
    <2>. QED
      BY <2>1, Ready DEF Executing
  <1>. QED
    BY <1>1 DEF LeaseInv, UnderLease, OneExecutor

\* A worker is only admitted where nobody is executing.
LEMMA LeaseClaim ==
    ASSUME IInv, LeaseInv, NEW p \in Workers, Claim(p) PROVE LeaseInv'
  <1>. DEFINE a == ctx[p].action
  <1>1. p \in Procs /\ (p \in Workers) = TRUE
    BY DEF Procs
  <1>2. a \in Actions /\ StoreTypeOK /\ ProcessTypeOK
    BY <1>1, Ready DEF Claim
  <1>3. CASE /\ claim_remediation_action(a, p \in Workers)
             /\ Goto(p, "auditStart")
             /\ ctx' = [ctx EXCEPT ![p].attempt = attempt_count[a] + 1]
    <2>1. /\ status' = [status EXCEPT ![a] = "IN_PROGRESS"]
          /\ lease_until' = [lease_until EXCEPT ![a] = "live"]
          /\ status[a] = "IN_PROGRESS" => lease_until[a] = "expired"
      BY <1>1, <1>3 DEF claim_remediation_action, ClaimCondition
    <2>2. \A q \in Procs : pc[q] \in Executing => ctx[q].action # a
      BY <2>1 DEF LeaseInv, UnderLease
    <2>3. \A q \in Procs : ctx'[q].action = ctx[q].action
      BY <1>1, <1>2, <1>3 DEF ProcessTypeOK, Contexts
    <2>4. \A q \in Procs \ {p} : pc'[q] = pc[q]
      BY <1>1, <1>2, <1>3 DEF ProcessTypeOK, Goto
    <2>5. \A q \in Procs : UnderLease(q)'
      BY <1>2, <2>1, <2>2, <2>3, <2>4 DEF LeaseInv, UnderLease, StoreTypeOK
    <2>6. OneExecutor'
      BY <2>2, <2>3, <2>4 DEF LeaseInv, OneExecutor
    <2>. QED
      BY <2>5, <2>6 DEF LeaseInv
  <1>4. CASE Goto(p, "afterClaim") /\ UNCHANGED <<store, ctx>>
    BY <1>1, <1>2, <1>4, GotoEffect, LeaseFrame DEF Locations, Executing, store
  <1>. QED
    BY <1>3, <1>4 DEF Claim

\* The executing worker settles its claim: nobody else was executing.
LEMMA LeaseUpdate ==
    ASSUME IInv, LeaseInv, NEW p \in Procs, Update(p) PROVE LeaseInv'
  <1>. DEFINE a == ctx[p].action
  <1>1. a \in Actions /\ StoreTypeOK /\ ProcessTypeOK /\ pc[p] = "update"
    BY Ready DEF Update
  <1>2. Moves(p) /\ pc'[p] = "auditEnd" /\ ctx' = ctx
    BY <1>1, GotoEffect DEF Update, Locations
  <1>3. \A b \in Actions \ {a} : status'[b] = status[b] /\ lease_until'[b] = lease_until[b]
    BY <1>1 DEF Update, update_remediation_action, store, StoreTypeOK
  <1>4. ASSUME NEW q \in Procs, pc'[q] \in Executing
        PROVE  /\ q # p /\ pc[q] \in Executing
               /\ ctx'[q].action = ctx[q].action /\ ctx[q].action \in Actions \ {a}
    <2>1. q # p
      BY <1>2, <1>4 DEF Executing
    <2>2. pc[q] \in Executing
      BY <1>2, <1>4, <2>1 DEF Moves
    <2>3. ctx[q].action \in Actions
      BY <2>2, Ready DEF Executing
    <2>4. ctx[q].action # a
      BY <1>1, <2>1, <2>2 DEF LeaseInv, OneExecutor, Executing
    <2>. QED
      BY <1>2, <2>1, <2>2, <2>3, <2>4
  <1>. QED
    BY <1>3, <1>4 DEF LeaseInv, UnderLease, OneExecutor

\* The other calls of a worker start no execution and write, if at all, only
\* items that are not executed.
LEMMA LeaseOther ==
    ASSUME IInv, LeaseInv, NEW p \in Workers,
           \/ AsyncStep(p) \/ Finish(p) \/ Crash(p) \/ ClaimFault(p) \/ AfterClaim(p)
           \/ AfterClaimFault(p) \/ Exhaust(p) \/ ExhaustFault(p) \/ AuditExhausted(p)
           \/ AuditStart(p) \/ Mutate(p) \/ AuditEnd(p)
    PROVE  LeaseInv'
  <1>1. p \in Procs /\ (p \in Workers) = TRUE
    BY DEF Procs
  <1>2. StoreTypeOK /\ ProcessTypeOK /\ (pc[p] # "idle" => ctx[p].action \in Actions)
    BY <1>1, Ready
  <1>3. Moves(p)
    BY <1>1, <1>2 DEF Moves, ProcessTypeOK, AsyncStep, Read, ReadFault, Finish, Crash, Respond,
       Return, Goto, ClaimFault, AfterClaim, AfterClaimFault, Exhaust, ExhaustFault,
       AuditExhausted, AuditStart, Mutate, AuditEnd
  <1>4. pc'[p] \in Executing => pc[p] \in Executing /\ ctx'[p].action = ctx[p].action
    <2>1. CASE AuditStart(p)
      BY <1>1, <1>2, <2>1 DEF AuditStart, Return, Goto, ProcessTypeOK, Executing
    <2>2. CASE Mutate(p)
      BY <1>1, <1>2, <2>2 DEF Mutate, Goto, ProcessTypeOK, Contexts, Executing
    <2>3. CASE AsyncStep(p) \/ Finish(p) \/ Crash(p)
      BY <1>1, <1>2, <2>3 DEF AsyncStep, Read, ReadFault, Finish, Crash, Respond, Goto,
         ProcessTypeOK, Executing
    <2>. QED
      BY <1>1, <1>2, <2>1, <2>2, <2>3 DEF Return, Goto, ClaimFault, AfterClaim,
         AfterClaimFault, Exhaust, ExhaustFault, AuditExhausted, AuditEnd, ProcessTypeOK, Executing
  <1>5. ASSUME NEW b \in Actions, status[b] = "IN_PROGRESS", lease_until[b] = "live"
        PROVE  status'[b] = "IN_PROGRESS" /\ lease_until'[b] = "live"
    <2>1. CASE ClaimFault(p)
      BY <1>1, <1>2, <1>5, <2>1
         DEF ClaimFault, claim_remediation_action, store, StoreTypeOK
    <2>2. CASE Exhaust(p) \/ ExhaustFault(p)
      BY <1>2, <1>5, <2>2
         DEF Exhaust, ExhaustFault, update_remediation_action, store, StoreTypeOK
    <2>. QED
      BY <1>5, <2>1, <2>2 DEF AsyncStep, Read, ReadFault, Finish, Crash, AfterClaim,
         AfterClaimFault, AuditExhausted, AuditStart, Mutate, AuditEnd, store
  <1>. QED
    BY <1>1, <1>3, <1>4, <1>5, LeaseFrame

\* A worker that begins a message executes nothing yet.
LEMMA LeaseStart ==
    ASSUME IInv, LeaseInv, NEW w \in Workers, NEW a \in Actions, StartAsync(w, a)
    PROVE  LeaseInv'
  <1>1. w \in Procs /\ ProcessTypeOK
    BY Ready DEF Procs
  <1>2. Moves(w) /\ pc'[w] = "read" /\ UNCHANGED <<status, lease_until>>
    BY <1>1 DEF StartAsync, Goto, Moves, ProcessTypeOK, store
  <1>. QED
    BY <1>1, <1>2, LeaseFrame DEF Executing

\* Deferred creation and the clock touch no live lease of an executed action.
LEMMA LeaseEnv ==
    ASSUME IInv, LeaseInv, ~StallsOutlastLease, Callers = {}, NEW a \in Actions,
           \/ \E fp \in Fingerprints, exempt \in BOOLEAN : CreateDeferred(a, fp, exempt)
           \/ LeaseExpires(a)
    PROVE  LeaseInv'
  <1>1. StoreTypeOK /\ UNCHANGED <<pc, ctx>>
    BY DEF IInv, TypeOK, CreateDeferred, LeaseExpires
  <1>2. OneExecutor'
    BY <1>1 DEF LeaseInv, OneExecutor
  <1>3. ASSUME NEW q \in Procs, pc[q] \in Executing
        PROVE  LET b == ctx[q].action IN status'[b] = "IN_PROGRESS" /\ lease_until'[b] = "live"
    <2>1. ctx[q].action \in Actions /\ q \in Workers
      BY <1>3, Ready DEF Executing, Procs
    <2>2. status[ctx[q].action] = "IN_PROGRESS" /\ lease_until[ctx[q].action] = "live"
      BY <1>3 DEF LeaseInv, UnderLease
    <2>3. CASE \E fp \in Fingerprints, exempt \in BOOLEAN : CreateDeferred(a, fp, exempt)
      BY <1>1, <2>1, <2>2, <2>3 DEF CreateDeferred, create_remediation_action, StoreTypeOK
    <2>4. CASE LeaseExpires(a)
      BY <1>1, <1>3, <2>1, <2>2, <2>4 DEF LeaseExpires, StoreTypeOK
    <2>. QED
      BY <2>3, <2>4
  <1>. QED
    BY <1>1, <1>2, <1>3 DEF LeaseInv, UnderLease

LEMMA LeaseInit == Init => LeaseInv
BY DEF Init, LeaseInv, UnderLease, OneExecutor, Executing

LEMMA LeaseNext ==
    ASSUME Callers = {}, ~StallsOutlastLease, IInv, LeaseInv, [Next]_vars PROVE LeaseInv'
  <1>1. ASSUME NEW w \in Workers, CommonStep(w) \/ AsyncStep(w) \/ Finish(w) \/ Crash(w)
        PROVE  LeaseInv'
    BY <1>1, LeaseClaim, LeaseUpdate, LeaseOther DEF CommonStep, Procs
  <1>2. CASE UNCHANGED vars
    BY <1>2 DEF vars, store, LeaseInv, UnderLease, OneExecutor
  <1>3. ASSUME NEW a \in Actions,
               \/ \E fp \in Fingerprints, exempt \in BOOLEAN : CreateDeferred(a, fp, exempt)
               \/ LeaseExpires(a)
        PROVE  LeaseInv'
    BY <1>3, LeaseEnv
  <1>4. Next => \/ \E w \in Workers :
                       CommonStep(w) \/ AsyncStep(w) \/ Finish(w) \/ Crash(w)
                \/ \E w \in Workers, a \in Actions : StartAsync(w, a)
                \/ \E a \in Actions, fp \in Fingerprints, exempt \in BOOLEAN :
                       CreateDeferred(a, fp, exempt)
                \/ \E a \in Actions : LeaseExpires(a)
    BY DEF Next, Procs
  <1>5. ASSUME NEW w \in Workers, NEW a \in Actions, StartAsync(w, a) PROVE LeaseInv'
    BY <1>5, LeaseStart
  <1>. QED
    BY <1>1, <1>2, <1>3, <1>4, <1>5

\* Where only workers execute actions, and each is done with a claim within
\* its lease, no two of them ever execute the same action: what the worker's
\* documentation promises, under the two conditions it takes.
THEOREM OneExecutorHolds ==
    Callers = {} /\ ~StallsOutlastLease => (Spec => []OneExecutor)
  <1> SUFFICES ASSUME Callers = {}, ~StallsOutlastLease PROVE Spec => []OneExecutor
    OBVIOUS
  <1>1. Init => LeaseInv
    BY LeaseInit
  <1>2. IInv /\ LeaseInv /\ [Next]_vars => LeaseInv'
    BY LeaseNext
  <1>3. LeaseInv => OneExecutor
    BY DEF LeaseInv
  <1>. QED
    BY <1>1, <1>2, <1>3, Invariance, PTL DEF Spec

-----------------------------------------------------------------------------
(***************************************************************************)
(* The worker loop runs the engine and nothing else, so what is proved of  *)
(* the engine holds of workers fed by a queue that loses, delays and       *)
(* repeats messages.                                                       *)
(***************************************************************************)


\* A handler runs exactly for the current message of its worker.
Busy(w) ==
    IF current[w] = None THEN pc[w] = "idle"
                         ELSE pc[w] # "idle" /\ ctx[w].action = Body[current[w]]

LoopInv == IInv /\ LoopTypeOK

\* A worker between two messages has no locals.
LEMMA IdleWorker ==
    ASSUME LoopInv, NEW w \in Workers, current[w] = None
    PROVE  pc[w] = "idle" /\ ctx[w] = NoCtx /\ w \in Procs
  BY DEF LoopInv, LoopTypeOK, IInv, ProcInv, Procs

\* Becoming idle when idle already changes nothing.
LEMMA RespondIdle ==
    ASSUME LoopInv, NEW w \in Workers, current[w] = None, UNCHANGED <<pc, ctx>>
    PROVE  Respond(w)
  <1>1. pc[w] = "idle" /\ ctx[w] = NoCtx /\ w \in Procs /\ ProcessTypeOK
    BY IdleWorker DEF LoopInv, IInv, TypeOK
  <1>. QED
    BY <1>1 DEF Respond, Goto, ProcessTypeOK

\* Each step of the loop is a step of the engine or invisible to it; a failing
\* delete looks like a crash of an idle or finished worker.
LEMMA LoopStepIsEngineStep ==
    ASSUME LoopInv, LoopNext PROVE [Next]_vars
  <1>1. ASSUME NEW m \in Messages, Send(m) \/ Redeliver(m) PROVE UNCHANGED vars
    BY <1>1 DEF Send, Redeliver
  <1>2. ASSUME NEW w \in Workers, Loop(w) PROVE [Next]_vars
    <2>1. CASE \E batch \in SUBSET Messages : Receive(w, batch)
      BY <2>1 DEF Receive
    <2>2. ASSUME NEW m \in Messages, HandleRemediation(w, m) PROVE Next
      <3>1. Body[m] \in Actions /\ StartAsync(w, Body[m])
        BY <2>2 DEF HandleRemediation
      <3>. QED
        BY <3>1 DEF Next
    <2>3. ASSUME NEW m \in Messages, HandleHealthCheck(w, m) PROVE [Next]_vars
      <3>1. current[w] = None /\ UNCHANGED <<store, pc, ctx, History>> /\ (NoFault \/ Fault)
        BY <2>3 DEF HandleHealthCheck, Take
      <3>2. CASE NoFault
        BY <3>1, <3>2 DEF NoFault, vars, History
      <3>3. CASE Fault
        <4>1. Crash(w)
          BY <3>1, <3>3, RespondIdle DEF Crash
        <4>. QED
          BY <4>1 DEF Next, Procs
      <3>. QED
        BY <3>1, <3>2, <3>3
    <2>4. ASSUME NEW m \in Messages, LeaveToDLQ(w, m) PROVE UNCHANGED vars
      BY <2>4 DEF LeaveToDLQ
    <2>5. CASE Settle(w)
      <3>1. Finish(w) \/ Crash(w)
        BY <2>5 DEF Settle, Finish, Crash, NoFault
      <3>. QED
        BY <3>1 DEF Next, Procs
    <2>6. CASE Exit(w)
      BY <2>6 DEF Exit
    <2>. QED
      BY <1>2, <2>1, <2>2, <2>3, <2>4, <2>5, <2>6 DEF Loop
  <1>3. ASSUME NEW w \in Workers, WorkerStep(w) \/ handle_shutdown_signal(w) \/ WorkerCrash(w)
        PROVE  [Next]_vars
    BY <1>3 DEF WorkerStep, handle_shutdown_signal, WorkerCrash, Next, Procs
  <1>4. CASE Elsewhere
    BY <1>4 DEF Elsewhere, Next, Procs
  <1>. QED
    BY <1>1, <1>2, <1>3, <1>4 DEF LoopNext

\* The calls of a worker inside process_async never leave it idle, and keep
\* the action they are about.
LEMMA WorkerStaysBusy ==
    ASSUME ProcessTypeOK, NEW w \in Workers, AsyncStep(w) \/ CommonStep(w)
    PROVE  /\ pc[w] # "idle" /\ pc'[w] # "idle" /\ ctx'[w].action = ctx[w].action
           /\ Moves(w)
  <1>1. w \in Procs /\ (w \in Workers) = TRUE
    BY DEF Procs
  <1>2. CASE AsyncStep(w)
    BY <1>1, <1>2 DEF AsyncStep, Read, ReadFault, Goto, ProcessTypeOK, Contexts, Moves
  <1>3. CASE Claim(w) \/ ClaimFault(w) \/ AfterClaim(w) \/ AfterClaimFault(w)
    BY <1>1, <1>3 DEF Claim, ClaimFault, AfterClaim, AfterClaimFault, Return, Goto,
       ProcessTypeOK, Contexts, Moves
  <1>4. CASE Exhaust(w) \/ ExhaustFault(w) \/ AuditExhausted(w) \/ AuditStart(w) \/ AuditEnd(w)
    BY <1>1, <1>4 DEF Exhaust, ExhaustFault, AuditExhausted, AuditStart, AuditEnd, Return, Goto,
       ProcessTypeOK, Contexts, Moves
  <1>5. CASE Update(w)
    BY <1>1, <1>5 DEF Update, Goto, ProcessTypeOK, Contexts, Moves
  <1>6. CASE Mutate(w)
    <2>1. /\ pc[w] = "mutate" /\ pc' = [pc EXCEPT ![w] = "update"]
          /\ \E new : ctx' = [ctx EXCEPT ![w].outcome = new]
      BY <1>6 DEF Mutate, Goto
    <2>. QED
      BY <1>1, <2>1 DEF ProcessTypeOK, Contexts, Moves
  <1>. QED
    BY <1>2, <1>3, <1>4, <1>5, <1>6 DEF CommonStep

\* A request thread moves no worker.
LEMMA CallersMoveAlone ==
    ASSUME ProcessTypeOK, NEW p \in Callers, NEW w \in Workers,
           \/ SyncStep(p) \/ CommonStep(p) \/ Crash(p)
           \/ \E a \in Actions, fp \in Fingerprints, exempt \in BOOLEAN :
                  StartSync(p, a, fp, exempt)
    PROVE  pc'[w] = pc[w] /\ ctx'[w] = ctx[w]
  <1>1. p # w /\ p \in Procs /\ w \in Procs /\ (p \in Workers) = FALSE
    BY ConstantsAssumption DEF Procs
  <1>2. CASE SyncStep(p)
    BY <1>1, <1>2 DEF SyncStep, Create, CreateFault, Resolve, ResolveFault, AuditSkip, Respond,
       Goto, ProcessTypeOK
  <1>3. CASE Claim(p) \/ ClaimFault(p) \/ AfterClaim(p) \/ AfterClaimFault(p)
    BY <1>1, <1>3 DEF Claim, ClaimFault, AfterClaim, AfterClaimFault, Return, Respond, Goto,
       ProcessTypeOK
  <1>4. CASE \/ Exhaust(p) \/ ExhaustFault(p) \/ AuditExhausted(p) \/ AuditStart(p)
             \/ AuditEnd(p) \/ Update(p)
    BY <1>1, <1>4 DEF Exhaust, ExhaustFault, AuditExhausted, AuditStart, AuditEnd, Update,
       Return, Respond, Goto, ProcessTypeOK
  <1>5. CASE Mutate(p)
    <2>1. /\ pc' = [pc EXCEPT ![p] = "update"]
          /\ \E new : ctx' = [ctx EXCEPT ![p].outcome = new]
      BY <1>5 DEF Mutate, Goto
    <2>. QED
      BY <1>1, <2>1 DEF ProcessTypeOK
  <1>6. CASE Crash(p) \/ \E a \in Actions, fp \in Fingerprints, exempt \in BOOLEAN :
                            StartSync(p, a, fp, exempt)
    BY <1>1, <1>6 DEF Crash, StartSync, Respond, Goto, ProcessTypeOK
  <1>. QED
    BY <1>2, <1>3, <1>4, <1>5, <1>6 DEF CommonStep

\* The loop's variables after any step, and the link between message and handler.
LEMMA LoopTypeStep ==
    ASSUME LoopInv, TypeOK', LoopNext PROVE LoopTypeOK'
  <1>. DEFINE QueueOK == /\ queue \in [Messages -> {"unsent", "visible", "inflight", "deleted", "dlq"}]
                         /\ receives \in [Messages -> Nat]
              LocalOK == /\ inbox \in [Workers -> SUBSET Messages]
                         /\ current \in [Workers -> Messages \cup {None}]
                         /\ shutdown \in [Workers -> {"no", "requested", "exited"}]
  <1>0. QueueOK /\ LocalOK /\ ProcessTypeOK /\ \A w \in Workers : Busy(w)
    BY DEF LoopInv, LoopTypeOK, Busy, TypeOK
  <1>1. SUFFICES QueueOK' /\ LocalOK' /\ \A w \in Workers : Busy(w)'
    BY DEF LoopTypeOK, Busy
  <1>2. ASSUME UNCHANGED <<pc, ctx, current>> PROVE \A w \in Workers : Busy(w)'
    BY <1>0, <1>2 DEF Busy
  <1>3. CASE \E m \in Messages : Send(m) \/ Redeliver(m)
    BY <1>0, <1>2, <1>3 DEF Send, Redeliver, vars, loopVars
  <1>4. ASSUME NEW w \in Workers, Loop(w)
        PROVE  QueueOK' /\ LocalOK' /\ \A v \in Workers : Busy(v)'
    <2>1. ASSUME NEW batch \in SUBSET Messages, Receive(w, batch)
          PROVE  QueueOK' /\ LocalOK' /\ UNCHANGED <<pc, ctx, current>>
      BY <1>0, <2>1 DEF Receive, vars
    <2>2. ASSUME NEW m \in Messages, HandleRemediation(w, m)
          PROVE  QueueOK' /\ LocalOK' /\ \A v \in Workers : Busy(v)'
      <3>1. QueueOK' /\ LocalOK'
        BY <1>0, <2>2 DEF HandleRemediation, Take, queueVars
      <3>2. /\ pc' = [pc EXCEPT ![w] = "read"]
            /\ ctx' = [ctx EXCEPT ![w] = Context(Body[m], None, FALSE)]
            /\ current' = [current EXCEPT ![w] = m]
        BY <2>2 DEF HandleRemediation, StartAsync, Goto
      <3>3. Context(Body[m], None, FALSE).action = Body[m]
        BY DEF Context
      <3>4. w \in Procs /\ Workers \subseteq Procs
        BY DEF Procs
      <3>5. Busy(w)'
        BY <1>0, <3>2, <3>3, <3>4, LoopAssumption DEF Busy, ProcessTypeOK
      <3>6. \A v \in Workers \ {w} : Busy(v)'
        BY <1>0, <3>2, <3>4 DEF Busy, ProcessTypeOK
      <3>. QED
        BY <3>1, <3>5, <3>6
    <2>3. ASSUME NEW m \in Messages, HandleHealthCheck(w, m) \/ LeaveToDLQ(w, m)
          PROVE  QueueOK' /\ LocalOK' /\ UNCHANGED <<pc, ctx, current>>
      BY <1>0, <2>3 DEF HandleHealthCheck, LeaveToDLQ, Take, Deleted, vars, queueVars
    <2>4. ASSUME Settle(w)
          PROVE  QueueOK' /\ LocalOK' /\ \A v \in Workers : Busy(v)'
      <3>1. QueueOK' /\ LocalOK'
        BY <1>0, <2>4 DEF Settle, Deleted
      <3>2. /\ pc' = [pc EXCEPT ![w] = "idle"] /\ ctx' = [ctx EXCEPT ![w] = NoCtx]
            /\ current' = [current EXCEPT ![w] = None] /\ Workers \subseteq Procs
        BY <2>4 DEF Settle, Respond, Goto, Procs
      <3>. QED
        BY <1>0, <3>1, <3>2 DEF Busy, ProcessTypeOK
    <2>5. ASSUME Exit(w) PROVE QueueOK' /\ LocalOK' /\ UNCHANGED <<pc, ctx, current>>
      BY <1>0, <2>5 DEF Exit, vars, queueVars
    <2>. QED
      BY <1>2, <1>4, <2>1, <2>2, <2>3, <2>4, <2>5 DEF Loop
  <1>5. ASSUME NEW w \in Workers, WorkerStep(w)
        PROVE  QueueOK' /\ LocalOK' /\ \A v \in Workers : Busy(v)'
    <2>1. UNCHANGED <<queueVars, loopVars>>
      BY <1>5 DEF WorkerStep
    <2>2. pc[w] # "idle" /\ pc'[w] # "idle" /\ ctx'[w].action = ctx[w].action /\ Moves(w)
      BY <1>0, <1>5, WorkerStaysBusy DEF WorkerStep
    <2>. QED
      BY <1>0, <2>1, <2>2 DEF queueVars, loopVars, Busy, Moves, Procs
  <1>6. ASSUME NEW w \in Workers, handle_shutdown_signal(w)
        PROVE  QueueOK' /\ LocalOK' /\ \A v \in Workers : Busy(v)'
    BY <1>0, <1>2, <1>6 DEF handle_shutdown_signal, vars, queueVars
  <1>7. ASSUME NEW w \in Workers, WorkerCrash(w)
        PROVE  QueueOK' /\ LocalOK' /\ \A v \in Workers : Busy(v)'
    <2>1. QueueOK' /\ LocalOK'
      BY <1>0, <1>7 DEF WorkerCrash, queueVars
    <2>2. /\ pc' = [pc EXCEPT ![w] = "idle"] /\ ctx' = [ctx EXCEPT ![w] = NoCtx]
          /\ current' = [current EXCEPT ![w] = None] /\ Workers \subseteq Procs
      BY <1>7 DEF WorkerCrash, Crash, Respond, Goto, Procs
    <2>. QED
      BY <1>0, <2>1, <2>2 DEF Busy, ProcessTypeOK
  <1>8. CASE Elsewhere
    <2>1. QueueOK' /\ LocalOK' /\ current' = current
      BY <1>0, <1>8 DEF Elsewhere, queueVars, loopVars
    <2>2. \A w \in Workers : pc'[w] = pc[w] /\ ctx'[w] = ctx[w]
      BY <1>0, <1>8, CallersMoveAlone DEF Elsewhere, CreateDeferred, LeaseExpires
    <2>. QED
      BY <1>0, <2>1, <2>2 DEF Busy
  <1>. QED
    BY <1>3, <1>4, <1>5, <1>6, <1>7, <1>8 DEF LoopNext

LEMMA LoopInvariance == LoopSpec => []LoopInv
  <1>1. LoopInit => LoopInv
    <2> SUFFICES ASSUME LoopInit PROVE LoopInv
      OBVIOUS
    <2>1. IInv /\ TypeOK
      BY InitIInv DEF LoopInit, IInv
    <2>2. \A w \in Workers : pc[w] = "idle" /\ current[w] = None
      BY DEF LoopInit, Init, Procs
    <2>. QED
      BY <2>1, <2>2 DEF LoopInit, LoopInv, LoopTypeOK
  <1>2. LoopInv /\ [LoopNext]_allVars => LoopInv'
    <2> SUFFICES ASSUME LoopInv, [LoopNext]_allVars PROVE LoopInv'
      OBVIOUS
    <2>1. [Next]_vars
      BY LoopStepIsEngineStep DEF allVars
    <2>2. IInv' /\ TypeOK'
      BY <2>1, NextIInv DEF LoopInv, IInv
    <2>3. CASE LoopNext
      BY <2>2, <2>3, LoopTypeStep DEF LoopInv
    <2>4. CASE UNCHANGED allVars
      BY <2>2, <2>4 DEF LoopInv, LoopTypeOK, allVars, vars, queueVars, loopVars
    <2>. QED
      BY <2>3, <2>4
  <1>. QED
    BY <1>1, <1>2, PTL DEF LoopSpec

\* The loop's state keeps its shape, and process_async is busy exactly with
\* the action that the worker's current message names.
THEOREM LoopTypeCorrect == LoopSpec => []LoopTypeOK
  <1>1. LoopInv => LoopTypeOK
    BY DEF LoopInv
  <1>. QED
    BY <1>1, LoopInvariance, PTL

\* The worker loop implements the engine: every theorem about Spec holds of
\* workers driven by the queue.
THEOREM LoopImplementsEngine == LoopSpec => Spec
  <1>1. LoopInit => Init
    BY DEF LoopInit
  <1>2. LoopInv /\ [LoopNext]_allVars => [Next]_vars
    BY LoopStepIsEngineStep DEF allVars
  <1>. QED
    BY <1>1, <1>2, LoopInvariance, PTL DEF LoopSpec, Spec

\* Redeliveries, crashes and overlapping batches never make two workers
\* execute one action, as long as a worker is done within its lease.
THEOREM LoopOneExecutor ==
    Callers = {} /\ ~StallsOutlastLease => (LoopSpec => []OneExecutor)
  BY OneExecutorHolds, LoopImplementsEngine

-----------------------------------------------------------------------------
(***************************************************************************)
(* What a verdict says of the action, and a deletion of the verdict.       *)
(***************************************************************************)

ClaimedOnce(a) == status[a] \notin {"ABSENT", "PENDING"}

\* What worker w has learnt of its action when it is about to answer TRUE.
VerdictInv(w) ==
    LET a == ctx[w].action IN
    /\ pc[w] \in {"exhaust", "auditExhausted", "ack"} => ClaimedOnce(a)
    /\ faults = 0 =>
          /\ pc[w] = "exhaust" => status[a] \in Terminal \cup {"FAILED_RETRYABLE"}
          /\ pc[w] \in {"auditExhausted", "ack"} => status[a] \in Terminal
          /\ pc[w] = "auditEnd" /\ ctx[w].outcome # "FAILED_RETRYABLE" => status[a] \in Terminal

\* How the status of an action may go on.
StatusGoesOn(a) ==
    /\ ClaimedOnce(a) => ClaimedOnce(a)'
    /\ status[a] \in Terminal => status'[a] = status[a]
    /\ status[a] = "FAILED_RETRYABLE" /\ attempt_count[a] >= MaxAttempts =>
          status'[a] \in {"FAILED_RETRYABLE", "FAILED"}

LEMMA StatusSteps ==
    ASSUME IInv, [Next]_vars, NEW b \in Actions PROVE StatusGoesOn(b)
  <1>0. StoreTypeOK
    BY DEF IInv, TypeOK
  <1>1. ASSUME NEW a \in Actions, TableWrite(a) PROVE StatusGoesOn(b)
    <2>1. \/ /\ \E new \in Statuses \ {"ABSENT", "PENDING"} : status' = [status EXCEPT ![a] = new]
             /\ status[a] \notin Terminal
             /\ status[a] = "FAILED_RETRYABLE" /\ attempt_count[a] >= MaxAttempts => status'[a] = "FAILED"
          \/ status[a] = "ABSENT" /\ \E new : status' = [status EXCEPT ![a] = new]
      BY <1>0, <1>1, ConstantsAssumption
         DEF TableWrite, create_remediation_action, claim_remediation_action, ClaimCondition,
             update_remediation_action, StoreTypeOK, Statuses, Outcomes, Terminal
    <2>. QED
      BY <1>0, <2>1 DEF StatusGoesOn, ClaimedOnce, StoreTypeOK, Terminal
  <1>2. CASE Next
    <2>1. CASE status' = status
      BY <2>1 DEF StatusGoesOn, ClaimedOnce
    <2>. QED
      BY <1>1, <1>2, <2>1, StepKinds DEF TagWrite, SameItems
  <1>3. CASE UNCHANGED vars
    BY <1>3 DEF vars, store, StatusGoesOn, ClaimedOnce
  <1>. QED
    BY <1>2, <1>3

\* Failures are never forgotten.
LEMMA FaultsStay == ASSUME IInv, [Next]_vars, faults' = 0 PROVE faults = 0
  <1>1. faults \in Nat
    BY DEF IInv, TypeOK, HistoryTypeOK
  <1>2. Fault \/ faults' = faults
    BY DEF Next, SyncStep, AsyncStep, CommonStep, StartSync, StartAsync, CreateDeferred, LeaseExpires,
       Finish, Crash, Create, CreateFault, Resolve, ResolveFault, AuditSkip, Read, ReadFault, Claim,
       ClaimFault, AfterClaim, AfterClaimFault, Exhaust, ExhaustFault, AuditExhausted, AuditStart,
       Mutate, Update, AuditEnd, NoFault, vars, History
  <1>. QED
    BY <1>1, <1>2 DEF Fault

LEMMA OtherVerdict ==
    ASSUME IInv, [Next]_vars, NEW v \in Workers, VerdictInv(v), pc'[v] = pc[v], ctx'[v] = ctx[v]
    PROVE  VerdictInv(v)'
  <1>1. pc[v] # "idle" => ctx[v].action \in Actions
    BY Ready DEF Procs
  <1>2. pc[v] = "exhaust" => attempt_count[ctx[v].action] >= MaxAttempts
    BY Ready DEF Procs, ProcInv
  <1>3. pc[v] # "idle" => StatusGoesOn(ctx[v].action)
    BY <1>1, StatusSteps
  <1>4. faults' = 0 => faults = 0
    BY FaultsStay
  <1>. QED
    BY <1>2, <1>3, <1>4 DEF VerdictInv, StatusGoesOn, ClaimedOnce, Terminal

\* The worker itself, step by step.
LEMMA OwnVerdict ==
    ASSUME IInv, LeaseInv, NEW w \in Workers, VerdictInv(w),
           \/ AsyncStep(w) \/ CommonStep(w) \/ Finish(w) \/ Crash(w)
           \/ \E a \in Actions : StartAsync(w, a)
    PROVE  VerdictInv(w)'
  <1> DEFINE a == ctx[w].action
  <1>1. w \in Procs /\ (w \in Workers) = TRUE /\ ProcessTypeOK /\ StoreTypeOK /\ ProcInv(w)
        /\ (pc[w] # "idle" => a \in Actions)
    BY Ready DEF Procs
  <1>2. [Next]_vars /\ (faults' = 0 => faults = 0)
    BY <1>1, FaultsStay DEF Next
  <1>3. \A b \in Actions : StatusGoesOn(b)
    BY <1>2, StatusSteps
  <1>4. Fault => faults' # 0
    BY DEF IInv, TypeOK, HistoryTypeOK, Fault
  <1>5. CASE pc'[w] \notin {"exhaust", "auditExhausted", "ack", "auditEnd"}
    BY <1>5 DEF VerdictInv
  <1>6. CASE Finish(w) \/ Crash(w) \/ \E b \in Actions : StartAsync(w, b)
    BY <1>1, <1>5, <1>6 DEF Finish, Crash, Respond, StartAsync, Goto, ProcessTypeOK
  <1>7. CASE Read(w) \/ ReadFault(w)
    <2>1. /\ UNCHANGED status /\ (pc'[w] = "ack" => status[a] \in Terminal)
          /\ ctx'[w].action = a /\ pc'[w] \in {"keep", "ack", "claim"}
      BY <1>1, <1>7 DEF Read, ReadFault, Goto, ProcessTypeOK, Contexts, store
    <2>. QED
      BY <2>1 DEF VerdictInv, ClaimedOnce, Terminal
  <1>8. CASE Claim(w) \/ ClaimFault(w) \/ AuditStart(w) \/ Mutate(w)
    <2>1. pc'[w] \in {"auditStart", "afterClaim", "mutate", "keep", "update"}
      BY <1>1, <1>8 DEF Claim, ClaimFault, AuditStart, Mutate, Goto, Return, ProcessTypeOK
    <2>. QED
      BY <1>5, <2>1
  <1>9. CASE AfterClaim(w) \/ AfterClaimFault(w)
    <2>1. w \notin Callers
      BY ConstantsAssumption
    <2>2. /\ UNCHANGED <<status, ctx>>
          /\ \/ pc'[w] = "exhaust" /\ status[a] = "FAILED_RETRYABLE"
             \/ pc'[w] = "ack" /\ status[a] \in Terminal
             \/ pc'[w] = "keep"
      BY <1>1, <1>9, <2>1 DEF AfterClaim, AfterClaimFault, Exhausted, Return, Goto, ProcessTypeOK, store
    <2>. QED
      BY <2>2 DEF VerdictInv, ClaimedOnce, Terminal
  <1>10. CASE Exhaust(w) \/ ExhaustFault(w)
    <2>1. /\ pc[w] = "exhaust" /\ a \in Actions /\ ctx' = ctx /\ pc'[w] \in {"auditExhausted", "ack"}
      BY <1>1, <1>10 DEF Exhaust, ExhaustFault, Return, Goto, ProcessTypeOK
    <2>2. ClaimedOnce(a)'
      BY <1>3, <2>1 DEF VerdictInv, StatusGoesOn
    <2>3. faults' = 0 => status'[a] \in Terminal
      <3>. SUFFICES ASSUME faults' = 0 PROVE status'[a] \in Terminal
        OBVIOUS
      <3>1. faults = 0 /\ status[a] \in Terminal \cup {"FAILED_RETRYABLE"}
        BY <1>2, <2>1 DEF VerdictInv
      <3>2. Exhaust(w)
        BY <1>4, <1>10 DEF ExhaustFault
      <3>3. CASE update_remediation_action(a, "FAILED", "FAILED_RETRYABLE")
        BY <1>1, <2>1, <3>3 DEF update_remediation_action, StoreTypeOK, Terminal
      <3>4. CASE status[a] # "FAILED_RETRYABLE"
        BY <1>3, <2>1, <3>1, <3>4 DEF StatusGoesOn
      <3>. QED
        BY <3>2, <3>3, <3>4 DEF Exhaust
    <2>. QED
      BY <2>1, <2>2, <2>3 DEF VerdictInv, ClaimedOnce
  <1>11. CASE AuditExhausted(w)
    <2>1. /\ pc[w] = "auditExhausted" /\ UNCHANGED <<status, ctx>> /\ pc'[w] \in {"ack", "keep"}
      BY <1>1, <1>11 DEF AuditExhausted, Return, Goto, ProcessTypeOK, store
    <2>. QED
      BY <1>2, <2>1 DEF VerdictInv, ClaimedOnce
  <1>12. CASE Update(w)
    <2>1. /\ pc[w] = "update" /\ a \in Actions /\ pc'[w] = "auditEnd" /\ ctx' = ctx
          /\ ctx[w].outcome \in Outcomes
      BY <1>1, <1>12 DEF Update, Goto, ProcessTypeOK, ProcInv
    <2>2. status[a] = "IN_PROGRESS"
      BY <1>1, <2>1 DEF LeaseInv, UnderLease, Executing
    <2>3. faults' = 0 => update_remediation_action(a, ctx[w].outcome, "IN_PROGRESS")
      BY <1>4, <1>12, <2>2 DEF Update
    <2>4. faults' = 0 => status'[a] = ctx[w].outcome
      BY <1>1, <2>1, <2>3 DEF update_remediation_action, StoreTypeOK
    <2>. QED
      BY <2>1, <2>4 DEF VerdictInv, ClaimedOnce, Outcomes, Terminal
  <1>13. CASE AuditEnd(w)
    <2>1. /\ pc[w] = "auditEnd" /\ UNCHANGED <<status, ctx>> /\ a \in Actions
          /\ \/ pc'[w] = "keep"
             \/ pc'[w] = "ack" /\ ctx[w].outcome # "FAILED_RETRYABLE"
      BY <1>1, <1>13 DEF AuditEnd, Return, Goto, ProcessTypeOK, store
    <2>2. ClaimedOnce(a)
      <3>1. ctx[w].attempt \in 1 .. attempt_count[a] /\ attempt_count[a] \in Nat /\ ItemInv(a)
        BY <1>1, <2>1, Ready, ConstantsAssumption DEF ProcInv, Claimed, StoreTypeOK
      <3>. QED
        BY <3>1 DEF ItemInv, ClaimedOnce
    <2>. QED
      BY <1>2, <2>1, <2>2 DEF VerdictInv, ClaimedOnce
  <1>. QED
    BY <1>6, <1>7, <1>8, <1>9, <1>10, <1>11, <1>12, <1>13 DEF AsyncStep, CommonStep

\* The worker within its loop.
LEMMA VerdictStep ==
    ASSUME Callers = {}, LoopInv, LeaseInv, LoopNext, NEW w \in Workers, VerdictInv(w)
    PROVE  VerdictInv(w)'
  <1>1. IInv /\ ProcessTypeOK /\ [Next]_vars /\ w \in Procs
    BY LoopStepIsEngineStep DEF LoopInv, IInv, TypeOK, Procs
  <1>2. ASSUME UNCHANGED <<pc, ctx>> PROVE VerdictInv(w)'
    BY <1>1, <1>2, OtherVerdict
  <1>3. CASE \E m \in Messages : Send(m) \/ Redeliver(m)
    BY <1>2, <1>3 DEF Send, Redeliver, vars
  <1>4. ASSUME NEW v \in Workers,
               \/ \E batch \in SUBSET Messages : Receive(v, batch)
               \/ \E m \in Messages : HandleHealthCheck(v, m) \/ LeaveToDLQ(v, m)
               \/ Exit(v) \/ handle_shutdown_signal(v)
        PROVE  VerdictInv(w)'
    BY <1>2, <1>4 DEF Receive, HandleHealthCheck, LeaveToDLQ, Exit, handle_shutdown_signal, vars
  <1>5. ASSUME NEW v \in Workers,
               \/ \E m \in Messages : HandleRemediation(v, m)
               \/ Settle(v) \/ WorkerStep(v) \/ WorkerCrash(v)
        PROVE  VerdictInv(w)'
    <2>1. CASE v # w
      <3>1. pc'[w] = pc[w] /\ ctx'[w] = ctx[w]
        <4>1. CASE WorkerStep(v)
          BY <1>1, <2>1, <4>1, WorkerStaysBusy DEF WorkerStep, Moves
        <4>2. CASE ~WorkerStep(v)
          BY <1>1, <1>5, <2>1, <4>2
             DEF HandleRemediation, StartAsync, Settle, WorkerCrash, Crash, Respond, Goto, ProcessTypeOK
        <4>. QED
          BY <4>1, <4>2
      <3>. QED
        BY <1>1, <3>1, OtherVerdict
    <2>2. CASE v = w /\ Settle(v)
      <3>1. pc'[w] = "idle"
        BY <1>1, <2>2 DEF Settle, Respond, Goto, ProcessTypeOK
      <3>. QED
        BY <3>1 DEF VerdictInv
    <2>3. CASE v = w /\ ~Settle(v)
      <3>1. \/ AsyncStep(w) \/ CommonStep(w) \/ Crash(w)
            \/ \E a \in Actions : StartAsync(w, a)
        BY <1>5, <2>3 DEF WorkerStep, WorkerCrash, HandleRemediation
      <3>. QED
        BY <1>1, <3>1, OwnVerdict
    <2>. QED
      BY <2>1, <2>2, <2>3
  <1>6. CASE Elsewhere
    BY <1>2, <1>6 DEF Elsewhere, CreateDeferred, LeaseExpires
  <1>. QED
    BY <1>3, <1>4, <1>5, <1>6 DEF LoopNext, Loop

\* Only a health check that was answered and a verdict TRUE delete a message.
LEMMA DeletedStep ==
    ASSUME LoopInv, LoopNext, \A w \in Workers : VerdictInv(w), DeletedMeansHandled
    PROVE  DeletedMeansHandled'
  <1>. SUFFICES ASSUME NEW m \in Messages, queue'[m] = "deleted"
                PROVE  /\ Body[m] \notin {"MALFORMED", "UNSUPPORTED"}
                       /\ Body[m] \in Actions =>
                             /\ status'[Body[m]] \notin {"ABSENT", "PENDING"}
                             /\ faults' = 0 => status'[Body[m]] \in Terminal
    BY DEF DeletedMeansHandled
  <1>1. IInv /\ [Next]_vars /\ (faults' = 0 => faults = 0)
    BY LoopStepIsEngineStep, FaultsStay DEF LoopInv
  <1>2. Body[m] \in Actions => StatusGoesOn(Body[m])
    BY <1>1, StatusSteps
  <1>3. queue \in [Messages -> {"unsent", "visible", "inflight", "deleted", "dlq"}]
    BY DEF LoopInv, LoopTypeOK
  <1>4. CASE queue[m] = "deleted"
    BY <1>1, <1>2, <1>4 DEF DeletedMeansHandled, StatusGoesOn, ClaimedOnce
  <1>5. CASE \E w \in Workers : HandleHealthCheck(w, m)
    BY <1>5, LoopAssumption DEF HandleHealthCheck, OtherBodies
  <1>6. CASE \E w \in Workers : Settle(w) /\ current[w] = m /\ pc[w] = "ack"
    <2>1. PICK w \in Workers : Settle(w) /\ current[w] = m /\ pc[w] = "ack"
      BY <1>6
    <2>2. ctx[w].action = Body[m] /\ Body[m] \in Actions
      <3>1. m # None /\ w \in Procs
        BY LoopAssumption DEF Procs
      <3>2. ctx[w].action = Body[m]
        BY <2>1, <3>1 DEF LoopInv, LoopTypeOK
      <3>3. ctx[w].action \in Actions
        BY <1>1, <2>1, <3>1, Ready
      <3>. QED
        BY <3>2, <3>3
    <2>3. VerdictInv(w)
      OBVIOUS
    <2>. QED
      BY <1>1, <1>2, <2>1, <2>2, <2>3, LoopAssumption
         DEF VerdictInv, StatusGoesOn, ClaimedOnce, OtherBodies
  <1>7. CASE /\ queue[m] # "deleted" /\ \A w \in Workers : ~HandleHealthCheck(w, m)
             /\ \A w \in Workers : ~(Settle(w) /\ current[w] = m /\ pc[w] = "ack")
    <2>1. ASSUME NEW n \in Messages, Send(n) \/ Redeliver(n) PROVE FALSE
      BY <1>3, <1>7, <2>1 DEF Send, Redeliver
    <2>2. ASSUME NEW w \in Workers, Loop(w) PROVE FALSE
      BY <1>3, <1>7, <2>2 DEF Loop, Receive, HandleRemediation, HandleHealthCheck, LeaveToDLQ, Settle,
         Exit, Deleted, queueVars
    <2>3. ASSUME NEW w \in Workers, WorkerStep(w) \/ handle_shutdown_signal(w) \/ WorkerCrash(w)
          PROVE  FALSE
      BY <1>7, <2>3 DEF WorkerStep, handle_shutdown_signal, WorkerCrash, queueVars
    <2>4. CASE Elsewhere
      BY <1>7, <2>4 DEF Elsewhere, queueVars
    <2>. QED
      BY <2>1, <2>2, <2>3, <2>4 DEF LoopNext
  <1>. QED
    BY <1>4, <1>5, <1>6, <1>7

\* DeletedMeansHandled: a handler that answers TRUE has seen its action
\* finished, or has finished it; where only workers execute actions, and each
\* is done with a claim within its lease, nobody undoes that verdict.
THEOREM DeletedMeansHandledHolds ==
    Callers = {} /\ ~StallsOutlastLease => (LoopSpec => []DeletedMeansHandled)
  <1> SUFFICES ASSUME Callers = {}, ~StallsOutlastLease PROVE LoopSpec => []DeletedMeansHandled
    OBVIOUS
  <1> DEFINE Verdicts == \A w \in Workers : VerdictInv(w)
             J == LeaseInv /\ Verdicts /\ DeletedMeansHandled
  <1>1. LoopInit => J
    BY LeaseInit DEF LoopInit, Init, VerdictInv, DeletedMeansHandled, Procs
  <1>2. LoopInv /\ J /\ [LoopNext]_allVars => J'
    <2> SUFFICES ASSUME LoopInv, J, [LoopNext]_allVars PROVE J'
      OBVIOUS
    <2>1. IInv /\ [Next]_vars
      BY LoopStepIsEngineStep DEF LoopInv, allVars
    <2>2. LeaseInv'
      BY <2>1, LeaseNext
    <2>3. CASE LoopNext
      BY <2>2, <2>3, VerdictStep, DeletedStep
    <2>4. CASE UNCHANGED allVars
      <3>1. Verdicts'
        BY <2>1, <2>4, OtherVerdict DEF allVars, vars
      <3>2. DeletedMeansHandled'
        BY <2>4 DEF DeletedMeansHandled, allVars, vars, store, queueVars
      <3>. QED
        BY <2>2, <3>1, <3>2
    <2>. QED
      BY <2>3, <2>4
  <1>3. J => DeletedMeansHandled
    OBVIOUS
  <1>. HIDE DEF J
  <1>. QED
    BY <1>1, <1>2, <1>3, LoopInvariance, PTL DEF LoopSpec
=============================================================================
