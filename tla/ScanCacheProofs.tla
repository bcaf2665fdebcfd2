-------------------------- MODULE ScanCacheProofs --------------------------
(***************************************************************************)
(* Proofs about module ScanCache, for any sets of threads, accounts and    *)
(* regions, any retention and any number of failures and restarts.         *)
(***************************************************************************)
EXTENDS ScanCache, FiniteSetTheorems, TLAPS

\* Every thread is somewhere, and the thread that is about to give the lock
\* back has taken the flag down.
LockInv ==
    /\ DOMAIN pc = Threads
    /\ OneRefresh
    /\ \A t \in Refreshers : pc[t] = "release" => ~is_refreshing

\* What most steps do to the lock: one thread moves, within or out of the
\* refresh, or was never in it; lock and flag stay.
LEMMA LockFrame ==
    ASSUME LockInv, UNCHANGED <<lock, is_refreshing>>,
           NEW t \in Threads, NEW l, Goto(t, l), l # "release",
           t \in Refreshers => (l \in Holding => pc[t] \in Holding)
    PROVE  LockInv'
BY DEF LockInv, OneRefresh, Goto, Holding

LEMMA ReturnFrame ==
    ASSUME LockInv, UNCHANGED <<lock, is_refreshing>>, NEW t \in Threads, Return(t)
    PROVE  LockInv'
  <1>1. Goto(t, "idle")
    BY DEF Return
  <1>. QED
    BY <1>1, LockFrame DEF Holding

-----------------------------------------------------------------------------
(***************************************************************************)
(* The steps that take and give back the lock.                             *)
(***************************************************************************)

LEMMA AcquireLock == ASSUME LockInv, NEW t \in Refreshers, Acquire(t) PROVE LockInv'
  <1>1. CASE lock
    BY <1>1, ReturnFrame DEF Acquire, process, Threads
  <1>2. CASE ~lock
    <2>1. /\ lock' = TRUE /\ Goto(t, "begin")
          /\ \A u \in Refreshers : pc[u] \notin Holding
      BY <1>2 DEF Acquire, LockInv, OneRefresh
    <2>2. \A u \in Refreshers \ {t} : pc'[u] = pc[u]
      BY <2>1 DEF Goto, LockInv, Threads
    <2>3. pc'[t] = "begin" /\ DOMAIN pc' = Threads
      BY <2>1 DEF Goto, LockInv, Threads
    <2>. QED
      BY <2>1, <2>2, <2>3 DEF LockInv, OneRefresh, Holding
  <1>. QED
    BY <1>1, <1>2 DEF LockInv, Acquire

LEMMA EndRefreshLock == ASSUME LockInv, NEW t \in Refreshers, EndRefresh(t) PROVE LockInv'
  <1>1. /\ pc[t] = "end" /\ ~is_refreshing' /\ UNCHANGED lock
        /\ pc' = [pc EXCEPT ![t] = "release"]
    BY DEF EndRefresh, Goto
  <1>. QED
    BY <1>1 DEF LockInv, OneRefresh, Holding

\* The thread that releases the lock is the only one that holds it.
LEMMA ReleaseLock == ASSUME LockInv, NEW t \in Refreshers, Release(t) PROVE LockInv'
  <1>1. /\ pc[t] = "release" /\ UNCHANGED is_refreshing
        /\ pc' = [pc EXCEPT ![t] = "idle"]
    BY DEF Release, Return, Goto
  <1>2. \A u \in Refreshers : pc'[u] \notin Holding
    BY <1>1 DEF LockInv, OneRefresh, Holding, Threads
  <1>3. ~is_refreshing'
    BY <1>1 DEF LockInv
  <1>. QED
    BY <1>1, <1>2, <1>3 DEF LockInv, OneRefresh, Holding

LEMMA RestartLock == ASSUME Restart PROVE LockInv'
  BY DEF Restart, LockInv, OneRefresh, Holding, Threads

-----------------------------------------------------------------------------
(***************************************************************************)
(* The other steps leave lock and flag alone.                              *)
(***************************************************************************)

LEMMA RefresherLock ==
    ASSUME LockInv, NEW t \in Refreshers, RefresherStep(t)
    PROVE  LockInv'
  <1>. t \in Threads
    BY DEF Threads
  <1>1. CASE Begin(t)
    <2>1. pc[t] = "begin" /\ (Goto(t, "scan") \/ Return(t)) /\ UNCHANGED <<lock, is_refreshing>>
      BY <1>1 DEF Begin
    <2>. QED
      BY <2>1, LockFrame, ReturnFrame DEF Holding
  <1>2. CASE Collect(t) \/ CollectRaises(t)
    <2>1. /\ pc[t] = "scan" /\ (Goto(t, "end") \/ Goto(t, "insert"))
          /\ UNCHANGED <<lock, is_refreshing>>
      BY <1>2 DEF Collect, CollectRaises, process
    <2>. QED
      BY <2>1, LockFrame DEF Holding
  <1>. QED
    BY <1>1, <1>2, AcquireLock, EndRefreshLock, ReleaseLock DEF RefresherStep

LEMMA SaveLock ==
    ASSUME LockInv, NEW t \in Refreshers \cup Reporters, SaveStep(t)
    PROVE  LockInv'
  <1>. t \in Threads
    BY DEF Threads
  <1>1. /\ pc[t] \in {"insert", "prune"}
        /\ Goto(t, "prune") \/ Goto(t, "end") \/ Return(t)
        /\ UNCHANGED <<lock, is_refreshing>>
    BY DEF SaveStep, Insert, prune_scans, Saved, process
  <1>. QED
    BY <1>1, LockFrame, ReturnFrame DEF Holding

\* Reporters and readers never were in a refresh.
LEMMA OutsideLock ==
    ASSUME LockInv, NEW t \in Threads \ Refreshers, NEW l, Goto(t, l), l # "release",
           UNCHANGED <<lock, is_refreshing>>
    PROVE  LockInv'
  BY LockFrame

LEMMA ReporterLock ==
    ASSUME LockInv, NEW t \in Reporters,
           ReporterStep(t) \/ \E regs \in Requests : StartReport(t, regs)
    PROVE  LockInv'
  <1>1. t \in Threads \ Refreshers
    BY ScanCacheAssumption DEF Threads
  <1>2. /\ Goto(t, "report") \/ Goto(t, "ensure") \/ Goto(t, "insert") \/ Return(t)
        /\ UNCHANGED <<lock, is_refreshing>>
    BY DEF ReporterStep, StartReport, Report, Ensure, process
  <1>. QED
    BY <1>1, <1>2, OutsideLock, ReturnFrame

LEMMA ReaderLock ==
    ASSUME LockInv, NEW t \in Readers, ReadHead(t) \/ ReaderStep(t)
    PROVE  LockInv'
  <1>1. t \in Threads \ Refreshers
    BY ScanCacheAssumption DEF Threads
  <1>2. /\ Goto(t, "rows") \/ Goto(t, "serve") \/ Return(t) \/ UNCHANGED pc
        /\ UNCHANGED <<lock, is_refreshing>>
    BY DEF ReaderStep, ReadHead, ReadRows, Serve, process
  <1>3. CASE UNCHANGED pc
    BY <1>2, <1>3 DEF LockInv, OneRefresh, Holding
  <1>. QED
    BY <1>1, <1>2, <1>3, OutsideLock, ReturnFrame

LEMMA SpawnLock ==
    ASSUME LockInv, NEW t \in Refreshers, NEW regs \in Requests, Spawn(t, regs)
    PROVE  LockInv'
  <1>1. t \in Threads /\ Goto(t, "acquire") /\ UNCHANGED <<lock, is_refreshing>>
    BY DEF Spawn, Threads, process
  <1>. QED
    BY <1>1, LockFrame DEF Holding

-----------------------------------------------------------------------------
LEMMA NextLock == LockInv /\ [Next]_vars => LockInv'
  <1>. SUFFICES ASSUME LockInv, [Next]_vars PROVE LockInv'
    OBVIOUS
  <1>1. CASE Age \/ UNCHANGED vars
    BY <1>1 DEF Age, vars, process, LockInv, OneRefresh, Holding
  <1>2. CASE Next /\ ~Age
    BY <1>2, SpawnLock, RefresherLock, SaveLock, ReporterLock, ReaderLock, RestartLock DEF Next
  <1>. QED
    BY <1>1, <1>2

\* However refreshes are asked for, fail or are cut off by a restart, two of
\* them never run at once, and the flag is never up without the lock.
THEOREM OneRefreshHolds == Spec => []OneRefresh
  <1>1. Init => LockInv
    BY DEF Init, LockInv, OneRefresh, Holding, Threads
  <1>2. LockInv => OneRefresh
    BY DEF LockInv
  <1>. QED
    BY <1>1, <1>2, NextLock, PTL DEF Spec

-----------------------------------------------------------------------------
(***************************************************************************)
(* Types.  The tables change in two ways only.                             *)
(***************************************************************************)

LEMMA InsertTables ==
    ASSUME TablesOK, NEW at \in 0..clock, NEW found \in SUBSET Pairs, insert_scan(at, found),
           UNCHANGED time
    PROVE  TablesOK'
  <1>. DEFINE new == [id |-> nextId, at |-> at, found |-> found, rows |-> found]
  <1>1. /\ scans' = scans \cup {new} /\ nextId' = nextId + 1
        /\ clock' = clock /\ horizon' = horizon
    BY DEF insert_scan, time
  <1>2. scans' \subseteq [id : 1..(nextId' - 1), at : 0..clock', found : SUBSET Pairs, rows : SUBSET Pairs]
    <2>1. new \in [id : 1..nextId, at : 0..clock, found : SUBSET Pairs, rows : SUBSET Pairs]
      BY DEF TablesOK
    <2>2. ASSUME NEW s \in scans
          PROVE  s \in [id : 1..nextId, at : 0..clock, found : SUBSET Pairs, rows : SUBSET Pairs]
      BY DEF TablesOK
    <2>3. nextId' - 1 = nextId
      BY <1>1 DEF TablesOK
    <2>. QED
      BY <1>1, <2>1, <2>2, <2>3
  <1>3. \A s \in scans' : s.rows \in {s.found, {}}
    BY <1>1 DEF TablesOK
  <1>4. \A s, o \in scans' : o.id = s.id => o = s
    <2>1. \A s \in scans : s.id # nextId
      BY DEF TablesOK
    <2>. QED
      BY <1>1, <2>1 DEF TablesOK
  <1>. QED
    BY <1>1, <1>2, <1>3, <1>4 DEF TablesOK

\* What pruning leaves of a scan: the scan, or the scan without its rows.
LEMMA PruneScans ==
    ASSUME TablesOK, NEW t, prune_scans(t), NEW n \in scans'
    PROVE  \E s \in scans :
              /\ n.id = s.id /\ n.at = s.at /\ n.found = s.found
              /\ n = s \/ n = [s EXCEPT !.rows = {}]
              /\ n \in [id : 1..(nextId - 1), at : 0..clock,
                        found : SUBSET Pairs, rows : SUBSET Pairs]
  <1>1. CASE scans' = scans
    BY <1>1 DEF TablesOK
  <1>2. CASE scans' = {IF Cardinality(Newer(s, scans)) >= Keep THEN [s EXCEPT !.rows = {}] ELSE s :
                         s \in scans \ Expired(scans)}
    <2>1. PICK s \in scans : n = IF Cardinality(Newer(s, scans)) >= Keep
                                   THEN [s EXCEPT !.rows = {}] ELSE s
      BY <1>2
    <2>2. s \in [id : 1..(nextId - 1), at : 0..clock, found : SUBSET Pairs, rows : SUBSET Pairs]
      BY DEF TablesOK
    <2>. QED
      BY <2>1, <2>2
  <1>. QED
    BY <1>1, <1>2 DEF prune_scans

LEMMA PruneTables == ASSUME TablesOK, NEW t, prune_scans(t) PROVE TablesOK'
  <1>1. UNCHANGED <<nextId, time>>
    BY DEF prune_scans
  <1>2. scans' \subseteq [id : 1..(nextId - 1), at : 0..clock, found : SUBSET Pairs, rows : SUBSET Pairs]
    BY PruneScans
  <1>3. \A n \in scans' : n.rows \in {n.found, {}}
    <2>. SUFFICES ASSUME NEW n \in scans' PROVE n.rows \in {n.found, {}}
      OBVIOUS
    <2>1. PICK s \in scans : n.found = s.found /\ (n = s \/ n = [s EXCEPT !.rows = {}])
      BY PruneScans
    <2>. QED
      BY <2>1 DEF TablesOK
  <1>4. \A n, o \in scans' : o.id = n.id => o = n
    <2>1. CASE scans' = scans
      BY <2>1 DEF TablesOK
    <2>2. CASE scans' = {IF Cardinality(Newer(s, scans)) >= Keep THEN [s EXCEPT !.rows = {}] ELSE s :
                           s \in scans \ Expired(scans)}
      <3>. DEFINE f(s) == IF Cardinality(Newer(s, scans)) >= Keep THEN [s EXCEPT !.rows = {}] ELSE s
      <3>1. \A s \in scans : f(s).id = s.id
        BY DEF TablesOK
      <3>2. \A n \in scans' : \E s \in scans : n = f(s)
        BY <2>2
      <3>. HIDE DEF f
      <3>. QED
        BY <3>1, <3>2 DEF TablesOK
    <2>. QED
      BY <2>1, <2>2 DEF prune_scans
  <1>. QED
    BY <1>1, <1>2, <1>3, <1>4 DEF TablesOK, time

LEMMA EnsureTables == ASSUME TablesOK, EnsureDb, UNCHANGED time PROVE TablesOK' /\ nextId' >= nextId
  <1>1. CASE UNCHANGED db
    BY <1>1 DEF db, time, TablesOK
  <1>2. CASE insert_scan(0, Pairs)
    <2>1. 0 \in 0..clock
      BY DEF TablesOK
    <2>2. TablesOK'
      BY <1>2, <2>1, InsertTables
    <2>. QED
      BY <1>2, <2>2 DEF insert_scan, TablesOK
  <1>. QED
    BY <1>1, <1>2 DEF EnsureDb, Migrate, db

-----------------------------------------------------------------------------
\* The locals of a thread stay well typed while ids and time only grow.
Grows ==
    /\ nextId \in Nat /\ nextId' \in Nat /\ nextId' >= nextId /\ nextId' >= 1
    /\ clock \in Nat /\ clock' \in Nat /\ clock' >= clock

ThreadsOK == pc \in [Threads -> Locations] /\ ctx \in [Threads -> Contexts]

LEMMA ContextsGrow == ASSUME Grows PROVE Contexts \subseteq Contexts'
  BY DEF Grows, Contexts

LEMMA ThreadMoves ==
    ASSUME ThreadsOK, Grows, NEW t \in Threads, NEW l \in Locations, Goto(t, l),
           NEW c \in Contexts', ctx' = [ctx EXCEPT ![t] = c]
    PROVE  ThreadsOK'
  <1>1. pc' \in [Threads -> Locations]
    BY DEF ThreadsOK, Goto
  <1>2. ctx' \in [Threads -> Contexts']
    BY ContextsGrow DEF ThreadsOK
  <1>. QED
    BY <1>1, <1>2 DEF ThreadsOK, Locations, Holding

LEMMA ThreadGoes ==
    ASSUME ThreadsOK, Grows, NEW t \in Threads, NEW l \in Locations, Goto(t, l), UNCHANGED ctx
    PROVE  ThreadsOK'
  <1>1. ctx' = [ctx EXCEPT ![t] = ctx[t]] /\ ctx[t] \in Contexts'
    BY ContextsGrow DEF ThreadsOK
  <1>. QED
    BY <1>1, ThreadMoves

LEMMA ThreadReturns ==
    ASSUME ThreadsOK, Grows, NEW t \in Threads, Return(t)
    PROVE  ThreadsOK'
  <1>1. NoCtx \in Contexts'
    <2>1. 0 \in 0..clock'
      BY DEF Grows
    <2>2. 0 \in 0..(nextId' - 1)
      <3>1. nextId' \in Nat /\ nextId' >= 1
        BY DEF Grows
      <3>2. \A n \in Nat : n >= 1 => 0 \in 0..(n - 1)
        OBVIOUS
      <3>. QED
        BY <3>1, <3>2
    <2>. QED
      BY <2>1, <2>2 DEF NoCtx, Contexts
  <1>. QED
    BY <1>1, ThreadMoves DEF Return, Locations

LEMMA ThreadsRest == ASSUME ThreadsOK, Grows, UNCHANGED <<pc, ctx>> PROVE ThreadsOK'
  BY ContextsGrow DEF ThreadsOK, Locations, Holding

-----------------------------------------------------------------------------
(***************************************************************************)
(* Types, action by action.                                                *)
(***************************************************************************)

FlagsOK == lock \in BOOLEAN /\ is_refreshing \in BOOLEAN /\ ready \in BOOLEAN
           /\ error \in {None, "partial", "failed"}

LEMMA TypeParts == TypeOK <=> TablesOK /\ FlagsOK /\ ThreadsOK
  BY DEF TypeOK, FlagsOK, ThreadsOK

LEMMA TablesRest == ASSUME TablesOK, UNCHANGED <<db, time>> PROVE TablesOK' /\ Grows
  BY DEF TablesOK, db, time, Grows

LEMMA FlagsRest == ASSUME FlagsOK, UNCHANGED process PROVE FlagsOK'
  BY DEF FlagsOK, process

LEMMA FoundType == ASSUME NEW regs, NEW failed PROVE Found(regs, failed) \in SUBSET Pairs
  BY DEF Found

\* A scan was started: time goes on.
LEMMA StartTables ==
    ASSUME TablesOK, clock < MaxScans, clock' = clock + 1, UNCHANGED <<db, horizon>>
    PROVE  TablesOK' /\ Grows
  <1>1. clock \in Nat /\ clock' \in 0..MaxScans /\ horizon' \in 0..clock'
    BY ScanCacheAssumption DEF TablesOK
  <1>2. scans' \subseteq [id : 1..(nextId - 1), at : 0..clock', found : SUBSET Pairs, rows : SUBSET Pairs]
    <2>. SUFFICES ASSUME NEW s \in scans
                  PROVE  s \in [id : 1..(nextId - 1), at : 0..clock', found : SUBSET Pairs, rows : SUBSET Pairs]
      BY DEF db
    <2>1. 0..clock \subseteq 0..clock'
      BY <1>1
    <2>. QED
      BY <2>1 DEF TablesOK
  <1>. QED
    BY <1>1, <1>2 DEF TablesOK, Grows, db

LEMMA SpawnType ==
    ASSUME TypeOK, NEW t \in Refreshers, NEW regs \in Requests, Spawn(t, regs)
    PROVE  TypeOK'
  <1>1. TablesOK' /\ Grows
    BY StartTables DEF Spawn, TypeOK
  <1>2. FlagsOK'
    BY FlagsRest, TypeParts DEF Spawn
  <1>3. [ctx[t] EXCEPT !.regs = regs] \in Contexts'
    <2>1. ctx[t] \in Contexts'
      BY <1>1, ContextsGrow DEF TypeOK, Threads
    <2>. QED
      BY <2>1 DEF Contexts
  <1>4. ThreadsOK'
    <2>1. ctx' = [ctx EXCEPT ![t] = [ctx[t] EXCEPT !.regs = regs]]
      BY DEF Spawn
    <2>. QED
      BY <1>1, <1>3, <2>1, ThreadMoves, TypeParts DEF Spawn, Locations, Threads
  <1>. QED
    BY <1>1, <1>2, <1>4 DEF TypeOK, FlagsOK, ThreadsOK

LEMMA StartReportType ==
    ASSUME TypeOK, NEW t \in Reporters, NEW regs \in Requests, StartReport(t, regs)
    PROVE  TypeOK'
  <1>1. TablesOK' /\ Grows
    BY StartTables DEF StartReport, TypeOK
  <1>2. FlagsOK'
    BY FlagsRest, TypeParts DEF StartReport
  <1>3. [ctx[t] EXCEPT !.regs = regs, !.at = clock] \in Contexts'
    <2>1. ctx[t] \in Contexts' /\ clock \in 0..clock'
      BY <1>1, ContextsGrow DEF TypeOK, Threads, Grows
    <2>. QED
      BY <2>1 DEF Contexts
  <1>4. ThreadsOK'
    <2>1. ctx' = [ctx EXCEPT ![t] = [ctx[t] EXCEPT !.regs = regs, !.at = clock]]
      BY DEF StartReport
    <2>. QED
      BY <1>1, <1>3, <2>1, ThreadMoves, TypeParts DEF StartReport, Locations, Threads
  <1>. QED
    BY <1>1, <1>2, <1>4 DEF TypeOK, FlagsOK, ThreadsOK

\* The steps of a refresh or report that do not touch the tables.
LEMMA CollectType ==
    ASSUME TypeOK, NEW t \in Refreshers \cup Reporters, Collect(t) \/ CollectRaises(t) \/ Report(t)
    PROVE  TypeOK'
  <1>1. TablesOK' /\ Grows
    BY TablesRest DEF Collect, CollectRaises, Report, TypeOK
  <1>0. ThreadsOK
    BY TypeParts
  <1>2. FlagsOK'
    BY FlagsRest, TypeParts DEF Collect, CollectRaises, Report
  <1>3. ctx[t] \in Contexts' /\ t \in Threads
    BY <1>1, ContextsGrow DEF TypeOK, Threads
  <1>4. ASSUME NEW l \in {"end", "insert", "ensure"}, Goto(t, l),
               NEW e \in {None, "partial", "failed"}, NEW f \in SUBSET Pairs,
               ctx' = [ctx EXCEPT ![t] = [ctx[t] EXCEPT !.found = f, !.error = e]]
        PROVE  ThreadsOK'
    <2>1. [ctx[t] EXCEPT !.found = f, !.error = e] \in Contexts'
      BY <1>3 DEF Contexts
    <2>2. l \in Locations
      BY DEF Locations, Holding
    <2>. QED
      BY <1>0, <1>1, <1>3, <1>4, <2>1, <2>2, ThreadMoves
  <1>5. ctx[t].found \in SUBSET Pairs /\ ctx[t].error \in {None, "partial", "failed"}
    BY <1>3 DEF Contexts
  <1>6. ctx[t] = [regs |-> ctx[t].regs, at |-> ctx[t].at, found |-> ctx[t].found,
                  error |-> ctx[t].error, id |-> ctx[t].id, rows |-> ctx[t].rows]
    BY <1>3 DEF Contexts
  <1>7. \/ Return(t)
        \/ Goto(t, "end") /\ ctx' = [ctx EXCEPT ![t] = [ctx[t] EXCEPT !.error = "failed"]]
        \/ \E l \in {"insert", "ensure"}, e \in {None, "partial", "failed"}, f \in SUBSET Pairs :
              Goto(t, l) /\ ctx' = [ctx EXCEPT ![t] = [ctx[t] EXCEPT !.found = f, !.error = e]]
    <2>1. CASE Collect(t)
      <3>1. PICK failed \in SUBSET (Accounts \X DOMAIN ctx[t].regs) :
              LET regs == ctx[t].regs
                  bad == FailedRegions(regs, failed)
              IN IF AllFailed(regs, bad)
                   THEN Goto(t, "end") /\ ctx' = [ctx EXCEPT ![t].error = "failed"]
                   ELSE /\ Goto(t, "insert")
                        /\ ctx' = [ctx EXCEPT ![t].found = Found(regs, failed),
                                              ![t].error = IF bad = {} THEN None ELSE "partial"]
        BY <2>1 DEF Collect
      <3>. DEFINE bad == FailedRegions(ctx[t].regs, failed)
                  e == IF bad = {} THEN None ELSE "partial"
      <3>2. CASE AllFailed(ctx[t].regs, bad)
        BY <3>1, <3>2
      <3>3. CASE ~AllFailed(ctx[t].regs, bad)
        <4>1. Goto(t, "insert") /\ ctx' = [ctx EXCEPT ![t].found = Found(ctx[t].regs, failed), ![t].error = e]
          BY <3>1, <3>3
        <4>2. ctx' = [ctx EXCEPT ![t] = [ctx[t] EXCEPT !.found = Found(ctx[t].regs, failed), !.error = e]]
          BY <4>1, <1>3 DEF TypeOK
        <4>3. Found(ctx[t].regs, failed) \in SUBSET Pairs /\ e \in {None, "partial", "failed"}
          BY FoundType
        <4>. QED
          BY <4>1, <4>2, <4>3
      <3>. QED
        BY <3>2, <3>3
    <2>2. CASE CollectRaises(t)
      BY <2>2 DEF CollectRaises
    <2>3. CASE Report(t)
      <3>1. PICK failed \in SUBSET (Accounts \X DOMAIN ctx[t].regs) :
              Return(t) \/ (/\ Goto(t, "ensure")
                            /\ ctx' = [ctx EXCEPT ![t].found = Found(ctx[t].regs, failed)])
        BY <2>3 DEF Report
      <3>2. CASE /\ Goto(t, "ensure")
                 /\ ctx' = [ctx EXCEPT ![t].found = Found(ctx[t].regs, failed)]
        <4>1. ctx' = [ctx EXCEPT ![t] = [ctx[t] EXCEPT !.found = Found(ctx[t].regs, failed),
                                                       !.error = ctx[t].error]]
          BY <3>2, <1>3, <1>6 DEF TypeOK
        <4>. QED
          BY <3>2, <4>1, <1>5, FoundType
      <3>. QED
        BY <3>1, <3>2
    <2>. QED
      BY <2>1, <2>2, <2>3
  <1>8. ASSUME Return(t) PROVE ThreadsOK'
    BY <1>0, <1>1, <1>3, <1>8, ThreadReturns
  <1>9. ASSUME Goto(t, "end"), ctx' = [ctx EXCEPT ![t] = [ctx[t] EXCEPT !.error = "failed"]]
        PROVE  ThreadsOK'
    <2>1. [ctx[t] EXCEPT !.error = "failed"] \in Contexts'
      BY <1>3 DEF Contexts
    <2>2. "end" \in Locations
      BY DEF Locations, Holding
    <2>. QED
      BY <1>0, <1>1, <1>3, <1>9, <2>1, <2>2, ThreadMoves
  <1>10. ThreadsOK'
    BY <1>4, <1>7, <1>8, <1>9
  <1>. QED
    BY <1>1, <1>2, <1>10 DEF TypeOK, FlagsOK, ThreadsOK

\* Taking the lock, taking the flag down, giving the lock back.
LEMMA LockStepsType ==
    ASSUME TypeOK, NEW t \in Refreshers, Acquire(t) \/ EndRefresh(t) \/ Release(t)
    PROVE  TypeOK'
  <1>1. TablesOK' /\ Grows
    BY TablesRest DEF Acquire, EndRefresh, Release, TypeOK
  <1>2. ctx[t] \in Contexts /\ t \in Threads /\ ThreadsOK
    BY TypeParts DEF ThreadsOK, Threads
  <1>3. FlagsOK'
    <2>1. ctx[t].error \in {None, "partial", "failed"}
      BY <1>2 DEF Contexts
    <2>. QED
      BY <2>1, TypeParts DEF FlagsOK, Acquire, EndRefresh, Release, process
  <1>4. Return(t) \/ (\E l \in {"begin", "release"} : Goto(t, l) /\ UNCHANGED ctx)
    BY DEF Acquire, EndRefresh, Release
  <1>5. {"begin", "release"} \subseteq Locations
    BY DEF Locations, Holding
  <1>6. ThreadsOK'
    BY <1>1, <1>2, <1>4, <1>5, ThreadReturns, ThreadGoes
  <1>. QED
    BY <1>1, <1>3, <1>6 DEF TypeOK, FlagsOK, ThreadsOK

\* The database is initialized, and perhaps migrated, by the first who asks.
LEMMA BeginType ==
    ASSUME TypeOK, NEW t \in Refreshers \cup Reporters, Begin(t) \/ Ensure(t)
    PROVE  TypeOK'
  <1>1. TablesOK' /\ Grows
    <2>1. UNCHANGED time
      BY DEF Begin, Ensure
    <2>2. CASE EnsureDb
      BY <2>1, <2>2, EnsureTables DEF TypeOK, TablesOK, Grows, time
    <2>3. CASE EnsureDbRaises
      BY <2>1, <2>3, TablesRest DEF EnsureDbRaises, TypeOK
    <2>. QED
      BY <2>2, <2>3 DEF Begin, Ensure
  <1>2. ThreadsOK /\ t \in Threads
    BY TypeParts DEF Threads
  <1>3. FlagsOK'
    BY DEF TypeOK, FlagsOK, Begin, Ensure, EnsureDb, EnsureDbRaises
  <1>4. ctx[t] \in Contexts' /\ clock \in 0..clock'
    BY <1>1, <1>2, ContextsGrow DEF ThreadsOK, Grows
  <1>5. [ctx[t] EXCEPT !.at = clock] \in Contexts'
    BY <1>4 DEF Contexts
  <1>6. \/ Return(t)
        \/ Goto(t, "insert") /\ UNCHANGED ctx
        \/ Goto(t, "scan") /\ ctx' = [ctx EXCEPT ![t] = [ctx[t] EXCEPT !.at = clock]]
    BY DEF Begin, Ensure
  <1>7. {"insert", "scan"} \subseteq Locations
    BY DEF Locations, Holding
  <1>8. ThreadsOK'
    BY <1>1, <1>2, <1>5, <1>6, <1>7, ThreadReturns, ThreadGoes, ThreadMoves
  <1>. QED
    BY <1>1, <1>3, <1>8 DEF TypeOK, FlagsOK, ThreadsOK

LEMMA SaveType ==
    ASSUME TypeOK, NEW t \in Refreshers \cup Reporters, SaveStep(t)
    PROVE  TypeOK'
  <1>1. ThreadsOK /\ TablesOK /\ t \in Threads /\ ctx[t] \in Contexts
    BY TypeParts DEF ThreadsOK, Threads
  <1>2. TablesOK' /\ Grows
    <2>1. CASE prune_scans(t)
      BY <1>1, <2>1, PruneTables DEF prune_scans, Grows, TablesOK, time
    <2>2. CASE Insert(t) /\ UNCHANGED db
      BY <1>1, <2>2, TablesRest DEF Insert
    <2>3. CASE Insert(t) /\ insert_scan(ctx[t].at, ctx[t].found)
      <3>1. ctx[t].at \in 0..clock /\ ctx[t].found \in SUBSET Pairs /\ UNCHANGED time
        BY <1>1, <2>3 DEF Contexts, Insert
      <3>2. TablesOK'
        BY <1>1, <2>3, <3>1, InsertTables
      <3>. QED
        BY <1>1, <2>3, <3>1, <3>2 DEF insert_scan, time, Grows, TablesOK
    <2>. QED
      BY <2>1, <2>2, <2>3 DEF SaveStep, Insert
  <1>3. FlagsOK'
    BY FlagsRest, TypeParts DEF SaveStep, Insert, prune_scans
  <1>4. Return(t) \/ (\E l \in {"prune", "end"} : Goto(t, l) /\ UNCHANGED ctx)
    BY DEF SaveStep, Insert, prune_scans, Saved
  <1>5. {"prune", "end"} \subseteq Locations
    BY DEF Locations, Holding
  <1>6. ThreadsOK'
    BY <1>1, <1>2, <1>4, <1>5, ThreadReturns, ThreadGoes
  <1>. QED
    BY <1>2, <1>3, <1>6 DEF TypeOK, FlagsOK, ThreadsOK

LEMMA ReadHeadType == ASSUME TypeOK, NEW t \in Readers, ReadHead(t) PROVE TypeOK'
  <1>1. TablesOK' /\ Grows
    <2>1. EnsureDb /\ UNCHANGED time /\ TablesOK
      BY DEF ReadHead, TypeOK
    <2>2. TablesOK' /\ nextId' >= nextId
      BY <2>1, EnsureTables
    <2>. QED
      BY <2>1, <2>2 DEF TablesOK, Grows, time
  <1>2. ThreadsOK /\ t \in Threads
    BY TypeParts DEF Threads
  <1>3. FlagsOK'
    BY DEF TypeOK, FlagsOK, ReadHead, EnsureDb
  <1>4. ctx[t] \in Contexts'
    BY <1>1, <1>2, ContextsGrow DEF ThreadsOK
  <1>5. ASSUME scans' # {} PROVE ThreadsOK'
    <2>1. PICK s \in scans' :
            ctx' = [ctx EXCEPT ![t].id = s.id, ![t].at = s.at, ![t].found = s.found]
      BY <1>5 DEF ReadHead
    <2>. DEFINE c == [ctx[t] EXCEPT !.id = s.id, !.at = s.at, !.found = s.found]
    <2>2. ctx' = [ctx EXCEPT ![t] = c]
      BY <2>1, <1>2 DEF ThreadsOK
    <2>3. s.id \in 0..(nextId' - 1) /\ s.at \in 0..clock' /\ s.found \in SUBSET Pairs
      BY <1>1 DEF TablesOK
    <2>4. c \in Contexts'
      BY <1>4, <2>3 DEF Contexts
    <2>5. Goto(t, "rows") /\ "rows" \in Locations
      BY <1>5 DEF ReadHead, Locations
    <2>. HIDE DEF c
    <2>. QED
      BY <1>1, <1>2, <2>2, <2>4, <2>5, ThreadMoves
  <1>6. ASSUME scans' = {} PROVE ThreadsOK'
    BY <1>1, <1>2, <1>6, ThreadsRest DEF ReadHead
  <1>. QED
    BY <1>1, <1>3, <1>5, <1>6 DEF TypeOK, FlagsOK, ThreadsOK

LEMMA ReaderType == ASSUME TypeOK, NEW t \in Readers, ReaderStep(t) PROVE TypeOK'
  <1>1. TablesOK' /\ Grows
    BY TablesRest DEF ReaderStep, ReadRows, Serve, TypeOK
  <1>2. ThreadsOK /\ TablesOK /\ t \in Threads
    BY TypeParts DEF Threads
  <1>3. FlagsOK'
    BY FlagsRest, TypeParts DEF ReaderStep, ReadRows, Serve
  <1>4. ASSUME ReadRows(t) PROVE ThreadsOK'
    <2>. DEFINE rows == UNION {s.rows : s \in {o \in scans : o.id = ctx[t].id}}
    <2>1. rows \in SUBSET Pairs
      BY <1>2 DEF TablesOK
    <2>2. ctx[t] \in Contexts'
      BY <1>1, <1>2, ContextsGrow DEF ThreadsOK
    <2>3. ctx' = [ctx EXCEPT ![t] = [ctx[t] EXCEPT !.rows = rows]]
      BY <1>4 DEF ReadRows
    <2>. HIDE DEF rows
    <2>4. [ctx[t] EXCEPT !.rows = rows] \in Contexts'
      BY <2>1, <2>2 DEF Contexts
    <2>5. Goto(t, "serve") /\ "serve" \in Locations
      BY <1>4 DEF ReadRows, Locations
    <2>. QED
      BY <1>1, <1>2, <2>3, <2>4, <2>5, ThreadMoves
  <1>5. ASSUME Serve(t) PROVE ThreadsOK'
    BY <1>1, <1>2, <1>5, ThreadReturns DEF Serve
  <1>. QED
    BY <1>1, <1>3, <1>4, <1>5 DEF TypeOK, FlagsOK, ThreadsOK, ReaderStep

\* A restart forgets what the threads were doing, never the tables.
LEMMA RestartType == ASSUME TypeOK, Restart PROVE TypeOK'
  <1>1. TablesOK' /\ Grows
    BY TablesRest DEF Restart, TypeOK
  <1>2. FlagsOK'
    BY DEF Restart, FlagsOK
  <1>3. NoCtx \in Contexts'
    <2>1. 0 \in 0..clock'
      BY <1>1 DEF Grows
    <2>2. \A n \in Nat : n >= 1 => 0 \in 0..(n - 1)
      OBVIOUS
    <2>3. 0 \in 0..(nextId' - 1)
      BY <1>1, <2>2 DEF Grows
    <2>. QED
      BY <2>1, <2>3 DEF NoCtx, Contexts
  <1>4. "idle" \in Locations /\ Locations' = Locations
    BY DEF Locations, Holding
  <1>5. ThreadsOK'
    BY <1>3, <1>4 DEF Restart, ThreadsOK
  <1>. QED
    BY <1>1, <1>2, <1>5 DEF TypeOK, FlagsOK, ThreadsOK

LEMMA AgeType == ASSUME TypeOK, Age \/ UNCHANGED vars PROVE TypeOK'
  <1>1. /\ UNCHANGED <<db, process, pc, ctx, clock>>
        /\ horizon' = horizon \/ (horizon < clock /\ horizon' = horizon + 1)
    BY DEF Age, vars, db, process
  <1>2. TablesOK' /\ Grows
    BY <1>1 DEF TypeOK, TablesOK, Grows, db
  <1>3. FlagsOK' /\ ThreadsOK'
    BY <1>1, <1>2, FlagsRest, ThreadsRest, TypeParts
  <1>. QED
    BY <1>2, <1>3 DEF TypeOK, FlagsOK, ThreadsOK

LEMMA NextType == TypeOK /\ [Next]_vars => TypeOK'
  <1>. SUFFICES ASSUME TypeOK, [Next]_vars PROVE TypeOK'
    OBVIOUS
  <1>1. ASSUME NEW t \in Refreshers, RefresherStep(t) PROVE TypeOK'
    BY <1>1, LockStepsType, BeginType, CollectType DEF RefresherStep
  <1>2. ASSUME NEW t \in Reporters, ReporterStep(t) PROVE TypeOK'
    BY <1>2, BeginType, CollectType DEF ReporterStep
  <1>3. CASE Next
    BY <1>1, <1>2, <1>3, SpawnType, StartReportType, SaveType, ReadHeadType, ReaderType,
       RestartType, AgeType DEF Next
  <1>. QED
    BY <1>3, AgeType

LEMMA InitType == Init => TypeOK
  <1>. SUFFICES ASSUME Init PROVE TypeOK
    OBVIOUS
  <1>1. TablesOK
    BY ScanCacheAssumption DEF Init, TablesOK
  <1>2. FlagsOK
    BY DEF Init, FlagsOK
  <1>3. NoCtx \in Contexts
    BY DEF Init, NoCtx, Contexts
  <1>4. ThreadsOK
    BY <1>3 DEF Init, ThreadsOK, Locations
  <1>. QED
    BY <1>1, <1>2, <1>4, TypeParts

\* Whatever threads insert, prune, read and die in whatever order, scan ids are
\* never given twice and no scan has some of its resource rows.
THEOREM TypeCorrect == Spec => []TypeOK
  BY InitType, NextType, PTL DEF Spec

-----------------------------------------------------------------------------
(***************************************************************************)
(* Retention and the latest scan.                                          *)
(***************************************************************************)

\* The scan that was stored last is there, with its rows.
LatestInv == nextId > 1 => \E s \in scans : s.id = nextId - 1 /\ s.rows = s.found

LEMMA LatestInsert ==
    ASSUME TablesOK, NEW at, NEW found, insert_scan(at, found)
    PROVE  LatestInv'
  <1>. DEFINE new == [id |-> nextId, at |-> at, found |-> found, rows |-> found]
  <1>1. new \in scans' /\ nextId' - 1 = nextId
    BY DEF insert_scan, TablesOK
  <1>. QED
    BY <1>1 DEF LatestInv

LEMMA LatestRest == ASSUME LatestInv, UNCHANGED db PROVE LatestInv'
  BY DEF LatestInv, db

LEMMA LatestEnsure == ASSUME TablesOK, LatestInv, EnsureDb PROVE LatestInv'
  BY LatestInsert, LatestRest DEF EnsureDb, Migrate

\* Nothing is newer than the latest scan, so pruning neither expires it nor
\* takes its rows: Keep is at least one.
LEMMA LatestPrune == ASSUME TablesOK, LatestInv, NEW t, prune_scans(t) PROVE LatestInv'
  <1>1. UNCHANGED nextId
    BY DEF prune_scans
  <1>2. CASE scans' = scans
    BY <1>1, <1>2 DEF LatestInv
  <1>3. CASE scans' = {IF Cardinality(Newer(s, scans)) >= Keep THEN [s EXCEPT !.rows = {}] ELSE s :
                         s \in scans \ Expired(scans)}
    <2>. SUFFICES ASSUME nextId > 1
                  PROVE  \E s \in scans' : s.id = nextId - 1 /\ s.rows = s.found
      BY <1>1 DEF LatestInv
    <2>1. PICK s \in scans : s.id = nextId - 1 /\ s.rows = s.found
      BY DEF LatestInv
    <2>2. Newer(s, scans) = {}
      BY <2>1 DEF Newer, TablesOK
    <2>3. s \notin Expired(scans)
      BY <2>2 DEF Expired
    <2>4. ~(Cardinality(Newer(s, scans)) >= Keep)
      BY <2>2, FS_EmptySet, ScanCacheAssumption
    <2>5. s \in scans'
      BY <1>3, <2>3, <2>4
    <2>. QED
      BY <2>1, <2>5
  <1>. QED
    BY <1>2, <1>3 DEF prune_scans

LEMMA NextLatest == TypeOK /\ LatestInv /\ [Next]_vars => LatestInv'
  <1>. SUFFICES ASSUME TypeOK, LatestInv, [Next]_vars PROVE LatestInv'
    OBVIOUS
  <1>0. TablesOK
    BY TypeParts
  <1>1. ASSUME NEW t \in Refreshers \cup Reporters, SaveStep(t) PROVE LatestInv'
    BY <1>0, <1>1, LatestInsert, LatestRest, LatestPrune DEF SaveStep, Insert
  <1>2. ASSUME NEW t \in Refreshers, RefresherStep(t) PROVE LatestInv'
    <2>1. EnsureDb \/ UNCHANGED db
      BY <1>2 DEF RefresherStep, Acquire, Begin, EnsureDbRaises, Collect, CollectRaises, EndRefresh, Release
    <2>. QED
      BY <1>0, <2>1, LatestEnsure, LatestRest
  <1>3. ASSUME NEW t \in Reporters, ReporterStep(t) PROVE LatestInv'
    <2>1. EnsureDb \/ UNCHANGED db
      BY <1>3 DEF ReporterStep, Report, Ensure, EnsureDbRaises
    <2>. QED
      BY <1>0, <2>1, LatestEnsure, LatestRest
  <1>4. ASSUME NEW t \in Readers, ReadHead(t) \/ ReaderStep(t) PROVE LatestInv'
    <2>1. EnsureDb \/ UNCHANGED db
      BY <1>4 DEF ReaderStep, ReadHead, ReadRows, Serve
    <2>. QED
      BY <1>0, <2>1, LatestEnsure, LatestRest
  <1>5. CASE UNCHANGED db
    BY <1>5, LatestRest
  <1>6. CASE Next /\ ~UNCHANGED db
    <2>1. /\ ~Restart /\ ~Age
          /\ \A t \in Refreshers, regs \in Requests : ~Spawn(t, regs)
          /\ \A t \in Reporters, regs \in Requests : ~StartReport(t, regs)
      BY <1>6 DEF Restart, Age, Spawn, StartReport
    <2>. QED
      BY <1>1, <1>2, <1>3, <1>4, <1>6, <2>1 DEF Next
  <1>. QED
    BY <1>5, <1>6 DEF vars, db

LEMMA LatestFollows == TypeOK /\ LatestInv => LatestIsWhole
  <1>. SUFFICES ASSUME TypeOK, LatestInv, nextId > 1
                PROVE  scans # {} /\ Latest.rows = Latest.found
    BY DEF LatestIsWhole
  <1>0. TablesOK
    BY TypeParts
  <1>1. PICK s \in scans : s.id = nextId - 1 /\ s.rows = s.found
    BY DEF LatestInv
  <1>2. Newer(s, scans) = {}
    BY <1>0, <1>1 DEF Newer, TablesOK
  <1>3. \A o \in scans : Newer(o, scans) = {} => o = s
    <2>. SUFFICES ASSUME NEW o \in scans, Newer(o, scans) = {} PROVE o = s
      OBVIOUS
    <2>1. ~(s.id > o.id) /\ ~(o.id > s.id)
      BY <1>2 DEF Newer
    <2>2. s.id \in Nat /\ o.id \in Nat
      BY <1>0 DEF TablesOK
    <2>3. s.id = o.id
      BY <2>1, <2>2
    <2>. QED
      BY <1>0, <2>3 DEF TablesOK
  <1>4. Latest = s
    BY <1>2, <1>3 DEF Latest
  <1>. QED
    BY <1>1, <1>4

\* Retention never takes the latest scan or its rows, whoever prunes when, and
\* however small the retention is set.
THEOREM LatestIsWholeHolds == Spec => []LatestIsWhole
  <1>1. Init => LatestInv
    BY DEF Init, LatestInv
  <1>. QED
    BY <1>1, InitType, NextType, NextLatest, LatestFollows, PTL DEF Spec

-----------------------------------------------------------------------------
(***************************************************************************)
(* What a reader serves.                                                   *)
(***************************************************************************)

\* The scan that t has the head of is stored with its rows, ...
Whole(t) ==
    \E s \in scans : s.id = ctx[t].id /\ s.at = ctx[t].at /\ s.found = ctx[t].found /\ s.rows = s.found

\* ... or retention may have taken them.
Gone(t) ==
    LET landed == nextId - 1 - ctx[t].id
    IN landed >= Keep \/ (landed > 0 /\ ctx[t].at < horizon)

ServeInv(t) ==
    /\ pc[t] = "rows" => Whole(t) \/ Gone(t)
    /\ pc[t] = "serve" /\ ctx[t].rows # ctx[t].found => Gone(t)

\* The newer scans have ids of their own between that of s and the next one.
LEMMA NewerBound ==
    ASSUME TablesOK, NEW s \in scans
    PROVE  /\ Cardinality(Newer(s, scans)) \in Nat
           /\ Cardinality(Newer(s, scans)) <= nextId - 1 - s.id
           /\ Newer(s, scans) # {} => nextId - 1 - s.id > 0
  <1>1. /\ s.id \in 1 .. (nextId - 1) /\ nextId \in Nat
        /\ \A o \in Newer(s, scans) : o.id \in s.id + 1 .. nextId - 1
    BY DEF TablesOK, Newer
  <1> DEFINE S == Newer(s, scans)
             T == s.id + 1 .. nextId - 1
             f == [o \in S |-> o.id]
  <1>2. f \in Injection(S, T)
    <2>1. f \in [S -> T]
      BY <1>1
    <2>2. \A o, q \in S : f[o] = f[q] => o = q
      BY DEF TablesOK, Newer
    <2>. QED
      BY <2>1, <2>2 DEF Injection, IsInjective
  <1>3. IsFiniteSet(T) /\ Cardinality(T) <= nextId - 1 - s.id /\ Cardinality(T) \in Nat
    <2>1. s.id + 1 \in Int /\ nextId - 1 \in Int
      BY <1>1
    <2>2. IsFiniteSet(T) /\ Cardinality(T) = IF s.id + 1 > nextId - 1 THEN 0 ELSE (nextId - 1) - (s.id + 1) + 1
      BY <2>1, FS_Interval
    <2>. HIDE DEF T
    <2>. QED
      BY <1>1, <2>2
  <1>4. Cardinality(S) <= Cardinality(T) /\ Cardinality(S) \in Nat
    BY <1>2, <1>3, FS_Injection, FS_CardinalityType DEF ExistsInjection
  <1>. QED
    BY <1>1, <1>3, <1>4

\* A scan that pruning takes, or whose rows it takes, had newer ones to go by.
LEMMA PruneTakesOld ==
    ASSUME TablesOK, NEW u, prune_scans(u), NEW s \in scans, s \notin scans'
    PROVE  LET landed == nextId - 1 - s.id
           IN landed >= Keep \/ (landed > 0 /\ s.at < horizon)
  <1>1. s \in Expired(scans) \/ Cardinality(Newer(s, scans)) >= Keep
    BY DEF prune_scans
  <1>2. CASE s \in Expired(scans)
    BY <1>2, NewerBound DEF Expired
  <1>3. CASE Cardinality(Newer(s, scans)) >= Keep
    <2>1. nextId - 1 - s.id \in Int /\ Keep \in Int
      BY ScanCacheAssumption DEF TablesOK
    <2>2. Cardinality(Newer(s, scans)) \in Nat
      BY NewerBound
    <2>. QED
      BY <1>3, <2>1, <2>2, NewerBound
  <1>. QED
    BY <1>1, <1>2, <1>3

\* What the tables may do while a reader is between its two reads.
TablesEvolve ==
    /\ nextId' >= nextId /\ horizon' >= horizon
    /\ \A s \in scans : s \in scans' \/ LET landed == nextId - 1 - s.id
                                        IN landed >= Keep \/ (landed > 0 /\ s.at < horizon)

LEMMA ServeRests ==
    ASSUME TypeOK, TablesOK', TablesEvolve, NEW t \in Readers, ServeInv(t),
           pc'[t] = pc[t], ctx'[t] = ctx[t]
    PROVE  ServeInv(t)'
  <1>1. /\ nextId \in Nat /\ nextId' \in Nat /\ horizon \in Nat /\ horizon' \in Nat /\ Keep \in Nat
        /\ ctx[t].id \in Nat /\ ctx[t].at \in Nat
    BY ScanCacheAssumption DEF TypeOK, TablesOK, Contexts, Threads
  <1>2. Gone(t) => Gone(t)'
    BY <1>1 DEF Gone, TablesEvolve
  <1>3. Whole(t) => Whole(t)' \/ Gone(t)
    BY DEF Whole, Gone, TablesEvolve
  <1>. QED
    BY <1>2, <1>3 DEF ServeInv

LEMMA InsertEvolves ==
    ASSUME TablesOK, UNCHANGED db \/ EnsureDb \/ (\E at, found : insert_scan(at, found)), UNCHANGED horizon
    PROVE  TablesEvolve
BY DEF TablesOK, TablesEvolve, insert_scan, EnsureDb, Migrate, db

LEMMA PruneEvolves == ASSUME TablesOK, NEW u, prune_scans(u) PROVE TablesEvolve
  <1>1. nextId' = nextId /\ horizon' = horizon
    BY DEF prune_scans, time
  <1>. QED
    BY <1>1, PruneTakesOld DEF TablesEvolve, TablesOK

\* Every step of a thread is its own.
LEMMA ThreadAlone ==
    ASSUME ThreadsOK, NEW u \in Threads, NEW v \in Threads \ {u},
           UNCHANGED pc \/ (\E l : Goto(u, l)),
           UNCHANGED ctx \/ (\E c : ctx' = [ctx EXCEPT ![u] = c])
    PROVE  pc'[v] = pc[v] /\ ctx'[v] = ctx[v]
BY DEF ThreadsOK, Goto

LEMMA WriterEvolves ==
    ASSUME TablesOK, NEW u \in Refreshers \cup Reporters,
           \/ RefresherStep(u) \/ ReporterStep(u) \/ SaveStep(u)
           \/ \E regs \in Requests : Spawn(u, regs) \/ StartReport(u, regs)
    PROVE  TablesEvolve
  <1>1. CASE SaveStep(u)
    <2>1. CASE prune_scans(u)
      BY <2>1, PruneEvolves
    <2>2. CASE Insert(u)
      BY <2>2, InsertEvolves DEF Insert, time
    <2>. QED
      BY <1>1, <2>1, <2>2 DEF SaveStep
  <1>2. CASE ~SaveStep(u)
    <2>1. (EnsureDb \/ UNCHANGED db) /\ UNCHANGED horizon
      BY <1>2 DEF RefresherStep, ReporterStep, Acquire, Begin, EnsureDbRaises, Collect, CollectRaises,
         EndRefresh, Release, Report, Ensure, Spawn, StartReport, time
    <2>. QED
      BY <2>1, InsertEvolves
  <1>. QED
    BY <1>1, <1>2

LEMMA WriterAlone ==
    ASSUME ThreadsOK, NEW u \in Refreshers \cup Reporters, NEW v \in Readers,
           \/ RefresherStep(u) \/ ReporterStep(u) \/ SaveStep(u)
           \/ \E regs \in Requests : Spawn(u, regs) \/ StartReport(u, regs)
    PROVE  pc'[v] = pc[v] /\ ctx'[v] = ctx[v]
  <1>1. u \in Threads /\ v \in Threads \ {u}
    BY ScanCacheAssumption DEF Threads
  <1>2. pc'[v] = pc[v]
    <2>1. \E l : Goto(u, l)
      BY DEF RefresherStep, ReporterStep, SaveStep, Acquire, Begin, Collect, CollectRaises, EndRefresh,
         Release, Report, Ensure, Insert, prune_scans, Saved, Spawn, StartReport, Return
    <2>. QED
      BY <1>1, <2>1 DEF ThreadsOK, Goto
  <1>3. ctx'[v] = ctx[v]
    BY <1>1 DEF ThreadsOK, RefresherStep, ReporterStep, SaveStep, Acquire, Begin, Collect, CollectRaises,
       EndRefresh, Release, Report, Ensure, Insert, prune_scans, Saved, Spawn, StartReport, Return
  <1>. QED
    BY <1>2, <1>3

LEMMA ReadHeadServes ==
    ASSUME TypeOK, LatestInv, TablesOK', NEW t \in Readers, ReadHead(t), NEW v \in Readers, ServeInv(v)
    PROVE  ServeInv(v)'
  <1>0. TablesOK /\ ThreadsOK /\ t \in Threads /\ v \in Threads
    BY TypeParts DEF Threads
  <1>1. TablesEvolve
    BY <1>0, InsertEvolves DEF ReadHead, time
  <1>2. CASE v # t \/ scans' = {}
    <2>1. pc'[v] = pc[v] /\ ctx'[v] = ctx[v]
      BY <1>0, <1>2 DEF ReadHead, Goto, ThreadsOK
    <2>. QED
      BY <1>1, <2>1, ServeRests
  <1>3. CASE v = t /\ scans' # {}
    <2>1. PICK s \in scans' : /\ Newer(s, scans') = {}
                              /\ ctx' = [ctx EXCEPT ![t].id = s.id, ![t].at = s.at, ![t].found = s.found]
      BY <1>3 DEF ReadHead
    <2>2. pc'[t] = "rows"
      BY <1>0, <1>3 DEF ReadHead, Goto, ThreadsOK
    <2>3. ctx'[t].id = s.id /\ ctx'[t].at = s.at /\ ctx'[t].found = s.found
      BY <1>0, <2>1 DEF ThreadsOK, Contexts
    <2>4. LatestInv'
      BY <1>0, LatestEnsure DEF ReadHead
    <2>5. s.id \in 1 .. (nextId' - 1) /\ nextId' \in Nat
      BY DEF TablesOK
    <2>6. PICK o \in scans' : o.id = nextId' - 1 /\ o.rows = o.found
      BY <2>4, <2>5 DEF LatestInv
    <2>7. o = s
      <3>1. ~(o.id > s.id)
        BY <2>1 DEF Newer
      <3>. QED
        BY <2>5, <2>6, <3>1 DEF TablesOK
    <2>8. Whole(t)'
      BY <2>3, <2>6, <2>7 DEF Whole
    <2>. QED
      BY <1>3, <2>2, <2>8 DEF ServeInv
  <1>. QED
    BY <1>2, <1>3

LEMMA ReaderServes ==
    ASSUME TypeOK, NEW t \in Readers, ReaderStep(t), NEW v \in Readers, ServeInv(v)
    PROVE  ServeInv(v)'
  <1>0. TablesOK /\ ThreadsOK /\ t \in Threads /\ v \in Threads
    BY TypeParts DEF Threads
  <1>1. UNCHANGED <<db, time>>
    BY DEF ReaderStep, ReadRows, Serve
  <1>2. CASE v # t
    <2>1. pc'[v] = pc[v] /\ ctx'[v] = ctx[v]
      BY <1>0, <1>2 DEF ReaderStep, ReadRows, Serve, Return, Goto, ThreadsOK
    <2>2. TablesOK' /\ TablesEvolve
      BY <1>0, <1>1, TablesRest, InsertEvolves DEF time
    <2>. QED
      BY <2>1, <2>2, ServeRests
  <1>3. CASE v = t /\ Serve(t)
    BY <1>0, <1>3 DEF Serve, Return, Goto, ThreadsOK, ServeInv
  <1>4. CASE v = t /\ ReadRows(t)
    <2> DEFINE rows == UNION {s.rows : s \in {o \in scans : o.id = ctx[t].id}}
    <2>1. pc[t] = "rows" /\ pc'[t] = "serve" /\ ctx' = [ctx EXCEPT ![t].rows = rows]
      BY <1>0, <1>4 DEF ReadRows, Goto, ThreadsOK
    <2>2. Whole(t) => rows = ctx[t].found
      <3>. SUFFICES ASSUME NEW s \in scans, s.id = ctx[t].id, s.found = ctx[t].found, s.rows = s.found
                    PROVE  rows = ctx[t].found
        BY DEF Whole
      <3>1. {o \in scans : o.id = ctx[t].id} = {s}
        BY <1>0 DEF TablesOK
      <3>. QED
        BY <3>1
    <2>. HIDE DEF rows
    <2>3. ctx'[t].rows = rows /\ ctx'[t].found = ctx[t].found /\ ctx'[t].id = ctx[t].id /\ ctx'[t].at = ctx[t].at
      BY <1>0, <2>1 DEF ThreadsOK, Contexts
    <2>4. Gone(t) => Gone(t)'
      BY <1>1, <2>3 DEF Gone, db, time
    <2>. QED
      BY <1>4, <2>1, <2>2, <2>3, <2>4 DEF ServeInv
  <1>. QED
    BY <1>2, <1>3, <1>4 DEF ReaderStep

LEMMA NextServe ==
    ASSUME TypeOK, LatestInv, TypeOK', [Next]_vars, NEW v \in Readers, ServeInv(v)
    PROVE  ServeInv(v)'
  <1>0. TablesOK /\ ThreadsOK /\ TablesOK' /\ v \in Threads
    BY TypeParts DEF TypeOK, Threads
  <1>1. ASSUME NEW u \in Refreshers \cup Reporters,
               \/ RefresherStep(u) \/ ReporterStep(u) \/ SaveStep(u)
               \/ \E regs \in Requests : Spawn(u, regs) \/ StartReport(u, regs)
        PROVE  ServeInv(v)'
    BY <1>0, <1>1, WriterEvolves, WriterAlone, ServeRests
  <1>2. ASSUME NEW t \in Readers, ReadHead(t) \/ ReaderStep(t) PROVE ServeInv(v)'
    BY <1>0, <1>2, ReadHeadServes, ReaderServes
  <1>3. CASE Restart
    BY <1>0, <1>3 DEF Restart, ServeInv
  <1>4. CASE Age \/ UNCHANGED vars
    <2>1. pc' = pc /\ ctx' = ctx /\ TablesEvolve
      BY <1>0, <1>4 DEF Age, vars, db, TablesEvolve, TablesOK
    <2>. QED
      BY <1>0, <2>1, ServeRests
  <1>. QED
    BY <1>1, <1>2, <1>3, <1>4 DEF Next

\* ServedIsWhole: what a reader has the head of keeps its rows unless newer
\* scans, as many as retention asks for, landed in between.
THEOREM ServedIsWholeHolds == Spec => []ServedIsWhole
  <1> DEFINE AllServe == \A t \in Readers : ServeInv(t)
  <1>1. Init => AllServe /\ LatestInv
    BY DEF Init, ServeInv, LatestInv, Threads
  <1>2. TypeOK /\ LatestInv /\ AllServe /\ [Next]_vars => AllServe'
    BY NextType, NextServe
  <1>3. AllServe => ServedIsWhole
    BY DEF ServeInv, Gone, ServedIsWhole
  <1>. HIDE DEF AllServe
  <1>. QED
    BY <1>1, <1>2, <1>3, InitType, NextType, NextLatest, PTL DEF Spec
=============================================================================
