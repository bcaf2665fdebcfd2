----------------------------- MODULE ScanCache -----------------------------
(***************************************************************************)
(* The compliance cache (src/src/cache_manager.py): scans of accounts and  *)
(* regions, stored in SQLite by src/src/db.py and served from there.       *)
(*                                                                         *)
(* One web process runs many threads.  A background refresh, started by a  *)
(* request or the scheduler, holds a lock; the synchronous report tool     *)
(* stores its result without one; readers fetch a scan and its resource    *)
(* rows in two statements.  An insert and the pruning after it are two     *)
(* transactions.  A resource row stands for the rows of one account in one *)
(* region.                                                                 *)
(***************************************************************************)
EXTENDS Naturals, FiniteSets, Sequences, SequencesExt

CONSTANTS
    Accounts,
    Regions,
    Requests,    \* the region lists that are asked for
    Refreshers,  \* threads of background_refresh
    Reporters,   \* request threads of api_report
    Readers,     \* request threads that read the cache
    Keep,        \* SCAN_RETENTION
    HasLegacy,   \* a .compliance_cache.json is there to be migrated
    MaxScans,    \* bound: scans that are started
    MaxFaults    \* bound: failing database calls and restarts

None == "none"

ASSUME ScanCacheAssumption ==
    /\ Refreshers \cap (Reporters \cup Readers) = {} /\ Reporters \cap Readers = {}
    /\ Accounts # {} /\ IsFiniteSet(Accounts) /\ IsFiniteSet(Regions)
    /\ Requests \subseteq Seq(Regions) \ {<<>>}
    /\ Keep \in Nat \ {0}        \* config.py: max(1, ...)
    /\ HasLegacy \in BOOLEAN
    /\ MaxScans \in Nat /\ MaxFaults \in Nat

VARIABLES
    scans,         \* compliance_scans with their compliance_resources
    nextId,        \* AUTOINCREMENT
    lock,          \* _refresh_lock is taken
    is_refreshing, \* _is_refreshing
    error,         \* _last_refresh_error
    ready,         \* _db_initialized
    pc, ctx,       \* where each thread is, and its locals
    clock,         \* time, counted by the scans that were started
    horizon,       \* the time HISTORY_RETENTION_DAYS ago
    faults

db == <<scans, nextId>>
process == <<lock, is_refreshing, error, ready>>
time == <<clock, horizon>>
vars == <<scans, nextId, lock, is_refreshing, error, ready, pc, ctx, clock, horizon, faults>>

Threads == Refreshers \cup Reporters \cup Readers
Pairs == Accounts \X Regions

NoCtx == [regs |-> <<>>, at |-> 0, found |-> {}, error |-> None, id |-> 0, rows |-> {}]

Init ==
    /\ scans = {} /\ nextId = 1
    /\ lock = FALSE /\ is_refreshing = FALSE /\ error = None /\ ready = FALSE
    /\ pc = [t \in Threads |-> "idle"] /\ ctx = [t \in Threads |-> NoCtx]
    /\ clock = 0 /\ horizon = 0 /\ faults = 0

-----------------------------------------------------------------------------
Goto(t, l) == pc' = [pc EXCEPT ![t] = l]
Return(t) == Goto(t, "idle") /\ ctx' = [ctx EXCEPT ![t] = NoCtx]

Fault == faults < MaxFaults /\ faults' = faults + 1
NoFault == UNCHANGED faults

Newer(s, set) == {o \in set : o.id > s.id}
Latest == CHOOSE s \in scans : Newer(s, scans) = {}

\* Mutant: ids without AUTOINCREMENT.
insert_scan_reusing_ids(at, found) ==
    /\ scans' = scans \cup {[id |-> Cardinality(scans) + 1, at |-> at, found |-> found, rows |-> found]}
    /\ nextId' = nextId + 1

\* The transaction of insert_scan: the scan and its resource rows.
insert_scan(at, found) ==
    /\ scans' = scans \cup {[id |-> nextId, at |-> at, found |-> found, rows |-> found]}
    /\ nextId' = nextId + 1

\* _migrate_from_json: once, into an empty table; its errors are swallowed.
Migrate ==
    IF HasLegacy /\ scans = {}
      THEN (insert_scan(0, Pairs) /\ NoFault) \/ (UNCHANGED db /\ Fault)
      ELSE UNCHANGED db /\ NoFault

\* _ensure_db when it succeeds.
EnsureDb == IF ready THEN UNCHANGED <<db, ready>> /\ NoFault ELSE Migrate /\ ready' = TRUE

\* _ensure_db when init_db raises: the caller does not catch it.
EnsureDbRaises == ~ready /\ Fault /\ UNCHANGED <<db, ready>>

-----------------------------------------------------------------------------
(***************************************************************************)
(* generate_report                                                         *)
(***************************************************************************)

\* Collecting the inventory of an account fails in the regions of failed, a
\* set of pairs of an account and an index of regs.
Errors(regs, failed, r) == {f \in failed : regs[f[2]] = r}

\* The regions that every account failed in.
FailedRegions(regs, failed) ==
    {r \in ToSet(regs) : LET n == Cardinality(Errors(regs, failed, r))
                         IN n > 0 /\ n = Cardinality(Accounts)}

Found(regs, failed) ==
    {p \in Pairs : /\ p[2] \notin FailedRegions(regs, failed)
                   /\ \E i \in DOMAIN regs : regs[i] = p[2] /\ <<p[1], i>> \notin failed}

\* Every region failed: the report must not replace the last good scan.
AllFailed(regs, failedRegions) ==
    failedRegions # {} /\ Cardinality(failedRegions) = Len(regs)

-----------------------------------------------------------------------------
(***************************************************************************)
(* background_refresh                                                      *)
(***************************************************************************)

\* api_compliance_refresh or a tick of the scheduler; both look at the flag,
\* not at the lock, and the scheduler also asks whether the cache is stale.
Spawn(t, regs) ==
    /\ pc[t] = "idle" /\ ~is_refreshing
    /\ clock < MaxScans /\ clock' = clock + 1
    /\ Goto(t, "acquire")
    /\ ctx' = [ctx EXCEPT ![t].regs = regs]
    /\ UNCHANGED <<db, process, horizon, faults>>

\* Mutant: the flag is taken for the lock.
AcquireByFlag(t) ==
    /\ pc[t] = "acquire"
    /\ IF is_refreshing THEN Return(t) /\ UNCHANGED process
       ELSE /\ lock' = TRUE /\ is_refreshing' = TRUE /\ error' = None
            /\ Goto(t, "begin")
            /\ UNCHANGED <<ready, ctx>>
    /\ UNCHANGED <<db, time, faults>>

\* acquire(blocking=False): a second refresh is silently skipped.
Acquire(t) ==
    /\ pc[t] = "acquire"
    /\ IF lock THEN Return(t) /\ UNCHANGED process
       ELSE /\ lock' = TRUE /\ is_refreshing' = TRUE /\ error' = None
            /\ Goto(t, "begin")
            /\ UNCHANGED <<ready, ctx>>
    /\ UNCHANGED <<db, time, faults>>

\* _ensure_db runs before the try: when it raises, the thread ends with the
\* lock taken and the flag set.  The report is stamped before it is collected.
Begin(t) ==
    /\ pc[t] = "begin"
    /\ \/ EnsureDb /\ Goto(t, "scan") /\ ctx' = [ctx EXCEPT ![t].at = clock]
       \/ EnsureDbRaises /\ Return(t)
    /\ UNCHANGED <<lock, is_refreshing, error, time>>

\* Mutant: a refresh that failed returns at once.
CollectLeavesEarly(t) ==
    /\ pc[t] = "scan"
    /\ \E failed \in SUBSET (Accounts \X DOMAIN ctx[t].regs) :
          IF AllFailed(ctx[t].regs, FailedRegions(ctx[t].regs, failed))
            THEN Return(t)
            ELSE /\ Goto(t, "insert")
                 /\ ctx' = [ctx EXCEPT ![t].found = Found(ctx[t].regs, failed)]
    /\ UNCHANGED <<db, process, time, faults>>

\* generate_report, and the check that it found anything.
Collect(t) ==
    /\ pc[t] = "scan"
    /\ \E failed \in SUBSET (Accounts \X DOMAIN ctx[t].regs) :
          LET regs == ctx[t].regs
              bad == FailedRegions(regs, failed)
          IN IF AllFailed(regs, bad)
               THEN Goto(t, "end") /\ ctx' = [ctx EXCEPT ![t].error = "failed"]
               ELSE /\ Goto(t, "insert")
                    /\ ctx' = [ctx EXCEPT ![t].found = Found(regs, failed),
                                          ![t].error = IF bad = {} THEN None ELSE "partial"]
    /\ UNCHANGED <<db, process, time, faults>>

\* generate_report raises.
CollectRaises(t) ==
    /\ pc[t] = "scan"
    /\ Fault
    /\ Goto(t, "end") /\ ctx' = [ctx EXCEPT ![t].error = "failed"]
    /\ UNCHANGED <<db, process, time>>

\* finally: first the flag, then the lock.
EndRefresh(t) ==
    /\ pc[t] = "end"
    /\ is_refreshing' = FALSE
    /\ error' = IF ctx[t].error = None THEN error ELSE ctx[t].error
    /\ Goto(t, "release")
    /\ UNCHANGED <<db, lock, ready, ctx, time, faults>>

Release(t) ==
    /\ pc[t] = "release"
    /\ lock' = FALSE
    /\ Return(t)
    /\ UNCHANGED <<db, is_refreshing, error, ready, time, faults>>

-----------------------------------------------------------------------------
(***************************************************************************)
(* api_report: a synchronous scan that is stored as well.                  *)
(***************************************************************************)

StartReport(t, regs) ==
    /\ pc[t] = "idle"
    /\ clock < MaxScans /\ clock' = clock + 1
    /\ Goto(t, "report")
    /\ ctx' = [ctx EXCEPT ![t].regs = regs, ![t].at = clock]
    /\ UNCHANGED <<db, process, horizon, faults>>

\* Nothing is stored when every region of the report failed.
Report(t) ==
    /\ pc[t] = "report"
    /\ \E failed \in SUBSET (Accounts \X DOMAIN ctx[t].regs) :
          IF FailedRegions(ctx[t].regs, failed) = ToSet(ctx[t].regs)
            THEN Return(t)
            ELSE /\ Goto(t, "ensure")
                 /\ ctx' = [ctx EXCEPT ![t].found = Found(ctx[t].regs, failed)]
    /\ UNCHANGED <<db, process, time, faults>>

Ensure(t) ==
    /\ pc[t] = "ensure"
    /\ \/ EnsureDb /\ Goto(t, "insert") /\ UNCHANGED ctx
       \/ EnsureDbRaises /\ Return(t)
    /\ UNCHANGED <<lock, is_refreshing, error, time>>

-----------------------------------------------------------------------------
(***************************************************************************)
(* save_report, for both.                                                  *)
(***************************************************************************)

Saved(t) == IF t \in Refreshers THEN Goto(t, "end") /\ UNCHANGED ctx ELSE Return(t)

\* Mutant: the scan is committed before its resources.
InsertHeadFirst(t) ==
    /\ pc[t] = "insert"
    /\ NoFault
    /\ scans' = {[s EXCEPT !.rows = s.found] : s \in scans}
                  \cup {[id |-> nextId, at |-> ctx[t].at, found |-> ctx[t].found, rows |-> {}]}
    /\ nextId' = nextId + 1
    /\ Goto(t, "prune") /\ UNCHANGED ctx
    /\ UNCHANGED <<process, time>>

\* A failing insert is logged and forgotten.
Insert(t) ==
    /\ pc[t] = "insert"
    /\ \/ NoFault /\ insert_scan(ctx[t].at, ctx[t].found) /\ Goto(t, "prune") /\ UNCHANGED ctx
       \/ Fault /\ UNCHANGED db /\ Saved(t)
    /\ UNCHANGED <<process, time>>

\* Mutant: the newest scan expires too.
ExpiredWithNewest(set) == {s \in set : s.at < horizon}

Expired(set) == {s \in set : s.at < horizon /\ Newer(s, set) # {}}

\* prune_scans: resource rows of the newest Keep scans, summaries for longer.
prune_scans(t) ==
    /\ pc[t] = "prune"
    /\ \/ NoFault /\ scans' = {IF Cardinality(Newer(s, scans)) >= Keep THEN [s EXCEPT !.rows = {}] ELSE s :
                                 s \in scans \ Expired(scans)}
       \/ Fault /\ UNCHANGED scans
    /\ Saved(t)
    /\ UNCHANGED <<nextId, process, time>>

-----------------------------------------------------------------------------
(***************************************************************************)
(* get_cached_report                                                       *)
(***************************************************************************)

\* The latest scan; with no scan, and on any error, there is "no report".  The
\* staleness test looks at the same row.
ReadHead(t) ==
    /\ pc[t] = "idle"
    /\ EnsureDb
    /\ IF scans' = {} THEN UNCHANGED <<pc, ctx>>
       ELSE /\ Goto(t, "rows")
            /\ \E s \in scans' : /\ Newer(s, scans') = {}
                                 /\ ctx' = [ctx EXCEPT ![t].id = s.id, ![t].at = s.at, ![t].found = s.found]
    /\ UNCHANGED <<lock, is_refreshing, error, time>>

\* Its resource rows, as they are by now.
ReadRows(t) ==
    /\ pc[t] = "rows"
    /\ Goto(t, "serve")
    /\ ctx' = [ctx EXCEPT ![t].rows = UNION {s.rows : s \in {o \in scans : o.id = ctx[t].id}}]
    /\ UNCHANGED <<db, process, time, faults>>

Serve(t) ==
    /\ pc[t] = "serve"
    /\ Return(t)
    /\ UNCHANGED <<db, process, time, faults>>

-----------------------------------------------------------------------------
\* The web process dies and is started again.
Restart ==
    /\ Fault
    /\ lock' = FALSE /\ is_refreshing' = FALSE /\ error' = None /\ ready' = FALSE
    /\ pc' = [t \in Threads |-> "idle"] /\ ctx' = [t \in Threads |-> NoCtx]
    /\ UNCHANGED <<db, time>>

\* Days pass.
Age ==
    /\ horizon < clock /\ horizon' = horizon + 1
    /\ UNCHANGED <<db, process, pc, ctx, clock, faults>>

RefresherStep(t) ==
    Acquire(t) \/ Begin(t) \/ Collect(t) \/ CollectRaises(t) \/ EndRefresh(t) \/ Release(t)
ReporterStep(t) == Report(t) \/ Ensure(t)
SaveStep(t) == Insert(t) \/ prune_scans(t)
ReaderStep(t) == ReadRows(t) \/ Serve(t)

Next ==
    \/ \E t \in Refreshers, regs \in Requests : Spawn(t, regs)
    \/ \E t \in Refreshers : RefresherStep(t) \/ SaveStep(t)
    \/ \E t \in Reporters, regs \in Requests : StartReport(t, regs)
    \/ \E t \in Reporters : ReporterStep(t) \/ SaveStep(t)
    \/ \E t \in Readers : ReadHead(t) \/ ReaderStep(t)
    \/ Restart \/ Age

\* Threads that have begun go on.
Fairness == \A t \in Refreshers : WF_vars(RefresherStep(t) \/ SaveStep(t))

Spec == Init /\ [][Next]_vars /\ Fairness

-----------------------------------------------------------------------------
(***************************************************************************)
(* Properties.                                                             *)
(***************************************************************************)

Holding == {"begin", "scan", "insert", "prune", "end", "release"}

Locations == Holding \cup {"idle", "acquire", "report", "ensure", "rows", "serve"}

Contexts == [regs : Requests \cup {<<>>}, at : 0..clock, found : SUBSET Pairs,
             error : {None, "partial", "failed"}, id : 0..(nextId - 1), rows : SUBSET Pairs]

\* The tables keep their shape: scan ids are never given twice, and a scan has
\* all its rows or none.
TablesOK ==
    /\ nextId \in Nat \ {0}
    /\ clock \in 0..MaxScans /\ horizon \in 0..clock
    /\ scans \subseteq [id : 1..(nextId - 1), at : 0..clock, found : SUBSET Pairs, rows : SUBSET Pairs]
    /\ \A s \in scans : s.rows \in {s.found, {}}
    /\ \A s, o \in scans : o.id = s.id => o = s

\* So do the variables of the process and of its threads.
TypeOK ==
    /\ TablesOK
    /\ lock \in BOOLEAN /\ is_refreshing \in BOOLEAN /\ ready \in BOOLEAN
    /\ error \in {None, "partial", "failed"}
    /\ pc \in [Threads -> Locations]
    /\ ctx \in [Threads -> Contexts]

\* The lock means what it is for: two refreshes never run at once, and the
\* flag that the endpoints look at is never set without it.
OneRefresh ==
    /\ \A t, u \in Refreshers : pc[t] \in Holding /\ pc[u] \in Holding => t = u
    /\ (is_refreshing \/ \E t \in Refreshers : pc[t] \in Holding) => lock

\* Retention never touches the latest scan: once any was stored there is one,
\* and all its resource rows are there.
LatestIsWhole == nextId > 1 => scans # {} /\ Latest.rows = Latest.found

\* A report is served with rows missing only if so many newer scans landed
\* between the two reads that retention took them away.
ServedIsWhole ==
    \A t \in Readers : pc[t] = "serve" /\ ctx[t].rows # ctx[t].found =>
        LET landed == nextId - 1 - ctx[t].id
        IN landed >= Keep \/ (landed > 0 /\ ctx[t].at < horizon)

\* Whatever the scan comes to, the lock is free again afterwards.
RefreshReleasesLock == \A t \in Refreshers : pc[t] = "scan" ~> ~lock
=============================================================================
