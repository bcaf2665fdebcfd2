----------------------------- MODULE WorkerLoop -----------------------------
(***************************************************************************)
(* The worker process (src/src/worker.py): it polls an SQS queue, handles   *)
(* the messages of a batch one after the other, gives REMEDIATION messages  *)
(* to process_async of the engine (module Remediation, which this module    *)
(* extends), deletes a message when its handler answered TRUE, and stops    *)
(* between two messages when a signal asked for it.                         *)
(*                                                                         *)
(* The queue itself is external: delivery is at least once, a message that  *)
(* is not deleted comes back after its visibility timeout, and after        *)
(* maxReceiveCount deliveries it goes to the dead-letter queue.             *)
(***************************************************************************)
EXTENDS Remediation, FiniteSets

CONSTANTS
    Messages,         \* SQS messages
    Body,             \* what each carries: an action id or one of OtherBodies
    MaxBatch,         \* SQS_MAX_MESSAGES
    MaxReceives,      \* maxReceiveCount of the queue's redrive policy
    EarlyRedelivery,  \* may a message come back while a worker still holds it?
    Stoppable         \* the workers a deployment may stop

OtherBodies == {"WORKER_HEALTH_CHECK", "UNSUPPORTED", "MALFORMED"}

ASSUME LoopAssumption ==
    /\ Body \in [Messages -> Actions \cup OtherBodies]
    /\ None \notin Messages
    /\ OtherBodies \cap Actions = {}
    /\ MaxBatch \in Nat /\ MaxReceives \in Nat
    /\ EarlyRedelivery \in BOOLEAN
    /\ Stoppable \subseteq Workers

VARIABLES
    queue,     \* where each message is
    receives,  \* ApproximateReceiveCount
    inbox,     \* messages of the current batch not yet looked at
    current,   \* the message whose handler runs
    shutdown   \* WorkerState.shutdown_requested, or "exited"

queueVars == <<queue, receives>>
loopVars == <<inbox, current, shutdown>>
allVars == <<vars, queueVars, loopVars>>

LoopInit ==
    /\ Init
    /\ queue = [m \in Messages |-> "unsent"]
    /\ receives = [m \in Messages |-> 0]
    /\ inbox = [w \in Workers |-> {}]
    /\ current = [w \in Workers |-> None]
    /\ shutdown = [w \in Workers |-> "no"]

-----------------------------------------------------------------------------
(***************************************************************************)
(* The queue.                                                              *)
(***************************************************************************)

Send(m) ==
    /\ queue[m] = "unsent"
    /\ queue' = [queue EXCEPT ![m] = "visible"]
    /\ UNCHANGED <<receives, vars, loopVars>>

Held(m) == \E w \in Workers : m \in inbox[w] \/ current[w] = m

\* The visibility timeout of a message that was not deleted runs out.
Redeliver(m) ==
    /\ queue[m] = "inflight"
    /\ EarlyRedelivery \/ ~Held(m)
    /\ queue' = [queue EXCEPT ![m] = IF receives[m] < MaxReceives THEN "visible" ELSE "dlq"]
    /\ UNCHANGED <<receives, vars, loopVars>>

\* delete_message: a message already in the dead-letter queue stays there.
Deleted(m) == [queue EXCEPT ![m] = IF @ \in {"visible", "inflight"} THEN "deleted" ELSE @]

-----------------------------------------------------------------------------
(***************************************************************************)
(* run_worker.                                                             *)
(***************************************************************************)

\* receive_message.  A poll that fails or finds nothing changes nothing.
Receive(w, batch) ==
    /\ shutdown[w] = "no" /\ inbox[w] = {} /\ current[w] = None
    /\ batch # {} /\ Cardinality(batch) <= MaxBatch
    /\ \A m \in batch : queue[m] = "visible"
    /\ queue' = [m \in Messages |-> IF m \in batch THEN "inflight" ELSE queue[m]]
    /\ receives' = [m \in Messages |-> IF m \in batch THEN receives[m] + 1 ELSE receives[m]]
    /\ inbox' = [inbox EXCEPT ![w] = batch]
    /\ UNCHANGED <<vars, current, shutdown>>

\* The next message of the batch; the signal handler's flag is looked at first.
Take(w, m) ==
    /\ shutdown[w] = "no" /\ current[w] = None
    /\ m \in inbox[w]
    /\ inbox' = [inbox EXCEPT ![w] = @ \ {m}]

\* A REMEDIATION message starts process_async.
HandleRemediation(w, m) ==
    /\ Take(w, m)
    /\ Body[m] \in Actions
    /\ StartAsync(w, Body[m])
    /\ current' = [current EXCEPT ![w] = m]
    /\ UNCHANGED <<queueVars, shutdown>>

\* A health check does nothing and is deleted; the delete may fail.
HandleHealthCheck(w, m) ==
    /\ Take(w, m)
    /\ Body[m] = "WORKER_HEALTH_CHECK"
    /\ \/ queue' = Deleted(m) /\ NoFault
       \/ Fault /\ UNCHANGED queue
    /\ UNCHANGED <<store, pc, ctx, History, receives, current, shutdown>>

\* Mutant: a message that cannot be handled is deleted.
DropUnhandled(w, m) ==
    /\ Take(w, m)
    /\ Body[m] \in {"MALFORMED", "UNSUPPORTED"}
    /\ queue' = Deleted(m)
    /\ UNCHANGED <<vars, receives, current, shutdown>>

\* Malformed envelopes and unknown job types are left to the queue.
LeaveToDLQ(w, m) ==
    /\ Take(w, m)
    /\ Body[m] \in {"MALFORMED", "UNSUPPORTED"}
    /\ UNCHANGED <<vars, queueVars, current, shutdown>>

\* Mutant: the message is deleted whatever its handler answered.
SettleAlwaysDeletes(w) ==
    /\ current[w] # None /\ pc[w] \in {"ack", "keep"}
    /\ queue' = Deleted(current[w])
    /\ NoFault
    /\ Respond(w)
    /\ current' = [current EXCEPT ![w] = None]
    /\ UNCHANGED <<store, History, receives, inbox, shutdown>>

\* process_message returned: TRUE deletes the message, and a failing delete is
\* only logged; FALSE leaves it in flight.
Settle(w) ==
    /\ current[w] # None
    /\ \/ /\ pc[w] = "ack"
          /\ queue' = Deleted(current[w])
          /\ NoFault
       \/ /\ pc[w] = "ack"
          /\ Fault
          /\ UNCHANGED queue
       \/ /\ pc[w] = "keep"
          /\ NoFault
          /\ UNCHANGED queue
    /\ Respond(w)
    /\ current' = [current EXCEPT ![w] = None]
    /\ UNCHANGED <<store, History, receives, inbox, shutdown>>

\* SIGTERM or SIGINT.
handle_shutdown_signal(w) ==
    /\ w \in Stoppable /\ shutdown[w] = "no"
    /\ shutdown' = [shutdown EXCEPT ![w] = "requested"]
    /\ UNCHANGED <<vars, queueVars, inbox, current>>

\* Mutant: the loop is only left when its batch is used up.
ExitAfterBatch(w) ==
    /\ shutdown[w] = "requested" /\ current[w] = None /\ inbox[w] = {}
    /\ shutdown' = [shutdown EXCEPT ![w] = "exited"]
    /\ UNCHANGED <<vars, queueVars, inbox, current>>

\* The loop sees the flag between two messages; the rest of the batch is dropped.
Exit(w) ==
    /\ shutdown[w] = "requested" /\ current[w] = None
    /\ shutdown' = [shutdown EXCEPT ![w] = "exited"]
    /\ inbox' = [inbox EXCEPT ![w] = {}]
    /\ UNCHANGED <<vars, queueVars, current>>

\* The process dies with its batch and is started again.
WorkerCrash(w) ==
    /\ inbox[w] # {} \/ current[w] # None
    /\ Crash(w)
    /\ inbox' = [inbox EXCEPT ![w] = {}]
    /\ current' = [current EXCEPT ![w] = None]
    /\ UNCHANGED <<queueVars, shutdown>>

-----------------------------------------------------------------------------

WorkerStep(w) == (AsyncStep(w) \/ CommonStep(w)) /\ UNCHANGED <<queueVars, loopVars>>

\* The web application and the passing of time do not see the queue.
Elsewhere ==
    /\ \/ \E p \in Callers, a \in Actions, fp \in Fingerprints, exempt \in BOOLEAN :
             StartSync(p, a, fp, exempt)
       \/ \E p \in Callers : SyncStep(p) \/ CommonStep(p) \/ Crash(p)
       \/ \E a \in Actions, fp \in Fingerprints, exempt \in BOOLEAN : CreateDeferred(a, fp, exempt)
       \/ \E a \in Actions : LeaseExpires(a)
    /\ UNCHANGED <<queueVars, loopVars>>

Loop(w) ==
    \/ \E batch \in SUBSET Messages : Receive(w, batch)
    \/ \E m \in Messages : HandleRemediation(w, m) \/ HandleHealthCheck(w, m) \/ LeaveToDLQ(w, m)
    \/ Settle(w) \/ Exit(w)

LoopNext ==
    \/ \E m \in Messages : Send(m) \/ Redeliver(m)
    \/ \E w \in Workers : Loop(w) \/ WorkerStep(w) \/ handle_shutdown_signal(w) \/ WorkerCrash(w)
    \/ Elsewhere

LoopSpec == LoopInit /\ [][LoopNext]_allVars

\* A live worker keeps running; time passes, so leases and visibility timeouts
\* run out.  Producers, signals, failures and crashes are not fair.
Fairness ==
    /\ \A w \in Workers : WF_allVars(Loop(w)) /\ WF_allVars(WorkerStep(w))
    /\ \A a \in Actions : WF_allVars(LeaseExpires(a) /\ UNCHANGED <<queueVars, loopVars>>)
    /\ \A m \in Messages : WF_allVars(Redeliver(m))

FairLoopSpec == LoopSpec /\ Fairness

-----------------------------------------------------------------------------
(***************************************************************************)
(* Properties.                                                             *)
(***************************************************************************)

\* The loop's variables keep their shape, and a handler runs exactly for the
\* worker's current message: process_async is busy with the action the message
\* names and with no other.
LoopTypeOK ==
    /\ TypeOK
    /\ queue \in [Messages -> {"unsent", "visible", "inflight", "deleted", "dlq"}]
    /\ receives \in [Messages -> Nat]
    /\ inbox \in [Workers -> SUBSET Messages]
    /\ current \in [Workers -> Messages \cup {None}]
    /\ shutdown \in [Workers -> {"no", "requested", "exited"}]
    /\ \A w \in Workers :
          IF current[w] = None THEN pc[w] = "idle"
                               ELSE pc[w] # "idle" /\ ctx[w].action = Body[current[w]]

\* A message is deleted only when it was dealt with: a REMEDIATION message
\* never before its action was at least claimed, and, as long as nothing has
\* failed, never before its action is finished; a malformed or unsupported
\* message never.
DeletedMeansHandled ==
    \A m \in Messages : queue[m] = "deleted" =>
        /\ Body[m] \notin {"MALFORMED", "UNSUPPORTED"}
        /\ Body[m] \in Actions =>
              /\ status[Body[m]] \notin {"ABSENT", "PENDING"}
              /\ faults = 0 => status[Body[m]] \in Terminal

\* An action that exists when its message is queued is driven to a terminal
\* status by the redeliveries of that message.
ActionsFinish ==
    \A m \in Messages : Body[m] \in Actions =>
        (queue[m] = "visible" /\ receives[m] = 0 /\ status[Body[m]] # "ABSENT")
            ~> status[Body[m]] \in Terminal

\* A malformed message does not circulate for ever: it ends in the DLQ.
PoisonEndsInDLQ ==
    \A m \in Messages : Body[m] = "MALFORMED" => queue[m] = "visible" ~> queue[m] = "dlq"

\* A worker that was told to stop does stop.
ShutdownCompletes ==
    \A w \in Workers : shutdown[w] = "requested" ~> shutdown[w] = "exited"

\* The AWS mutation succeeded and the state update failed: the action still
\* reaches a terminal status in the end.
LostUpdateRecovers ==
    \A w \in Workers, a \in Actions :
        (/\ pc[w] = "auditEnd" /\ ctx[w].action = a
         /\ ctx[w].outcome = "COMPLETED" /\ status[a] = "IN_PROGRESS")
            ~> status[a] \in Terminal
=============================================================================
