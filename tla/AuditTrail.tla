------------------------------ MODULE AuditTrail ------------------------------
(***************************************************************************)
(* The audit trail: the bounded queue and the worker goroutine of          *)
(* internal/usecase/audit/service.go, the table audit_log, and the end of  *)
(* the process in internal/app/app.go.                                     *)
(*                                                                         *)
(* An event is the number of the LogAsync call that reported it, so that   *)
(* the order of the calls can be compared with the order of the rows.      *)
(* Numbers go on after a restart; the queue does not.                      *)
(***************************************************************************)
EXTENDS Naturals, Sequences, SequencesExt

CONSTANTS
    MaxEvents,   \* bounds the calls of LogAsync
    QueueSize,   \* queueSize, 512 in the code
    Faults       \* inserts may fail or time out, and the process may die

ASSUME BoundsAssumption == MaxEvents \in Nat /\ QueueSize \in Nat \ {0}
ASSUME FaultsAssumption == Faults \in BOOLEAN

VARIABLES
    queue,       \* the buffered channel
    pc,          \* where the worker is
    hand,        \* the event insertWithRetry is at work on, 0 when there is none
    attempt,     \* the attempts insertWithRetry has made for it
    table,       \* audit_log, in the order of created_at
    phase,       \* how far Run has come
    logged,      \* history: the calls of LogAsync so far
    warned,      \* history: the events whose loss was logged as a warning
    gone         \* history: the events that a process took with it

workerVars == <<pc, hand, attempt>>
vars == <<queue, pc, hand, attempt, table, phase, logged, warned, gone>>

\* "serve": serve waits for a signal.  "closed": the deferred pool.Close() has
\* run.  "cancelled": the deferred cancel() has run, the last before Run
\* returns and the process exits.
Phases == {"serve", "shutdown", "closed", "cancelled", "exited"}

\* "select" and "insert": the loop of worker.  "drain" and "drain.insert": its
\* inner loop, after ctx.Done().
Points == {"select", "insert", "drain", "drain.insert", "returned"}

Delays == 3  \* the length of delays in insertWithRetry

Up == phase # "exited"

Init ==
    /\ queue = <<>>
    /\ pc = "select"
    /\ hand = 0
    /\ attempt = 0
    /\ table = <<>>
    /\ phase = "serve"
    /\ logged = 0
    /\ warned = {}
    /\ gone = {}

-----------------------------------------------------------------------------
\* LogAsync

\* Faulty variant: the oldest event makes room, without a warning.
LogAsyncEvicting ==
    /\ Up /\ logged < MaxEvents
    /\ logged' = logged + 1
    /\ queue' = IF Len(queue) < QueueSize THEN Append(queue, logged + 1)
                ELSE Append(Tail(queue), logged + 1)
    /\ UNCHANGED <<workerVars, table, phase, warned, gone>>

\* A handler may still be running after srv.Shutdown has timed out.
LogAsync ==
    /\ Up /\ logged < MaxEvents
    /\ logged' = logged + 1
    /\ IF Len(queue) < QueueSize
       THEN queue' = Append(queue, logged + 1) /\ UNCHANGED warned
       ELSE warned' = warned \cup {logged + 1} /\ UNCHANGED queue
    /\ UNCHANGED <<workerVars, table, phase, gone>>

-----------------------------------------------------------------------------
\* The worker

Take(label) ==
    /\ queue # <<>>
    /\ hand' = Head(queue)
    /\ queue' = Tail(queue)
    /\ attempt' = 0
    /\ pc' = label

\* The two cases of the outer select; Go chooses when both are ready.
Receive ==
    /\ Up /\ pc = "select"
    /\ Take("insert")
    /\ UNCHANGED <<table, phase, logged, warned, gone>>

Done ==
    /\ Up /\ pc = "select"
    /\ phase = "cancelled"
    /\ pc' = "drain"
    /\ UNCHANGED <<queue, hand, attempt, table, phase, logged, warned, gone>>

Drain ==
    /\ Up /\ pc = "drain"
    /\ \/ Take("drain.insert")
       \/ queue = <<>> /\ pc' = "returned" /\ UNCHANGED <<queue, hand, attempt>>
    /\ UNCHANGED <<table, phase, logged, warned, gone>>

\* insertWithRetry returns to the loop it was called from.
Return ==
    /\ pc' = IF pc = "insert" THEN "select" ELSE "drain"
    /\ hand' = 0
    /\ attempt' = 0

\* Faulty variant: an event that could not be inserted goes to the end of the
\* queue.
RetryLater ==
    /\ pc' = IF pc = "insert" THEN "select" ELSE "drain"
    /\ queue' = Append(queue, hand)
    /\ hand' = 0
    /\ attempt' = 0
    /\ UNCHANGED warned

\* Faulty variant: the worker ends with the event it gives up.
RetryThenReturn ==
    /\ IF attempt + 1 < Delays
       THEN attempt' = attempt + 1 /\ UNCHANGED <<pc, hand, warned>>
       ELSE /\ pc' = "returned"
            /\ hand' = 0
            /\ attempt' = 0
            /\ warned' = warned \cup {hand}
    /\ UNCHANGED queue

\* After an error: the next attempt, or the warning after the last one.
Retry ==
    /\ IF attempt + 1 < Delays
       THEN attempt' = attempt + 1 /\ UNCHANGED <<pc, hand, warned>>
       ELSE Return /\ warned' = warned \cup {hand}
    /\ UNCHANGED queue

\* One attempt.  A closed pool refuses it; a timeout may strike before the
\* row is inserted or after.
Insert ==
    /\ Up /\ pc \in {"insert", "drain.insert"}
    /\ \/ /\ phase \in {"serve", "shutdown"}
          /\ table' = Append(table, hand)
          /\ Return
          /\ UNCHANGED <<queue, warned>>
       \/ Faults /\ phase \in {"serve", "shutdown"} /\ table' = Append(table, hand) /\ Retry
       \/ (Faults \/ phase \in {"closed", "cancelled"}) /\ UNCHANGED table /\ Retry
    /\ UNCHANGED <<phase, logged, gone>>

Worker == Receive \/ Done \/ Drain \/ Insert

-----------------------------------------------------------------------------
\* The process

\* SIGINT or SIGTERM, then srv.Shutdown.
Signal == phase = "serve" /\ phase' = "shutdown"

\* Run returns: its deferred calls run last in, first out.
ClosePool == phase = "shutdown" /\ phase' = "closed"
Cancel == phase = "closed" /\ phase' = "cancelled"

Stop ==
    /\ Signal \/ ClosePool \/ Cancel
    /\ UNCHANGED <<queue, workerVars, table, logged, warned, gone>>

\* The process is over, after Run or because it was killed: main waits for no
\* goroutine.
Exit ==
    /\ phase = "cancelled" \/ (Faults /\ Up)
    /\ phase' = "exited"
    /\ gone' = gone \cup {e \in ToSet(queue) \cup {hand} : e # 0 /\ e \notin ToSet(table)}
    /\ UNCHANGED <<queue, workerVars, table, logged, warned>>

\* A new process: NewService and Start.
Restart ==
    /\ phase = "exited"
    /\ phase' = "serve"
    /\ queue' = <<>>
    /\ pc' = "select"
    /\ hand' = 0
    /\ attempt' = 0
    /\ UNCHANGED <<table, logged, warned, gone>>

Next == LogAsync \/ Worker \/ Stop \/ Exit \/ Restart

Spec == Init /\ [][Next]_vars

\* The goroutine is scheduled.  A process need not ever stop; once it does,
\* srv.Shutdown returns by its timeout and nothing else waits, and the process
\* is started again.
Fairness ==
    /\ WF_vars(Worker)
    /\ WF_vars(phase # "serve" /\ Stop)
    /\ WF_vars(phase = "cancelled" /\ Exit)
    /\ WF_vars(Restart)

FairSpec == Spec /\ Fairness

-----------------------------------------------------------------------------
\* Properties

Events == 1..MaxEvents

\* Every variable has its type, and the queue its capacity.
TypeOK ==
    /\ queue \in Seq(Events) /\ Len(queue) <= QueueSize
    /\ pc \in Points
    /\ hand \in Events \cup {0}
    /\ attempt \in 0..(Delays - 1)
    /\ table \in Seq(Events)
    /\ phase \in Phases
    /\ logged \in 0..MaxEvents
    /\ warned \subseteq Events
    /\ gone \subseteq Events

\* The trail reads in the order in which the events were reported, through
\* failed attempts, drops, stops and restarts: a row is never older than the
\* row before it.  An event is recorded more than once only when an insert timed
\* out, and then at most once for each attempt of insertWithRetry: the copies of
\* an event follow one another, and a row differs from the one Copies after it.
Copies == IF Faults THEN Delays ELSE 1
TrailInOrder ==
    /\ \A i, j \in 1..Len(table) : i < j => table[i] <= table[j]
    /\ \A i \in 1..Len(table) : i + Copies <= Len(table) => table[i] # table[i + Copies]

\* No event disappears while its process is up: it is in the queue, with the
\* worker, in the table, or a warning was logged (service.go:64 and :87).
NothingLostSilently ==
    \A e \in 1..logged :
        \/ e \in ToSet(queue) \cup {hand} \cup ToSet(table)
        \/ e \in warned \cup gone

\* Every reported event is settled in the end: recorded, given up with a
\* warning, or lost with its process.  The worker never gets stuck on one.
EventSettled ==
    \A e \in Events : logged >= e ~> e \in ToSet(table) \cup warned \cup gone

\* What the code does not keep

\* service.go:39: the worker "drains any queued events before returning":
\* without faults, no process takes an event with it.
ShutdownDrains == ~Faults => gone = {}
=============================================================================
