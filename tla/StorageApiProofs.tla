---------------------------- MODULE StorageApiProofs ----------------------------
(***************************************************************************)
(* Proofs about AuditTrail, for any capacity of the queue, any number of   *)
(* events, and any sequence of failed inserts, stops and restarts, and     *)
(* about StorageApi, for any finite number of files, folders and requests  *)
(* of the owner, any shares and requests of their recipients, and any      *)
(* failures.                                                               *)
(*                                                                         *)
(* The handlers leave the audit trail to AuditTrail, so what is proved of  *)
(* that module holds in StorageApi too.  On top of it, a claim that was    *)
(* made is reported before it is answered (ReportInv).  The last part is   *)
(* about an owner who waits for each answer: StoryInv says what the claims *)
(* tell of the things, QueueInv in which order they are reported.          *)
(***************************************************************************)
EXTENDS StorageApi, FiniteSetTheorems, WellFoundedInduction, TLAPS

-----------------------------------------------------------------------------
\* The audit trail

\* The worker has an event in hand exactly while it inserts.
WorkerInv ==
    /\ pc \in {"insert", "drain.insert"} <=> hand # 0
    /\ hand = 0 => attempt = 0

TypeInv == TypeOK /\ WorkerInv

\* Table, hand and queue hold the events in the order of their numbers.  At the
\* end of the table there may be copies of the event in hand, one for each
\* attempt that timed out after the insert.
Spare == IF Faults THEN attempt ELSE 0
OrderInv ==
    /\ hand <= logged
    /\ \A j \in 1..Len(queue) : hand < queue[j] /\ queue[j] <= logged
    /\ \A i, j \in 1..Len(queue) : i < j => queue[i] < queue[j]
    /\ \A i \in 1..Len(table) :
        /\ table[i] <= logged
        /\ \A j \in 1..Len(queue) : table[i] < queue[j]
        /\ hand # 0 => table[i] <= hand
        /\ hand # 0 /\ i + Spare <= Len(table) => table[i] < hand
    /\ TrailInOrder

\* What a process that is over had not recorded is counted as gone with it.
LossInv ==
    /\ NothingLostSilently
    /\ phase = "exited" =>
        \A e \in ToSet(queue) \cup {hand} : e # 0 => e \in ToSet(table) \cup gone

-----------------------------------------------------------------------------
\* Sequences

\* What Append does to a sequence.
LEMMA AppendFacts ==
    ASSUME NEW S, NEW s \in Seq(S), NEW x \in S
    PROVE  /\ Append(s, x) \in Seq(S)
           /\ Len(s) \in Nat /\ Len(Append(s, x)) = Len(s) + 1
           /\ \A i \in 1..Len(s) : Append(s, x)[i] = s[i]
           /\ Append(s, x)[Len(s) + 1] = x
  OBVIOUS

\* What taking the head off does to a sequence.
LEMMA TailFacts ==
    ASSUME NEW S, NEW s \in Seq(S), s # <<>>
    PROVE  /\ Head(s) = s[1] /\ Head(s) \in S
           /\ Tail(s) \in Seq(S)
           /\ Len(s) \in Nat \ {0} /\ Len(Tail(s)) = Len(s) - 1
           /\ \A i \in 1..(Len(s) - 1) : Tail(s)[i] = s[i + 1]
  OBVIOUS

\* The elements of a sequence.
LEMMA ToSetFacts ==
    ASSUME NEW S, NEW s \in Seq(S)
    PROVE  ToSet(s) = {s[i] : i \in 1..Len(s)}
  BY DEF ToSet

\* Appending an element adds it and keeps the others.
LEMMA AppendSet ==
    ASSUME NEW S, NEW s \in Seq(S), NEW x \in S
    PROVE  ToSet(Append(s, x)) = ToSet(s) \cup {x}
<1>1. ToSet(Append(s, x)) = {Append(s, x)[i] : i \in 1..(Len(s) + 1)}
  <2>1. Append(s, x) \in Seq(S) /\ Len(Append(s, x)) = Len(s) + 1
    BY AppendFacts
  <2>2. ToSet(Append(s, x)) = {Append(s, x)[i] : i \in 1..Len(Append(s, x))}
    BY <2>1, ToSetFacts
  <2>3. QED
    BY <2>1, <2>2
<1>2. ToSet(s) = {s[i] : i \in 1..Len(s)}
  BY ToSetFacts
<1>3. /\ Len(s) \in Nat
      /\ \A i \in 1..Len(s) : Append(s, x)[i] = s[i]
      /\ Append(s, x)[Len(s) + 1] = x
  BY AppendFacts
<1>4. 1..(Len(s) + 1) = 1..Len(s) \cup {Len(s) + 1}
  BY <1>3
<1>5. QED
  BY <1>1, <1>2, <1>3, <1>4

\* Taking the head off leaves the rest.
LEMMA TailSet ==
    ASSUME NEW S, NEW s \in Seq(S), s # <<>>
    PROVE  ToSet(s) = {Head(s)} \cup ToSet(Tail(s))
<1>1. /\ Tail(s) \in Seq(S) /\ Len(Tail(s)) = Len(s) - 1 /\ Head(s) = s[1]
      /\ \A i \in 1..(Len(s) - 1) : Tail(s)[i] = s[i + 1]
      /\ Len(s) \in Nat /\ Len(s) >= 1
  BY TailFacts
<1>2. ToSet(Tail(s)) = {Tail(s)[i] : i \in 1..(Len(s) - 1)}
  BY <1>1, ToSetFacts
<1>3. ToSet(s) = {s[i] : i \in 1..Len(s)}
  BY ToSetFacts
<1>4. \A i \in 1..Len(s) : i = 1 \/ (i - 1 \in 1..(Len(s) - 1) /\ s[i] = Tail(s)[i - 1])
  BY <1>1
<1>5. \A i \in 1..(Len(s) - 1) : i + 1 \in 1..Len(s) /\ Tail(s)[i] = s[i + 1]
  BY <1>1
<1>6. 1 \in 1..Len(s)
  BY <1>1
<1>7. ASSUME NEW x \in ToSet(s) PROVE x \in {Head(s)} \cup ToSet(Tail(s))
  <2>1. PICK i \in 1..Len(s) : x = s[i]
    BY <1>3
  <2>2. CASE i = 1
    BY <1>1, <2>1, <2>2
  <2>3. CASE i # 1
    BY <1>2, <1>4, <2>1, <2>3
  <2>4. QED
    BY <2>2, <2>3
<1>8. ASSUME NEW x \in {Head(s)} \cup ToSet(Tail(s)) PROVE x \in ToSet(s)
  <2>1. CASE x = Head(s)
    BY <1>1, <1>3, <1>6, <2>1
  <2>2. CASE x \in ToSet(Tail(s))
    BY <1>2, <1>3, <1>5, <2>2
  <2>3. QED
    BY <2>1, <2>2
<1>9. QED
  BY <1>7, <1>8

-----------------------------------------------------------------------------
\* Types

\* The initial state is well typed.
LEMMA InitTypeInv == Init => TypeInv
  BY BoundsAssumption DEF Init, TypeInv, TypeOK, WorkerInv, Points, Phases, Delays, Events

\* Every step keeps the types, and the queue its capacity.
LEMMA NextTypeInv == TypeInv /\ [Next]_vars => TypeInv'
<1> SUFFICES ASSUME TypeInv, [Next]_vars PROVE TypeInv'
  OBVIOUS
<1> USE BoundsAssumption
<1> USE DEF TypeInv, TypeOK, WorkerInv, Points, Phases, Delays, Events, workerVars
<1>e. Events \subseteq Nat \ {0}
  OBVIOUS
<1>1. CASE LogAsync
  <2>1. logged + 1 \in Events /\ logged' = logged + 1
    BY <1>1 DEF LogAsync
  <2> HIDE DEF Events
  <2>2. CASE Len(queue) < QueueSize
    <3>1. queue' = Append(queue, logged + 1) /\ warned' = warned
      BY <1>1, <2>2 DEF LogAsync
    <3>2. queue' \in Seq(Events) /\ Len(queue') <= QueueSize
      <4>1. queue \in Seq(Events)
        OBVIOUS
      <4>2. /\ Append(queue, logged + 1) \in Seq(Events) /\ Len(queue) \in Nat
            /\ Len(Append(queue, logged + 1)) = Len(queue) + 1
        BY <2>1, <4>1, AppendFacts
      <4>3. QED
        BY <2>2, <3>1, <4>2
    <3>3. logged' \in 0..MaxEvents
      BY <1>1, <2>1 DEF LogAsync
    <3>4. QED
      BY <1>1, <3>1, <3>2, <3>3 DEF LogAsync
  <2>3. CASE ~(Len(queue) < QueueSize)
    BY <1>1, <2>1, <2>3 DEF LogAsync
  <2>4. QED
    BY <2>2, <2>3
<1> HIDE DEF Events
<1>2. CASE Receive
  BY <1>2, <1>e, TailFacts DEF Receive, Take
<1>3. CASE Done
  BY <1>3 DEF Done
<1>4. CASE Drain
  <2>1. CASE Take("drain.insert")
    BY <1>4, <1>e, <2>1, TailFacts DEF Drain, Take
  <2>2. CASE pc' = "returned" /\ UNCHANGED <<queue, hand, attempt>>
    BY <1>4, <2>2 DEF Drain
  <2>3. QED
    BY <1>4, <2>1, <2>2 DEF Drain
<1>5. CASE Insert
  <2>1. hand \in Events
    BY <1>5 DEF Insert
  <2>2. table' \in Seq(Events)
    <3>1. Append(table, hand) \in Seq(Events)
      BY <2>1, AppendFacts
    <3>2. table' \in {table, Append(table, hand)}
      BY <1>5 DEF Insert
    <3>3. QED
      BY <3>1, <3>2
  <2>3. UNCHANGED <<phase, logged, gone>> /\ pc \in {"insert", "drain.insert"}
    BY <1>5 DEF Insert
  <2>4. CASE Return /\ UNCHANGED <<queue, warned>>
    BY <2>2, <2>3, <2>4 DEF Return
  <2>5. CASE Retry
    <3>1. CASE attempt + 1 < Delays
      BY <2>1, <2>2, <2>3, <2>5, <3>1 DEF Retry
    <3>2. CASE ~(attempt + 1 < Delays)
      BY <2>1, <2>2, <2>3, <2>5, <3>2 DEF Retry, Return
    <3>3. QED
      BY <3>1, <3>2
  <2>6. QED
    BY <1>5, <2>4, <2>5 DEF Insert
<1>6. CASE Stop
  BY <1>6 DEF Stop, Signal, ClosePool, Cancel
<1>7. CASE Exit
  <2>1. ToSet(queue) \subseteq Events
    BY ToSetFacts
  <2>2. QED
    BY <1>7, <2>1 DEF Exit
<1>8. CASE Restart
  BY <1>8 DEF Restart
<1>9. CASE UNCHANGED vars
  BY <1>9 DEF vars
<1>10. QED
  BY <1>1, <1>2, <1>3, <1>4, <1>5, <1>6, <1>7, <1>8, <1>9 DEF Next, Worker

\* Every variable has its type, and the queue never holds more than its
\* capacity.
THEOREM TypeCorrect == Spec => []TypeOK
<1>1. TypeInv => TypeOK
  BY DEF TypeInv
<1>2. QED
  BY <1>1, InitTypeInv, NextTypeInv, PTL DEF Spec

-----------------------------------------------------------------------------
\* The order of the trail

\* Only the end of the table is at stake: a row at least as new as the last,
\* and newer than the one Copies before it, keeps the order.
LEMMA AppendInOrder ==
    ASSUME NEW S, S \subseteq Nat, table \in Seq(S), NEW e \in S, table' = Append(table, e),
           TrailInOrder,
           \A i \in 1..Len(table) : table[i] <= e,
           \A i \in 1..Len(table) : i + Copies = Len(table) + 1 => table[i] < e
    PROVE  TrailInOrder'
<1>1. /\ Len(table) \in Nat /\ Len(table') = Len(table) + 1
      /\ \A i \in 1..Len(table) : table'[i] = table[i]
      /\ table'[Len(table) + 1] = e
  BY AppendFacts
<1>2. Copies \in Nat \ {0} /\ Copies' = Copies
  BY DEF Copies, Delays
<1>3. \A i \in 1..Len(table) : table[i] \in Nat
  <2>1. \A i \in 1..Len(table) : table[i] \in S
    OBVIOUS
  <2>2. QED
    BY <2>1
<1>4. \A i, j \in 1..Len(table') : i < j => table'[i] <= table'[j]
  <2> SUFFICES ASSUME NEW i \in 1..Len(table'), NEW j \in 1..Len(table'), i < j
               PROVE  table'[i] <= table'[j]
    OBVIOUS
  <2>1. i \in 1..Len(table) /\ table'[i] = table[i]
    BY <1>1
  <2>2. CASE j = Len(table) + 1
    BY <1>1, <2>1, <2>2
  <2>3. CASE j \in 1..Len(table)
    BY <1>1, <2>1, <2>3 DEF TrailInOrder
  <2>4. QED
    BY <1>1, <2>2, <2>3
<1>5. ASSUME NEW i \in 1..Len(table'), i + Copies <= Len(table')
      PROVE  table'[i] # table'[i + Copies]
  <2>1. i \in 1..Len(table) /\ table'[i] = table[i]
    BY <1>1, <1>2, <1>5
  <2>2. CASE i + Copies = Len(table) + 1
    <3>1. table[i] < e /\ table'[i + Copies] = e /\ table[i] \in Nat /\ e \in Nat
      BY <1>1, <1>3, <2>1, <2>2
    <3>2. QED
      BY <2>1, <3>1
  <2>3. CASE i + Copies <= Len(table)
    BY <1>1, <1>2, <2>1, <2>3 DEF TrailInOrder
  <2>4. i + Copies = Len(table) + 1 \/ i + Copies <= Len(table)
    <3>1. i + Copies \in Nat /\ Len(table) \in Nat /\ i + Copies <= Len(table) + 1
      BY <1>1, <1>2, <1>5
    <3>2. QED
      BY <3>1
  <2>5. QED
    BY <2>2, <2>3, <2>4
<1>6. QED
  BY <1>2, <1>4, <1>5 DEF TrailInOrder

\* There is no trail at the start.
LEMMA InitOrderInv == Init => OrderInv
  BY DEF Init, OrderInv, TrailInOrder

\* Every step keeps table, hand and queue in the order of the calls.
LEMMA NextOrderInv == TypeInv /\ OrderInv /\ [Next]_vars => OrderInv'
<1> SUFFICES ASSUME TypeInv, OrderInv, [Next]_vars PROVE OrderInv'
  OBVIOUS
<1>t. /\ queue \in Seq(Events) /\ table \in Seq(Events) /\ hand \in Nat /\ logged \in Nat
      /\ Events \subseteq Nat /\ (hand # 0 => hand \in Events)
      /\ Len(queue) \in Nat /\ Len(table) \in Nat /\ attempt \in 0..2
      /\ \A i \in 1..Len(queue) : queue[i] \in Nat
      /\ \A i \in 1..Len(table) : table[i] \in Nat
      /\ Spare \in 0..2
  <2>1. Events \subseteq Nat /\ logged \in Nat
    BY BoundsAssumption DEF TypeInv, TypeOK, Events
  <2>2. queue \in Seq(Events) /\ table \in Seq(Events) /\ hand \in Events \cup {0}
        /\ attempt \in 0..2
    BY DEF TypeInv, TypeOK, Delays
  <2>3. /\ \A i \in 1..Len(queue) : queue[i] \in Events
        /\ \A i \in 1..Len(table) : table[i] \in Events
    BY <2>2
  <2>4. Len(queue) \in Nat /\ Len(table) \in Nat
    BY <2>2
  <2>5. Spare \in 0..2
    BY <2>2 DEF Spare
  <2>6. hand \in Nat /\ (hand # 0 => hand \in Events)
    BY <2>1, <2>2
  <2>7. /\ \A i \in 1..Len(queue) : queue[i] \in Nat
        /\ \A i \in 1..Len(table) : table[i] \in Nat
    BY <2>1, <2>3
  <2>8. QED
    BY <2>1, <2>2, <2>4, <2>5, <2>6, <2>7
<1>w. hand = 0 <=> pc \notin {"insert", "drain.insert"}
  BY DEF TypeInv, WorkerInv
\* A step that leaves the table alone leaves its order alone.
<1>s. ASSUME table' = table PROVE TrailInOrder'
  BY <1>s DEF OrderInv, TrailInOrder, Copies
\* A step that takes the oldest event of the queue in hand.
<1>h. ASSUME queue # <<>>, hand' = Head(queue), queue' = Tail(queue), attempt' = 0,
             hand = 0, UNCHANGED <<table, logged>>
      PROVE  OrderInv'
  <2>1. /\ hand' = queue[1] /\ Len(queue) >= 1 /\ Len(queue') = Len(queue) - 1
        /\ \A i \in 1..Len(queue') : i + 1 \in 1..Len(queue) /\ queue'[i] = queue[i + 1]
    BY <1>t, <1>h, TailFacts
  <2>2. hand' \in Nat /\ hand' <= logged'
    BY <1>t, <1>h, <2>1 DEF OrderInv
  <2>3. \A j \in 1..Len(queue') : hand' < queue'[j] /\ queue'[j] <= logged'
    BY <1>t, <1>h, <2>1 DEF OrderInv
  <2>4. ASSUME NEW i \in 1..Len(queue'), NEW j \in 1..Len(queue'), i < j
        PROVE  queue'[i] < queue'[j]
    <3>1. i + 1 \in 1..Len(queue) /\ j + 1 \in 1..Len(queue) /\ i + 1 < j + 1
      BY <1>t, <2>1, <2>4
    <3>2. queue[i + 1] < queue[j + 1]
      BY <3>1 DEF OrderInv
    <3>3. QED
      BY <2>1, <3>2
  <2>5. ASSUME NEW i \in 1..Len(table')
        PROVE  /\ table'[i] <= logged'
               /\ \A j \in 1..Len(queue') : table'[i] < queue'[j]
               /\ table'[i] < hand' /\ table'[i] <= hand'
    BY <1>t, <1>h, <2>1 DEF OrderInv
  <2>6. QED
    BY <1>h, <1>s, <2>2, <2>3, <2>4, <2>5 DEF OrderInv
<1>1. CASE LogAsync
  <2>1. /\ UNCHANGED <<hand, attempt, table>> /\ logged' = logged + 1
        /\ queue' = queue \/ queue' = Append(queue, logged + 1)
    BY <1>1 DEF LogAsync, workerVars
  <2>2. CASE queue' = queue
    BY <1>t, <1>s, <2>1, <2>2 DEF OrderInv, Spare
  <2>3. CASE queue' = Append(queue, logged + 1)
    <3>0. logged + 1 \in Events
      BY <1>1, <1>t, BoundsAssumption DEF LogAsync, Events
    <3>1. /\ Len(queue') = Len(queue) + 1
          /\ \A i \in 1..Len(queue) : queue'[i] = queue[i]
          /\ queue'[Len(queue) + 1] = logged + 1
      BY <1>t, <2>3, <3>0, AppendFacts
    <3>2. \A j \in 1..Len(queue') :
             \/ j \in 1..Len(queue) /\ queue'[j] = queue[j]
             \/ j = Len(queue) + 1 /\ queue'[j] = logged + 1
      BY <1>t, <3>1
    <3>3. hand' <= logged'
      BY <1>t, <2>1 DEF OrderInv
    <3>4. \A j \in 1..Len(queue') : hand' < queue'[j] /\ queue'[j] <= logged'
      BY <1>t, <2>1, <3>2 DEF OrderInv
    <3>5. ASSUME NEW i \in 1..Len(queue'), NEW j \in 1..Len(queue'), i < j
          PROVE  queue'[i] < queue'[j]
      <4>1. i \in 1..Len(queue) /\ queue'[i] = queue[i]
        BY <1>t, <3>1, <3>5
      <4>2. CASE j = Len(queue) + 1
        <5>1. queue[i] <= logged /\ queue[i] \in Nat
          BY <1>t, <4>1 DEF OrderInv
        <5>2. QED
          BY <1>t, <3>1, <4>1, <4>2, <5>1
      <4>3. CASE j \in 1..Len(queue)
        BY <3>1, <3>5, <4>1, <4>3 DEF OrderInv
      <4>4. QED
        BY <3>2, <4>2, <4>3
    <3>6. ASSUME NEW i \in 1..Len(table')
          PROVE  /\ table'[i] <= logged'
                 /\ \A j \in 1..Len(queue') : table'[i] < queue'[j]
                 /\ hand' # 0 => table'[i] <= hand'
                 /\ hand' # 0 /\ i + Spare' <= Len(table') => table'[i] < hand'
      <4>1. i \in 1..Len(table) /\ table'[i] = table[i] /\ Spare' = Spare
        BY <2>1 DEF Spare
      <4>2. table[i] <= logged /\ table[i] \in Nat
        BY <1>t, <4>1 DEF OrderInv
      <4>3. table'[i] <= logged'
        BY <1>t, <2>1, <4>1, <4>2
      <4>4. ASSUME NEW j \in 1..Len(queue') PROVE table'[i] < queue'[j]
        <5>1. CASE j \in 1..Len(queue) /\ queue'[j] = queue[j]
          BY <4>1, <5>1 DEF OrderInv
        <5>2. CASE queue'[j] = logged + 1
          BY <1>t, <4>1, <4>2, <5>2
        <5>3. QED
          BY <3>2, <5>1, <5>2
      <4>5. QED
        BY <2>1, <4>1, <4>3, <4>4 DEF OrderInv
    <3>7. QED
      BY <1>s, <2>1, <3>3, <3>4, <3>5, <3>6 DEF OrderInv
  <2>4. QED
    BY <2>1, <2>2, <2>3
<1>2. CASE Receive
  BY <1>2, <1>w, <1>h DEF Receive, Take
<1>3. CASE Drain
  <2>1. CASE Take("drain.insert")
    BY <1>3, <1>w, <1>h, <2>1 DEF Drain, Take
  <2>2. CASE UNCHANGED <<queue, hand, attempt>>
    BY <1>3, <1>s, <2>2 DEF Drain, OrderInv, Spare
  <2>3. QED
    BY <1>3, <2>1, <2>2 DEF Drain
<1>4. CASE Insert
  <2>1. hand # 0 /\ UNCHANGED <<queue, logged>>
    BY <1>4, <1>w DEF Insert, Retry
  <2>2. ASSUME table' = Append(table, hand) PROVE TrailInOrder'
    <3>1. \A i \in 1..Len(table) : table[i] <= hand
      BY <2>1 DEF OrderInv
    <3>2. \A i \in 1..Len(table) : i + Copies = Len(table) + 1 => i + Spare <= Len(table)
      BY <1>t DEF Copies, Spare, Delays
    <3>3. \A i \in 1..Len(table) : i + Copies = Len(table) + 1 => table[i] < hand
      BY <2>1, <3>2 DEF OrderInv
    <3>4. TrailInOrder
      BY DEF OrderInv
    <3>5. PICK e \in Events : e = hand
      BY <1>t, <2>1
    <3>6. /\ \A i \in 1..Len(table) : table[i] <= e
          /\ \A i \in 1..Len(table) : i + Copies = Len(table) + 1 => table[i] < e
          /\ table' = Append(table, e)
      BY <2>2, <3>1, <3>3, <3>5
    <3>7. QED
      BY <1>t, <3>4, <3>6, AppendInOrder
  <2>3. /\ table' = table \/ table' = Append(table, hand)
        /\ TrailInOrder'
    BY <1>4, <1>s, <2>2 DEF Insert
  <2>4. \A i \in 1..Len(table') :
           \/ i \in 1..Len(table) /\ table'[i] = table[i]
           \/ i = Len(table) + 1 /\ table' = Append(table, hand) /\ table'[i] = hand
    <3>1. CASE table' = table
      BY <3>1
    <3>2. CASE table' = Append(table, hand)
      <4>1. /\ Len(table') = Len(table) + 1 /\ table'[Len(table) + 1] = hand
            /\ \A i \in 1..Len(table) : table'[i] = table[i]
        BY <1>t, <2>1, <3>2, AppendFacts
      <4>2. \A i \in 1..Len(table') : i \in 1..Len(table) \/ i = Len(table) + 1
        BY <1>t, <4>1
      <4>3. QED
        BY <3>2, <4>1, <4>2
    <3>3. QED
      BY <2>3, <3>1, <3>2
  <2>5. \A i \in 1..Len(table') : table'[i] \in Nat /\ table'[i] <= hand
    BY <1>t, <2>1, <2>4 DEF OrderInv
  <2>6. ASSUME NEW i \in 1..Len(table')
        PROVE  /\ table'[i] <= logged'
               /\ \A j \in 1..Len(queue') : table'[i] < queue'[j]
    BY <1>t, <2>1, <2>5 DEF OrderInv
  <2>7. CASE hand' = 0
    <3>1. hand' <= logged'
      BY <1>t, <2>1, <2>7
    <3>2. \A j \in 1..Len(queue') : hand' < queue'[j] /\ queue'[j] <= logged'
      BY <1>t, <2>1, <2>7 DEF OrderInv
    <3>3. \A i, j \in 1..Len(queue') : i < j => queue'[i] < queue'[j]
      BY <2>1 DEF OrderInv
    <3>4. QED
      BY <2>3, <2>6, <2>7, <3>1, <3>2, <3>3 DEF OrderInv
  <2>8. CASE hand' = hand /\ attempt' = attempt + 1 /\ (table' = table \/ Faults)
    <3>1. ASSUME NEW i \in 1..Len(table'), i + Spare' <= Len(table')
          PROVE  table'[i] < hand
      <4>1. CASE table' = table
        <5>1. i + Spare <= Len(table)
          BY <1>t, <2>8, <3>1, <4>1 DEF Spare
        <5>2. QED
          BY <2>1, <4>1, <5>1 DEF OrderInv
      <4>2. CASE table' = Append(table, hand) /\ Faults
        <5>1. Len(table') = Len(table) + 1 /\ Spare' = attempt + 1 /\ Spare = attempt
          BY <1>t, <2>1, <2>8, <4>2, AppendFacts DEF Spare
        <5>2. i \in 1..Len(table) /\ i + Spare <= Len(table)
          BY <1>t, <3>1, <5>1
        <5>3. table'[i] = table[i]
          BY <1>t, <2>4, <5>2
        <5>4. QED
          BY <2>1, <5>2, <5>3 DEF OrderInv
      <4>3. QED
        BY <2>3, <2>8, <4>1, <4>2
    <3>2. QED
      BY <2>1, <2>3, <2>5, <2>6, <2>8, <3>1 DEF OrderInv
  <2>9. QED
    BY <1>4, <2>7, <2>8 DEF Insert, Return, Retry
<1>5. CASE Restart
  <2>1. hand' = 0 /\ queue' = <<>> /\ Len(queue') = 0 /\ UNCHANGED <<table, logged>>
    BY <1>5 DEF Restart
  <2>2. QED
    BY <1>t, <1>s, <2>1 DEF OrderInv
<1>6. CASE UNCHANGED <<queue, hand, attempt, table, logged>>
  BY <1>s, <1>6 DEF OrderInv, Spare
<1>7. QED
  <2>1. Done \/ Stop \/ Exit \/ UNCHANGED vars => UNCHANGED <<queue, hand, attempt, table, logged>>
    BY DEF Done, Stop, Exit, vars, workerVars
  <2>2. QED
    BY <1>1, <1>2, <1>3, <1>4, <1>5, <1>6, <2>1 DEF Next, Worker

\* The trail reads in the order of the calls of LogAsync, through failed and
\* timed-out inserts, drops, stops and restarts, with at most one copy of an
\* event for each attempt of insertWithRetry.
THEOREM TrailReadsInOrder == Spec => []TrailInOrder
<1>1. OrderInv => TrailInOrder
  BY DEF OrderInv
<1>2. QED
  BY <1>1, InitTypeInv, NextTypeInv, InitOrderInv, NextOrderInv, PTL DEF Spec

-----------------------------------------------------------------------------
\* No event is lost without a trace

\* Nothing was reported at the start.
LEMMA InitLossInv == Init => LossInv
  BY DEF Init, LossInv, NothingLostSilently

\* A step that drops an event from the queue or the hand of the worker records
\* it, warns of it, or is the end of the process.
LEMMA NextLossInv == TypeInv /\ LossInv /\ [Next]_vars => LossInv'
<1> SUFFICES ASSUME TypeInv, LossInv, [Next]_vars PROVE LossInv'
  OBVIOUS
<1>t. /\ queue \in Seq(Events) /\ table \in Seq(Events) /\ logged \in Nat
      /\ hand \in Events \cup {0} /\ (hand = 0 <=> pc \notin {"insert", "drain.insert"})
      /\ Events \subseteq Nat \ {0}
  BY BoundsAssumption DEF TypeInv, TypeOK, WorkerInv, Events
<1>h. ASSUME queue # <<>>, hand' = Head(queue), queue' = Tail(queue), hand = 0,
             UNCHANGED <<table, phase, logged, warned, gone>>, Up
      PROVE  LossInv'
  <2>1. ToSet(queue) = {hand'} \cup ToSet(queue')
    BY <1>t, <1>h, TailSet
  <2>2. 0 \notin 1..logged
    BY <1>t
  <2>3. QED
    BY <1>h, <2>1, <2>2 DEF LossInv, NothingLostSilently, Up
<1>1. CASE LogAsync
  <2>1. /\ UNCHANGED <<hand, table, phase, gone>> /\ Up
        /\ 1..logged' = 1..logged \cup {logged + 1}
    BY <1>1, <1>t DEF LogAsync, workerVars
  <2>2. CASE queue' = Append(queue, logged + 1) /\ UNCHANGED warned
    <3>1. logged + 1 \in Events
      BY <1>1, <1>t, BoundsAssumption DEF LogAsync, Events
    <3>2. ToSet(queue') = ToSet(queue) \cup {logged + 1}
      BY <1>t, <2>2, <3>1, AppendSet
    <3>3. QED
      BY <2>1, <2>2, <3>2 DEF LossInv, NothingLostSilently, Up
  <2>3. CASE warned' = warned \cup {logged + 1} /\ UNCHANGED queue
    BY <2>1, <2>3 DEF LossInv, NothingLostSilently, Up
  <2>4. QED
    BY <1>1, <2>2, <2>3 DEF LogAsync
<1>2. CASE Receive
  BY <1>2, <1>t, <1>h DEF Receive, Take
<1>3. CASE Drain
  <2>1. CASE Take("drain.insert")
    BY <1>3, <1>t, <1>h, <2>1 DEF Drain, Take
  <2>2. CASE UNCHANGED <<queue, hand, attempt>>
    BY <1>3, <2>2 DEF Drain, LossInv, NothingLostSilently
  <2>3. QED
    BY <1>3, <2>1, <2>2 DEF Drain
<1>4. CASE Insert
  <2>1. Up /\ UNCHANGED <<queue, phase, logged, gone>> /\ hand \in Events
    BY <1>4, <1>t DEF Insert, Retry
  <2>2. ToSet(Append(table, hand)) = ToSet(table) \cup {hand}
    BY <1>t, <2>1, AppendSet
  <2>3. \/ hand' = hand /\ warned' = warned
        \/ warned' = warned \cup {hand}
        \/ table' = Append(table, hand) /\ warned' = warned
    BY <1>4 DEF Insert, Return, Retry
  <2>4. table' = table \/ table' = Append(table, hand)
    BY <1>4 DEF Insert
  <2>5. ToSet(table) \subseteq ToSet(table')
    BY <2>2, <2>4
  <2>6. QED
    BY <2>1, <2>2, <2>3, <2>5 DEF LossInv, NothingLostSilently, Up
<1>5. CASE Exit
  BY <1>5, <1>t DEF Exit, workerVars, LossInv, NothingLostSilently
<1>6. CASE Restart
  <2>1. 0 \notin 1..logged
    BY <1>t
  <2>2. /\ phase = "exited" /\ phase' = "serve"
        /\ UNCHANGED <<table, logged, warned, gone>>
    BY <1>6 DEF Restart
  <2>3. QED
    BY <2>1, <2>2 DEF LossInv, NothingLostSilently
<1>7. CASE UNCHANGED <<queue, hand, table, logged, warned, gone>> /\ phase' # "exited"
  BY <1>7 DEF LossInv, NothingLostSilently
<1>8. CASE UNCHANGED vars
  BY <1>8 DEF vars, LossInv, NothingLostSilently
<1>9. QED
  <2>1. Done \/ Stop => UNCHANGED <<queue, hand, table, logged, warned, gone>> /\ phase' # "exited"
    BY DEF Done, Stop, Signal, ClosePool, Cancel, workerVars
  <2>2. QED
    BY <1>1, <1>2, <1>3, <1>4, <1>5, <1>6, <1>7, <1>8, <2>1 DEF Next, Worker

\* No reported event disappears: it is in the queue, with the worker or in the
\* table, a warning was logged, or it went down with its process.
THEOREM LossIsReported == Spec => []NothingLostSilently
<1>1. LossInv => NothingLostSilently
  BY DEF LossInv
<1>2. QED
  BY <1>1, InitTypeInv, NextTypeInv, InitLossInv, NextLossInv, PTL DEF Spec
-----------------------------------------------------------------------------
\* The handlers in front of it

\* A request that has begun to answer has reported all that it did, and one that
\* reports has something left to report.  What it showed or hid, it has made a
\* claim of.  Recipients delete nothing.
ReportInv ==
    \A p \in Reqs :
        /\ req[p].at = "report" => req[p].claims # <<>>
        /\ req[p].at \in {"idle", "hard.row", "answer"} => req[p].claims = <<>>
        /\ req[p].at \in {"idle", "hard.row"} => req[p].made = {} /\ req[p].moved = {}
        /\ req[p].at = "hard.row" => req[p].file \in Files
        /\ p \in GuestReqs => req[p].at \notin {"hard.row", "empty.folders"}
        /\ req[p].made \subseteq ToSet(req[p].claims) \cup ToSet(claimOf)
        /\ \A names \in req[p].moved : \E c \in req[p].made : story[c].on \in names

\* The claims that tell of something are the owner's.
Own(c) == DOMAIN story[c].now # {}
GuestInv == \A p \in GuestReqs : \A c \in ToSet(req[p].claims) : ~Own(c)

\* The last claim that tells of a thing tells where it stands, unless it has been
\* cleaned up since.  A file that is to be deleted for ever stays in the trash
\* until then.
LastClaim(r, c) == c \in ClaimsOn(r) /\ \A d \in ClaimsOn(r) : d <= c
StoryInv ==
    /\ \A r \in Things : \A c \in ClaimsOn(r) :
        /\ state[r] # "none"
        /\ LastClaim(r, c) => state[r] \in {story[c].now[r], "gone"}
    /\ \A p \in Reqs : req[p].at = "hard.row" => state[req[p].file] \in InTrash \cup {"gone"}

\* The owner's claims are reported in the order in which they were made.
QueueInv ==
    /\ \A i, j \in 1..Len(claimOf) :
        i < j /\ Own(claimOf[i]) /\ Own(claimOf[j]) => claimOf[i] < claimOf[j]
    /\ \A p \in OwnerReqs :
        /\ \A j, k \in 1..Len(req[p].claims) : j < k => req[p].claims[j] < req[p].claims[k]
        /\ \A i \in 1..Len(claimOf), k \in 1..Len(req[p].claims) :
            Own(claimOf[i]) => claimOf[i] < req[p].claims[k]

-----------------------------------------------------------------------------
\* The handlers and the audit trail

\* What a handler or a job does to the audit trail is a call of LogAsync or
\* nothing; the rest is the worker and the process.
LEMMA ApiStep == [ApiNext]_allVars => [Next]_vars
<1> SUFFICES ASSUME [ApiNext]_allVars PROVE [Next]_vars
  OBVIOUS
<1>1. CASE UNCHANGED auditVars
  BY <1>1 DEF auditVars, vars
<1>2. ASSUME NEW p, NEW r, NEW S, NEW step, MovedAll(p, r, S, step) PROVE UNCHANGED auditVars
  BY <1>2 DEF MovedAll
<1>2a. ASSUME NEW p, NEW r, NEW step, Moved(p, r, step) \/ Told(p, r) PROVE UNCHANGED auditVars
  BY <1>2, <1>2a DEF Moved, Told
<1>3. ASSUME NEW p \in OwnerReqs, NEW x \in Files,
             \/ storageCompleteMultipart(p, x)
             \/ storageAbortUpload(p, x) \/ storagePresignGet(p, x) \/ renameBlob(p, x)
             \/ storageDeleteBlob(p, x) \/ trashRestoreBlob(p, x) \/ trashDeleteBlob(p, x)
      PROVE  UNCHANGED auditVars
  BY <1>2, <1>2a, <1>3 DEF storageCompleteMultipart, storageAbortUpload,
     storagePresignGet, renameBlob, storageDeleteBlob, trashRestoreBlob, trashDeleteBlob
<1>3a. ASSUME NEW p \in OwnerReqs, NEW x \in Files, NEW f,
              storageInitiateMultipart(p, x, f) \/ moveBlob(p, x, f)
       PROVE  UNCHANGED auditVars
  BY <1>2a, <1>3a DEF storageInitiateMultipart, moveBlob
<1>4. ASSUME NEW p \in OwnerReqs, NEW f \in Folders,
             \/ createFolder(p, f) \/ renameFolder(p, f) \/ moveFolder(p, f)
             \/ deleteFolder(p, f) \/ trashRestoreFolder(p, f) \/ trashDeleteFolder(p, f)
      PROVE  UNCHANGED auditVars
  BY <1>2, <1>2a, <1>4 DEF createFolder, renameFolder, moveFolder, deleteFolder,
     trashRestoreFolder, trashDeleteFolder
<1>5. ASSUME NEW p, NEW s \in Shares,
             createShare(p, s) \/ revokeShare(p, s) \/ getSharedFile(p, s)
      PROVE  UNCHANGED auditVars
  BY <1>2, <1>2a, <1>5 DEF createShare, revokeShare, getSharedFile
<1>6. ASSUME NEW p, trashEmpty(p) PROVE UNCHANGED auditVars
  BY <1>6 DEF trashEmpty
<1>7. ASSUME NEW p, Continue(p) \/ UseCaseFails(p) PROVE LogAsync \/ UNCHANGED auditVars
  BY <1>7 DEF Continue, trashDeleteBlobRow, trashEmptyFolders, Report, Answer, UseCaseFails
<1>8. ASSUME NEW r, Purge(r) PROVE UNCHANGED auditVars
  BY <1>8 DEF Purge
<1>9. CASE Background \/ ApiExit
  BY <1>9 DEF Background, ApiExit, Next
<1>10. CASE UNCHANGED allVars
  BY <1>10 DEF allVars, vars
<1>11. QED
  BY <1>1, <1>3, <1>3a, <1>4, <1>5, <1>6, <1>7, <1>8, <1>9, <1>10 DEF ApiNext, Next

\* The handlers, the jobs and the worker together behave as AuditTrail says.
THEOREM TrailIsKept == ApiSpec => Spec
<1>1. ApiInit => Init
  BY DEF ApiInit
<1>2. QED
  BY <1>1, ApiStep, PTL DEF ApiSpec, Spec

\* The trail of the handlers reads in the order of their reports.
THEOREM ApiTrailInOrder == ApiSpec => []TrailInOrder
  BY TrailIsKept, TrailReadsInOrder, PTL

\* No report of a handler is lost silently.
THEOREM ApiLossIsReported == ApiSpec => []NothingLostSilently
  BY TrailIsKept, LossIsReported, PTL

-----------------------------------------------------------------------------
\* Operators

\* The concatenation of two sequences.
LEMMA ConcatFacts ==
    ASSUME NEW S, NEW s \in Seq(S), NEW t \in Seq(S)
    PROVE  /\ s \o t \in Seq(S)
           /\ Len(s) \in Nat /\ Len(t) \in Nat /\ Len(s \o t) = Len(s) + Len(t)
           /\ \A i \in 1..Len(s) : (s \o t)[i] = s[i]
           /\ \A i \in 1..Len(t) : (s \o t)[Len(s) + i] = t[i]
  OBVIOUS

\* It has the elements of both.
LEMMA ConcatSet ==
    ASSUME NEW S, NEW s \in Seq(S), NEW t \in Seq(S)
    PROVE  ToSet(s \o t) = ToSet(s) \cup ToSet(t)
<1>1. /\ s \o t \in Seq(S)
      /\ Len(s) \in Nat /\ Len(t) \in Nat /\ Len(s \o t) = Len(s) + Len(t)
      /\ \A i \in 1..Len(s) : (s \o t)[i] = s[i]
      /\ \A i \in 1..Len(t) : (s \o t)[Len(s) + i] = t[i]
  BY ConcatFacts
<1>2. /\ ToSet(s) = {s[i] : i \in 1..Len(s)}
      /\ ToSet(t) = {t[i] : i \in 1..Len(t)}
  BY ToSetFacts
<1>3. ToSet(s \o t) = {(s \o t)[i] : i \in 1..(Len(s) + Len(t))}
  <2>1. ToSet(s \o t) = {(s \o t)[i] : i \in 1..Len(s \o t)}
    BY <1>1, ToSetFacts
  <2>2. QED
    BY <1>1, <2>1
<1>4. ASSUME NEW e \in ToSet(s \o t) PROVE e \in ToSet(s) \cup ToSet(t)
  <2>1. PICK i \in 1..(Len(s) + Len(t)) : e = (s \o t)[i]
    BY <1>3
  <2>2. CASE i \in 1..Len(s)
    BY <1>1, <1>2, <2>1, <2>2
  <2>3. CASE i \notin 1..Len(s)
    <3>1. i - Len(s) \in 1..Len(t) /\ i = Len(s) + (i - Len(s))
      BY <1>1, <2>3
    <3>2. e = t[i - Len(s)]
      BY <1>1, <2>1, <3>1
    <3>3. QED
      BY <1>2, <3>1, <3>2
  <2>4. QED
    BY <2>2, <2>3
<1>5. ASSUME NEW e \in ToSet(s) PROVE e \in ToSet(s \o t)
  <2>1. PICK i \in 1..Len(s) : e = s[i]
    BY <1>2
  <2>2. i \in 1..(Len(s) + Len(t)) /\ (s \o t)[i] = e
    BY <1>1, <2>1
  <2>3. QED
    BY <1>3, <2>2
<1>6. ASSUME NEW e \in ToSet(t) PROVE e \in ToSet(s \o t)
  <2>1. PICK i \in 1..Len(t) : e = t[i]
    BY <1>2
  <2>2. Len(s) + i \in 1..(Len(s) + Len(t)) /\ (s \o t)[Len(s) + i] = e
    BY <1>1, <2>1
  <2>3. QED
    BY <1>3, <2>2
<1>7. QED
  BY <1>4, <1>5, <1>6

\* The positions that new claims take in story.
LEMMA NewPositions ==
    ASSUME NEW k \in Nat, NEW n \in Nat, k + n <= MaxEvents
    PROVE  LET new == [i \in 1..n |-> k + i]
           IN  /\ new \in Seq(Events) /\ Len(new) = n
               /\ ToSet(new) = (k + 1)..(k + n)
<1> DEFINE new == [i \in 1..n |-> k + i]
<1>1. new \in Seq(Events) /\ Len(new) = n
  BY BoundsAssumption DEF Events
<1>2. ToSet(new) = {new[i] : i \in 1..n}
  BY <1>1, ToSetFacts
<1>3. ASSUME NEW c \in (k + 1)..(k + n) PROVE c \in ToSet(new)
  <2>1. c - k \in 1..n /\ new[c - k] = c
    OBVIOUS
  <2>2. QED
    BY <1>2, <2>1
<1>4. ASSUME NEW c \in ToSet(new) PROVE c \in (k + 1)..(k + n)
  BY <1>2
<1>5. QED
  BY <1>1, <1>3, <1>4

\* A file has no files in it.
LEMMA OnlyFolders ==
    ASSUME home \in Homes, NEW S \in SUBSET Files
    PROVE  WithFiles(S) = S
<1>1. \A x \in Files : home[x] \in Folders \cup {None}
  BY DEF Homes
<1>2. \A y \in S : y \notin Folders \cup {None}
  BY ThingsAssumption
<1>3. \A y \in S : FilesIn(y, Live \cup InTrash) = {}
  BY <1>1, <1>2 DEF FilesIn
<1>4. QED
  BY <1>3 DEF WithFiles

\* What is claimed of things that are deleted for ever.
LEMMA GoneFacts ==
    ASSUME NEW S \in SUBSET (Files \cup Folders), IsFiniteSet(S)
    PROVE  /\ GoneClaims(S) \in Seq(Claim)
           /\ Len(GoneClaims(S)) \in Nat /\ (Len(GoneClaims(S)) = 0 <=> S = {})
           /\ \A r \in S : \E i \in 1..Len(GoneClaims(S)) : GoneClaims(S)[i].on = r
           /\ \A i \in 1..Len(GoneClaims(S)) :
                \E r \in S : GoneClaims(S)[i] = GoneClaim(r)
           /\ \A r \in S :
                /\ GoneClaim(r) \in Claim /\ GoneClaim(r).on = r
                /\ DOMAIN GoneClaim(r).now \subseteq WithFiles(S)
                /\ \A x \in DOMAIN GoneClaim(r).now : GoneClaim(r).now[x] = "gone"
<1> DEFINE n == Cardinality(S)
           order == SetToSeq(S)
<1>1. n \in Nat /\ ExistsBijection(1..n, S) /\ (n = 0 <=> S = {})
  BY FS_CardinalityType, FS_EmptySet
<1>2. \E f \in [1..n -> S] : IsInjective(f)
  BY <1>1 DEF ExistsBijection, Bijection, Injection
<1>3. order \in [1..n -> S] /\ IsInjective(order)
  BY <1>2 DEF SetToSeq
<1>4. order \in Seq(S) /\ Len(order) = n
  BY <1>1, <1>3
<1>5. \A r \in S : \E i \in 1..n : order[i] = r
  <2>1. IsFiniteSet(1..n) /\ Cardinality(1..n) = n
    BY <1>1, FS_Interval
  <2>2. order \in Injection(1..n, S)
    BY <1>3 DEF Injection
  <2>3. order \in Surjection(1..n, S)
    BY <2>1, <2>2, FS_Injection
  <2>4. QED
    BY <2>3 DEF Surjection
<1>6. GoneClaims(S) = [i \in 1..n |-> GoneClaim(order[i])]
  BY <1>4 DEF GoneClaims
<1> HIDE DEF n, order
<1>7. ASSUME NEW r \in S
      PROVE  /\ GoneClaim(r) \in Claim /\ GoneClaim(r).on = r
             /\ DOMAIN GoneClaim(r).now \subseteq WithFiles(S)
             /\ \A x \in DOMAIN GoneClaim(r).now : GoneClaim(r).now[x] = "gone"
  <2> DEFINE D == {r} \cup FilesIn(r, Live \cup InTrash)
             w == [x \in D |-> "gone"]
  <2>1. D \in SUBSET Things /\ D \subseteq WithFiles(S)
    BY DEF FilesIn, Things, WithFiles
  <2>2. GoneClaim(r) = [on |-> r, now |-> w]
    BY DEF GoneClaim
  <2> HIDE DEF D
  <2>3. w \in [D -> States]
    BY DEF States
  <2>4. w \in UNION {[T -> States] : T \in SUBSET Things}
    BY <2>1, <2>3
  <2>5. r \in Things
    BY DEF Things
  <2>6. [on |-> r, now |-> w] \in Claim
    <3> HIDE DEF w
    <3>1. QED
      BY <2>4, <2>5 DEF Claim
  <2>7. QED
    BY <2>1, <2>2, <2>6
<1>8. GoneClaims(S) \in Seq(Claim) /\ Len(GoneClaims(S)) = n
  <2>1. \A i \in 1..n : GoneClaim(order[i]) \in Claim
    BY <1>3, <1>7
  <2>2. QED
    BY <1>1, <1>6, <2>1
<1>9. \A i \in 1..n : order[i] \in S /\ GoneClaims(S)[i] = GoneClaim(order[i])
  BY <1>3, <1>6
<1>10. \A r \in S : \E i \in 1..n : GoneClaims(S)[i].on = r
  BY <1>5, <1>7, <1>9
<1>11. QED
  BY <1>1, <1>7, <1>8, <1>9, <1>10

\* The names of the things whose events tell of r.
LEMMA GoesWithType ==
    ASSUME home \in Homes, NEW r \in Things
    PROVE  GoesWith(r) \subseteq Things \cup {None}
<1>1. FileOf(r) \in Things
  BY ThingsAssumption DEF FileOf, Things
<1>2. \A x \in Files : home[x] \in Folders \cup {None}
  BY DEF Homes
<1>3. QED
  BY <1>1, <1>2 DEF GoesWith, Things

\* What a use case leaves behind: the claims it made, after those that were there.
LEMMA MadeFacts ==
    ASSUME ApiTypeOK, NEW p \in Reqs, NEW C \in Seq(Claim), NEW place \in Places,
           Made(p, C, place)
    PROVE  /\ Len(story) \in Nat /\ Len(C) \in Nat
           /\ story' \in Seq(Claim)
           /\ Len(story') = Len(story) + Len(C) /\ Len(story') <= MaxEvents
           /\ \A c \in 1..Len(story) : story'[c] = story[c]
           /\ \A i \in 1..Len(C) : story'[Len(story) + i] = C[i]
           /\ req' \in [Reqs -> Request]
           /\ \A q \in Reqs \ {p} : req'[q] = req[q]
           /\ req'[p].at = place
           /\ req'[p].made = req[p].made \cup (Len(story) + 1)..Len(story')
           /\ req'[p].moved = req[p].moved \cup {GoesWith(r) : r \in Shifted}
           /\ ToSet(req'[p].claims) = ToSet(req[p].claims) \cup (Len(story) + 1)..Len(story')
           /\ Len(req[p].claims) \in Nat
           /\ Len(req'[p].claims) = Len(req[p].claims) + Len(C)
           /\ \A k \in 1..Len(req[p].claims) : req'[p].claims[k] = req[p].claims[k]
           /\ \A k \in 1..Len(C) : req'[p].claims[Len(req[p].claims) + k] = Len(story) + k
<1> DEFINE n == Len(story)
           m == Len(C)
           old == req[p].claims
           new == [i \in 1..m |-> n + i]
           names == {GoesWith(r) : r \in Shifted}
           rec == [at |-> place, file |-> None, claims |-> old \o new,
                   made |-> req[p].made \cup ToSet(new), moved |-> req[p].moved \cup names]
<1>1. /\ story \in Seq(Claim) /\ old \in Seq(Events) /\ req[p].made \subseteq Events
      /\ req[p].moved \subseteq SUBSET (Things \cup {None})
      /\ req \in [Reqs -> Request]
      /\ n \in Nat /\ m \in Nat
  BY DEF ApiTypeOK, Request
<1>2. /\ n + m <= MaxEvents /\ story' = story \o C
      /\ req' = [req EXCEPT ![p] = rec]
  BY DEF Made
<1>3. /\ story' \in Seq(Claim) /\ Len(story') = n + m
      /\ \A c \in 1..n : story'[c] = story[c]
      /\ \A i \in 1..m : story'[n + i] = C[i]
  BY <1>1, <1>2, ConcatFacts
<1>4. new \in Seq(Events) /\ Len(new) = m /\ ToSet(new) = (n + 1)..(n + m)
  BY <1>1, <1>2, NewPositions
<1>5. \A k \in 1..m : new[k] = n + k
  OBVIOUS
<1>5a. names \subseteq SUBSET (Things \cup {None})
  <2>1. home \in Homes /\ Shifted \subseteq Things
    BY DEF ApiTypeOK, Shifted
  <2>2. QED
    BY <2>1, GoesWithType
<1> HIDE DEF n, m, old, new, names
<1>6. /\ old \o new \in Seq(Events) /\ Len(old) \in Nat /\ Len(old \o new) = Len(old) + m
      /\ \A k \in 1..Len(old) : (old \o new)[k] = old[k]
      /\ \A k \in 1..m : (old \o new)[Len(old) + k] = new[k]
  <2>1. /\ old \o new \in Seq(Events) /\ Len(old) \in Nat
        /\ Len(old \o new) = Len(old) + Len(new)
        /\ \A k \in 1..Len(old) : (old \o new)[k] = old[k]
        /\ \A k \in 1..Len(new) : (old \o new)[Len(old) + k] = new[k]
    <3>1. old \in Seq(Events) /\ new \in Seq(Events)
      BY <1>1, <1>4
    <3>2. QED
      BY <3>1, ConcatFacts
  <2>2. QED
    BY <1>4, <2>1
<1>7. ToSet(old \o new) = ToSet(old) \cup ToSet(new)
  BY <1>1, <1>4, ConcatSet
<1>8. (n + 1)..(n + m) \subseteq Events
  BY <1>1, <1>2, BoundsAssumption DEF Events
<1>9. rec \in Request
  <2>1. /\ req[p].made \cup ToSet(new) \in SUBSET Events
        /\ req[p].moved \cup names \in SUBSET SUBSET (Things \cup {None})
    BY <1>1, <1>4, <1>5a, <1>8
  <2>2. QED
    BY <1>6, <2>1 DEF Request
<1>10. /\ req'[p] = rec /\ \A q \in Reqs \ {p} : req'[q] = req[q]
       /\ req' \in [Reqs -> Request]
  <2> HIDE DEF rec
  <2>1. QED
    BY <1>1, <1>2, <1>9
<1>11. /\ req'[p].at = place /\ req'[p].claims = old \o new
       /\ req'[p].made = req[p].made \cup ToSet(new)
       /\ req'[p].moved = req[p].moved \cup names
  BY <1>10
<1>12. QED
  BY <1>1, <1>2, <1>3, <1>4, <1>5, <1>6, <1>7, <1>10, <1>11 DEF n, m, old, names

\* What is deleted is gone, with its shares, and nothing else changes.
LEMMA DeleteFacts ==
    ASSUME state \in Standings, NEW S \in SUBSET (Files \cup Folders), DeleteAll(S)
    PROVE  /\ state' \in Standings
           /\ \A r \in S : state'[r] = "gone"
           /\ \A r \in Things : state'[r] \in {state[r], "gone"}
           /\ \A r \in Things : state'[r] # state[r] =>
                r \in S \/ (r \in Shares /\ SharedFile[r] \in S)
<1> DEFINE lost == S \cup {s \in Shares : SharedFile[s] \in S /\ state[s] # "none"}
<1>1. state' = [r \in Things |-> IF r \in lost THEN "gone" ELSE state[r]]
  BY DEF DeleteAll
<1>2. /\ lost \subseteq Things /\ S \subseteq lost
      /\ \A r \in lost : r \in S \/ (r \in Shares /\ SharedFile[r] \in S)
  BY DEF Things
<1> HIDE DEF lost
<1>3. state \in [Things -> States] /\ "gone" \in States
  BY DEF Standings, States
<1>4. state' \in [Things -> States]
  BY <1>1, <1>3
<1>5. /\ \A f \in Folders : state'[f] \in FolderStates
      /\ \A s \in Shares : state'[s] \in ShareStates
  BY <1>1 DEF Standings, FolderStates, ShareStates, Things
<1>6. QED
  BY <1>1, <1>2, <1>4, <1>5 DEF Standings

-----------------------------------------------------------------------------
\* The kinds of steps

\* Each thing that this step shows or hides has an event of its own, of its folder
\* or of its file.
Covers(C) == \A r \in Shifted : \E i \in 1..Len(C) : C[i].on \in GoesWith(r)

\* The claims C tell where things are after this step, and of all that it moves
\* and of which something was told before, unless it is gone.
ToldRight(C) ==
    /\ \A r \in Things :
        \/ state'[r] \in {state[r], "gone"}
        \/ ClaimsOn(r) = {}
        \/ \E i \in 1..Len(C) : r \in DOMAIN C[i].now
    /\ \A i \in 1..Len(C) : \A r \in DOMAIN C[i].now :
        state'[r] # "none" /\ state'[r] \in {C[i].now[r], "gone"}

\* The use case of request p makes its changes and claims C.
Works(p, C, place) ==
    /\ C \in Seq(Claim) /\ place \in {"empty.folders", "report", "answer"}
    /\ place = "report" => req[p].claims # <<>> \/ Len(C) # 0
    /\ place = "answer" => req[p].claims = <<>> /\ Len(C) = 0
    /\ p \in GuestReqs =>
        place = "report" /\ state' = state /\ \A i \in 1..Len(C) : DOMAIN C[i].now = {}
    /\ Made(p, C, place)
    /\ state' \in Standings /\ home' \in Homes
    /\ Covers(C)
    /\ StoryInv => ToldRight(C)
    /\ UNCHANGED <<auditVars, claimOf>>

ApiInv == ApiTypeOK /\ ReportInv

\* What step makes of the things of S suits them, and r tells of them.
Fits(r, S, step) ==
    \A x \in S : state[x] \in DOMAIN step =>
        /\ step[state[x]] \in States \ {"none"}
        /\ x \in Folders => step[state[x]] \in FolderStates
        /\ x \in Shares => step[state[x]] \in ShareStates
        /\ r \in GoesWith(x)

\* What the handlers that move things have in common.
LEMMA MoveWorks ==
    ASSUME ApiInv, NEW p \in Reqs, NEW r \in Things, NEW S \in SUBSET Things, NEW step,
           MovedAll(p, r, S, step), Fits(r, S, step), home' \in Homes,
           p \in GuestReqs => S = {}
    PROVE  \E C, place : Works(p, C, place)
<1> DEFINE w == [x \in S |-> step[state[x]]]
           C == <<[on |-> r, now |-> w]>>
<1>1. /\ Arrive(p) /\ \A x \in S : state[x] \in DOMAIN step
      /\ state' = [x \in Things |-> IF x \in S THEN w[x] ELSE state[x]]
      /\ Made(p, C, "report")
      /\ UNCHANGED <<auditVars, claimOf>>
  BY DEF MovedAll
<1>2. \A x \in S : /\ w[x] \in States \ {"none"}
                   /\ x \in Folders => w[x] \in FolderStates
                   /\ x \in Shares => w[x] \in ShareStates
                   /\ r \in GoesWith(x)
  BY <1>1 DEF Fits
<1>3. w \in [S -> States] /\ DOMAIN w = S
  BY <1>2
<1> HIDE DEF w
<1>4. w \in UNION {[T -> States] : T \in SUBSET Things}
  BY <1>3
<1>5. [on |-> r, now |-> w] \in Claim
  BY <1>4 DEF Claim
<1>6. /\ C \in Seq(Claim) /\ Len(C) = 1
      /\ \A i \in 1..Len(C) : C[i].on = r /\ C[i].now = w
      /\ 1 \in 1..Len(C)
  BY <1>5
<1> HIDE DEF C
<1>7. /\ state \in Standings /\ state \in [Things -> States]
      /\ \A f \in Folders : f \in Things /\ state[f] \in FolderStates
      /\ \A s \in Shares : s \in Things /\ state[s] \in ShareStates
  BY DEF ApiInv, ApiTypeOK, Standings, Things
<1>8. /\ \A x \in S : state'[x] = w[x]
      /\ \A x \in Things \ S : state'[x] = state[x]
  BY <1>1
<1>9. state' \in [Things -> States]
  BY <1>1, <1>2, <1>7
<1>10. state' \in Standings
  BY <1>2, <1>7, <1>8, <1>9 DEF Standings
<1>11. p \in GuestReqs => state' = state
  BY <1>1, <1>7
<1>12. Covers(C)
  <2>1. \A x \in Shifted : x \in Things /\ Page(state'[x]) # Page(state[x])
    BY DEF Shifted
  <2>2. \A x \in Shifted : x \in S
    BY <1>8, <2>1
  <2>3. QED
    BY <1>2, <1>6, <2>2 DEF Covers
<1>13. ToldRight(C)
  BY <1>2, <1>3, <1>6, <1>8 DEF ToldRight
<1>14. Works(p, C, "report")
  BY <1>1, <1>3, <1>6, <1>10, <1>11, <1>12, <1>13 DEF Works
<1>15. QED
  BY <1>14

\* What the use cases that delete for ever have in common.
LEMMA EraseWorks ==
    ASSUME ApiInv, NEW p \in OwnerReqs, NEW S \in SUBSET (Files \cup Folders),
           NEW C \in Seq(Claim), NEW place \in {"empty.folders", "report", "answer"},
           DeleteAll(WithFiles(S)), Made(p, C, place),
           place = "report" => req[p].claims # <<>> \/ Len(C) # 0,
           place = "answer" => req[p].claims = <<>> /\ Len(C) = 0,
           \A r \in S : \E i \in 1..Len(C) : C[i].on = r,
           \A i \in 1..Len(C) : /\ DOMAIN C[i].now \subseteq WithFiles(S)
                                /\ \A x \in DOMAIN C[i].now : C[i].now[x] = "gone",
           UNCHANGED <<auditVars, home, claimOf>>
    PROVE  Works(p, C, place)
<1> DEFINE W == WithFiles(S)
<1>1. /\ state \in Standings /\ home \in Homes
      /\ p \notin GuestReqs
  BY ThingsAssumption DEF ApiInv, ApiTypeOK
<1>2. /\ W \subseteq Files \cup Folders
      /\ \A x \in W : x \in S \/ (x \in Files /\ home[x] \in S)
  BY DEF WithFiles, FilesIn
<1>d. DeleteAll(W)
  OBVIOUS
<1>w. \A i \in 1..Len(C) : /\ DOMAIN C[i].now \subseteq W
                           /\ \A x \in DOMAIN C[i].now : C[i].now[x] = "gone"
  OBVIOUS
<1> HIDE DEF W
<1>3. /\ state' \in Standings
      /\ \A r \in W : state'[r] = "gone"
      /\ \A r \in Things : state'[r] \in {state[r], "gone"}
      /\ \A r \in Things : state'[r] # state[r] =>
           r \in W \/ (r \in Shares /\ SharedFile[r] \in W)
  BY <1>1, <1>2, <1>d, DeleteFacts
<1>4. Covers(C)
  <2>1. SUFFICES ASSUME NEW r \in Shifted PROVE \E y \in S : y \in GoesWith(r)
    BY DEF Covers
  <2>2. r \in Things /\ state'[r] # state[r]
    BY DEF Shifted
  <2>3. CASE r \in W
    <3>1. r \notin Shares
      BY <1>2, <2>3, ThingsAssumption
    <3>2. FileOf(r) = r
      BY <3>1 DEF FileOf
    <3>3. QED
      BY <1>2, <2>3, <3>2 DEF GoesWith
  <2>4. CASE r \in Shares /\ SharedFile[r] \in W
    <3>1. FileOf(r) = SharedFile[r]
      BY <2>4 DEF FileOf
    <3>2. QED
      BY <1>2, <2>4, <3>1 DEF GoesWith
  <2>5. QED
    BY <1>3, <2>2, <2>3, <2>4
<1>5. ToldRight(C)
  BY <1>3, <1>w DEF ToldRight
<1>6. QED
  BY <1>1, <1>3, <1>4, <1>5 DEF Works

\* The deletion that nobody reports.
LEMMA PurgeFacts ==
    ASSUME ApiInv, NEW r \in Files \cup Folders, Purge(r)
    PROVE  /\ state' \in Standings
           /\ \A x \in Things : state'[x] \in {state[x], "gone"}
           /\ UNCHANGED <<auditVars, home, req, story, claimOf>>
<1>1. WithFiles({r}) \subseteq Files \cup Folders /\ DeleteAll(WithFiles({r}))
  BY DEF WithFiles, FilesIn, Purge
<1>2. state \in Standings
  BY DEF ApiInv, ApiTypeOK
<1>3. QED
  BY <1>1, <1>2, DeleteFacts DEF Purge

\* The start of an upload, and its abort.
LEMMA UploadWorks ==
    ASSUME ApiInv, NEW p \in OwnerReqs, NEW x \in Files,
           storageAbortUpload(p, x) \/
           \E f \in Folders \cup {None} : storageInitiateMultipart(p, x, f)
    PROVE  \E C, place : Works(p, C, place)
<1> DEFINE C == <<>>
<1>1. /\ p \in Reqs /\ p \notin GuestReqs /\ x \in Things /\ x \notin Folders /\ x \notin Shares
      /\ state \in Standings /\ state \in [Things -> States] /\ home \in Homes
  BY ThingsAssumption DEF Reqs, Things, ApiInv, ApiTypeOK, Standings
<1>2. C \in Seq(Claim) /\ Len(C) = 0 /\ 1..Len(C) = {}
  OBVIOUS
<1>3. /\ Arrive(p) /\ Made(p, C, "answer") /\ UNCHANGED <<auditVars, claimOf>>
  BY DEF storageAbortUpload, storageInitiateMultipart
<1> HIDE DEF C
<1>4. req[p].claims = <<>>
  BY <1>1, <1>3 DEF Arrive, ApiInv, ReportInv
<1>5. SUFFICES /\ state' \in Standings /\ home' \in Homes
               /\ Shifted = {}
               /\ StoryInv => ToldRight(C)
  <2>1. ASSUME /\ state' \in Standings /\ home' \in Homes
               /\ Shifted = {}
               /\ StoryInv => ToldRight(C)
        PROVE  Works(p, C, "answer")
    BY <1>1, <1>2, <1>3, <1>4, <2>1 DEF Works, Covers
  <2>2. QED
    BY <2>1
<1>6. CASE storageAbortUpload(p, x)
  <2>1. state[x] = "draft" /\ DeleteAll({x}) /\ home' = home
    BY <1>6 DEF storageAbortUpload
  <2>2. /\ state' \in Standings /\ state'[x] = "gone"
        /\ \A r \in Things : state'[r] \in {state[r], "gone"}
        /\ \A r \in Things : state'[r] # state[r] =>
             r = x \/ (r \in Shares /\ SharedFile[r] = x)
    BY <1>1, <2>1, DeleteFacts
  <2>3. ToldRight(C)
    BY <1>2, <2>2 DEF ToldRight
  <2>4. Page(state'[x]) = Page(state[x])
    BY <2>1, <2>2 DEF Page, InTrash
  <2>5. Shifted = {}
    BY <2>1, <2>2, <2>4 DEF Shifted
  <2>6. QED
    BY <1>1, <2>1, <2>2, <2>3, <2>5
<1>7. ASSUME NEW f \in Folders \cup {None}, storageInitiateMultipart(p, x, f)
      PROVE  /\ state' \in Standings /\ home' \in Homes
             /\ Shifted = {}
             /\ StoryInv => ToldRight(C)
  <2>1. /\ state[x] = "none" /\ state' = [state EXCEPT ![x] = "draft"]
        /\ home' = [home EXCEPT ![x] = f]
    BY <1>7 DEF storageInitiateMultipart
  <2>2. /\ state' \in [Things -> States] /\ state'[x] = "draft"
        /\ \A r \in Things \ {x} : state'[r] = state[r]
    BY <1>1, <2>1 DEF States
  <2>3. state' \in Standings
    <3>1. \A r \in Folders \cup Shares : r \in Things \ {x}
      BY <1>1 DEF Things
    <3>2. QED
      BY <1>1, <2>2, <3>1 DEF Standings
  <2>4. home' \in Homes
    BY <1>1, <2>1 DEF Homes
  <2>5. Page(state'[x]) = Page(state[x])
    BY <2>1, <2>2 DEF Page, InTrash
  <2>6. Shifted = {}
    BY <2>2, <2>5 DEF Shifted
  <2>7. ASSUME StoryInv PROVE ToldRight(C)
    <3>1. ClaimsOn(x) = {}
      BY <1>1, <2>1, <2>7 DEF StoryInv
    <3>2. QED
      BY <1>2, <2>2, <3>1 DEF ToldRight
  <2>8. QED
    BY <2>3, <2>4, <2>6, <2>7
<1>8. QED
  BY <1>6, <1>7

\* The deletions for ever.
LEMMA HardDeleteWorks ==
    ASSUME ApiInv, NEW p \in Reqs, trashDeleteBlobRow(p)
    PROVE  \E C, place : Works(p, C, place)
<1> DEFINE x == req[p].file
           w == [y \in {x} |-> "gone"]
           C == <<[on |-> x, now |-> w]>>
<1>1. /\ req[p].at = "hard.row" /\ Made(p, C, "report") /\ UNCHANGED <<auditVars, home, claimOf>>
      /\ IF state[x] \in InTrash THEN DeleteAll({x}) ELSE UNCHANGED state
  BY DEF trashDeleteBlobRow
<1>2. x \in Files /\ p \notin GuestReqs /\ p \in OwnerReqs
  BY <1>1 DEF ApiInv, ReportInv, Reqs
<1>3. x \in Things /\ state \in Standings /\ home \in Homes
  BY <1>2 DEF Things, ApiInv, ApiTypeOK
<1> HIDE DEF x
<1>4. w \in UNION {[T -> States] : T \in SUBSET Things} /\ DOMAIN w = {x} /\ w[x] = "gone"
  <2>1. w \in [{x} -> States] /\ {x} \in SUBSET Things
    BY <1>3 DEF States
  <2>2. QED
    BY <2>1
<1> HIDE DEF w
<1>5. [on |-> x, now |-> w] \in Claim
  BY <1>3, <1>4 DEF Claim
<1>6. /\ C \in Seq(Claim) /\ Len(C) = 1
      /\ \A i \in 1..Len(C) : C[i].on = x /\ C[i].now = w
      /\ 1 \in 1..Len(C)
  BY <1>5
<1> HIDE DEF C
<1>7. CASE state[x] \in InTrash
  <2>1. {x} \subseteq Files \cup Folders /\ WithFiles({x}) = {x}
    BY <1>2, <1>3, OnlyFolders
  <2>2. DeleteAll(WithFiles({x}))
    BY <1>1, <1>7, <2>1
  <2>3. /\ \A r \in {x} : \E i \in 1..Len(C) : C[i].on = r
        /\ \A i \in 1..Len(C) : /\ DOMAIN C[i].now \subseteq WithFiles({x})
                                /\ \A y \in DOMAIN C[i].now : C[i].now[y] = "gone"
    BY <1>4, <1>6, <2>1
  <2> DEFINE S == {x}
             place == "report"
  <2>4. /\ S \in SUBSET (Files \cup Folders) /\ place \in {"empty.folders", "report", "answer"}
        /\ DeleteAll(WithFiles(S)) /\ Made(p, C, place)
        /\ place = "report" => req[p].claims # <<>> \/ Len(C) # 0
        /\ place = "answer" => req[p].claims = <<>> /\ Len(C) = 0
    BY <1>1, <1>6, <2>1, <2>2
  <2>5. /\ \A r \in S : \E i \in 1..Len(C) : C[i].on = r
        /\ \A i \in 1..Len(C) : /\ DOMAIN C[i].now \subseteq WithFiles(S)
                                /\ \A y \in DOMAIN C[i].now : C[i].now[y] = "gone"
    BY <2>3
  <2> HIDE DEF S, place
  <2>6. Works(p, C, place)
    BY <1>1, <1>2, <1>6, <2>4, <2>5, EraseWorks
  <2>7. QED
    BY <2>6
<1>8. CASE state[x] \notin InTrash
  <2>1. state' = state
    BY <1>1, <1>8
  <2>2. Covers(C)
    BY <2>1 DEF Covers, Shifted
  <2>3. ASSUME StoryInv PROVE ToldRight(C)
    <3>1. state[x] = "gone"
      BY <1>1, <1>8, <2>3 DEF StoryInv, x
    <3>2. QED
      BY <1>4, <1>6, <2>1, <3>1 DEF ToldRight
  <2>4. Works(p, C, "report")
    BY <1>1, <1>2, <1>3, <1>6, <2>1, <2>2, <2>3 DEF Works
  <2>5. QED
    BY <2>4
<1>9. QED
  BY <1>7, <1>8

\* A deletion of the things of S with one claim for each.
LEMMA GoneWorks ==
    ASSUME ApiInv, NEW p \in OwnerReqs, NEW S \in SUBSET (Files \cup Folders), IsFiniteSet(S),
           NEW place \in {"empty.folders", "report", "answer"},
           DeleteAll(WithFiles(S)), Made(p, GoneClaims(S), place),
           place = "report" => req[p].claims # <<>> \/ S # {},
           place = "answer" => req[p].claims = <<>> /\ S = {},
           UNCHANGED <<auditVars, home, claimOf>>
    PROVE  \E C, z : Works(p, C, z)
<1> DEFINE C == GoneClaims(S)
<1>1. /\ C \in Seq(Claim) /\ Len(C) \in Nat /\ (Len(C) = 0 <=> S = {})
      /\ \A r \in S : \E i \in 1..Len(C) : C[i].on = r
      /\ \A i \in 1..Len(C) : \E r \in S : C[i] = GoneClaim(r)
      /\ \A r \in S :
           /\ DOMAIN GoneClaim(r).now \subseteq WithFiles(S)
           /\ \A x \in DOMAIN GoneClaim(r).now : GoneClaim(r).now[x] = "gone"
  BY GoneFacts
<1>2. Made(p, C, place)
  OBVIOUS
<1> HIDE DEF C
<1>3. \A i \in 1..Len(C) : /\ DOMAIN C[i].now \subseteq WithFiles(S)
                           /\ \A x \in DOMAIN C[i].now : C[i].now[x] = "gone"
  BY <1>1
<1>4. /\ place = "report" => req[p].claims # <<>> \/ Len(C) # 0
      /\ place = "answer" => req[p].claims = <<>> /\ Len(C) = 0
  BY <1>1
<1>5. Works(p, C, place)
  BY <1>1, <1>2, <1>3, <1>4, EraseWorks
<1>6. QED
  BY <1>5

\* The trash is emptied, and folders are deleted with their files.
LEMMA EmptyWorks ==
    ASSUME ApiInv, NEW p \in OwnerReqs,
           \/ trashEmpty(p) \/ trashEmptyFolders(p)
           \/ \E f \in Folders : trashDeleteFolder(p, f)
    PROVE  \E C, z : Works(p, C, z)
<1>h. home \in Homes
  BY DEF ApiInv, ApiTypeOK
<1>1. CASE trashEmpty(p)
  <2> DEFINE S == {x \in Files : state[x] \in InTrash}
  <2>1. S \subseteq Files /\ S \subseteq Files \cup Folders /\ IsFiniteSet(S)
    BY ThingsAssumption, FS_Subset
  <2>2. /\ DeleteAll(S) /\ Made(p, GoneClaims(S), "empty.folders")
        /\ UNCHANGED <<auditVars, home, claimOf>>
    BY <1>1 DEF trashEmpty
  <2> HIDE DEF S
  <2>3. DeleteAll(WithFiles(S))
    BY <1>h, <2>1, <2>2, OnlyFolders
  <2>4. QED
    BY <2>1, <2>2, <2>3, GoneWorks
<1>2. CASE trashEmptyFolders(p)
  <2> DEFINE S == {f \in Folders : state[f] = "binned"}
             place == IF S = {} /\ req[p].claims = <<>> THEN "answer" ELSE "report"
  <2>1. S \subseteq Files \cup Folders /\ IsFiniteSet(S)
    BY ThingsAssumption, FS_Subset
  <2>2. /\ DeleteAll(WithFiles(S)) /\ Made(p, GoneClaims(S), place)
        /\ UNCHANGED <<auditVars, home, claimOf>>
    BY <1>2 DEF trashEmptyFolders
  <2> HIDE DEF S
  <2>3. /\ place \in {"empty.folders", "report", "answer"}
        /\ place = "report" => req[p].claims # <<>> \/ S # {}
        /\ place = "answer" => req[p].claims = <<>> /\ S = {}
    OBVIOUS
  <2> HIDE DEF place
  <2>4. QED
    BY <2>1, <2>2, <2>3, GoneWorks
<1>3. ASSUME NEW f \in Folders, trashDeleteFolder(p, f) PROVE \E C, z : Works(p, C, z)
  <2> DEFINE C == <<GoneClaim(f)>>
  <2>1. /\ DeleteAll(WithFiles({f})) /\ Made(p, C, "report")
        /\ UNCHANGED <<auditVars, home, claimOf>>
    BY <1>3 DEF trashDeleteFolder
  <2>2. {f} \subseteq Files \cup Folders /\ IsFiniteSet({f})
    BY FS_Singleton
  <2>3. /\ GoneClaim(f) \in Claim /\ GoneClaim(f).on = f
        /\ DOMAIN GoneClaim(f).now \subseteq WithFiles({f})
        /\ \A x \in DOMAIN GoneClaim(f).now : GoneClaim(f).now[x] = "gone"
    BY <2>2, GoneFacts
  <2>4. C \in Seq(Claim) /\ Len(C) = 1 /\ C[1] = GoneClaim(f) /\ 1 \in 1..Len(C)
        /\ \A i \in 1..Len(C) : C[i] = GoneClaim(f)
    BY <2>3
  <2> HIDE DEF C
  <2>5. /\ \A r \in {f} : \E i \in 1..Len(C) : C[i].on = r
        /\ \A i \in 1..Len(C) : /\ DOMAIN C[i].now \subseteq WithFiles({f})
                                /\ \A x \in DOMAIN C[i].now : C[i].now[x] = "gone"
    BY <2>3, <2>4
  <2> DEFINE S == {f}
             place == "report"
  <2>6. /\ S \in SUBSET (Files \cup Folders) /\ place \in {"empty.folders", "report", "answer"}
        /\ DeleteAll(WithFiles(S)) /\ Made(p, C, place)
        /\ place = "report" => req[p].claims # <<>> \/ Len(C) # 0
        /\ place = "answer" => req[p].claims = <<>> /\ Len(C) = 0
    BY <2>1, <2>2, <2>4
  <2>7. /\ \A r \in S : \E i \in 1..Len(C) : C[i].on = r
        /\ \A i \in 1..Len(C) : /\ DOMAIN C[i].now \subseteq WithFiles(S)
                                /\ \A x \in DOMAIN C[i].now : C[i].now[x] = "gone"
    BY <2>5
  <2> HIDE DEF S, place
  <2>8. Works(p, C, place)
    BY <2>1, <2>4, <2>6, <2>7, EraseWorks
  <2>9. QED
    BY <2>8
<1>4. QED
  BY <1>1, <1>2, <1>3

\* The kinds of steps.
LEMMA StepCases ==
    ASSUME ApiInv, ApiNext
    PROVE  \/ \E p \in Reqs : \E C, place : Works(p, C, place)
           \/ \E r \in Files \cup Folders : Purge(r)
           \/ \E p \in OwnerReqs, x \in Files : trashDeleteBlob(p, x)
           \/ \E p \in Reqs : Report(p) \/ Answer(p) \/ UseCaseFails(p)
           \/ Background
           \/ ApiExit
<1> DEFINE Work == \E p \in Reqs : \E C, place : Works(p, C, place)
<1>1. /\ OwnerReqs \subseteq Reqs /\ GuestReqs \subseteq Reqs /\ OwnerReqs \cap GuestReqs = {}
      /\ Files \subseteq Things /\ Folders \subseteq Things /\ Shares \subseteq Things
      /\ Files \cap (Folders \cup Shares) = {} /\ Folders \cap Shares = {}
      /\ SharedFile \in [Shares -> Files]
  BY ThingsAssumption DEF Reqs, Things
<1>h. home \in Homes /\ home \in [Files -> Folders \cup {None}]
  BY DEF ApiInv, ApiTypeOK, Homes
<1>w. ASSUME NEW p \in Reqs, NEW r \in Things, NEW S \in SUBSET Things, NEW step,
             MovedAll(p, r, S, step), Fits(r, S, step), home' \in Homes, p \in GuestReqs => S = {}
      PROVE  Work
  BY <1>w, MoveWorks
<1>g. \A r \in Things : r \in GoesWith(r)
  BY DEF GoesWith
<1>v. /\ "draft" \in States \ {"none"} /\ "listed" \in States \ {"none"}
      /\ "binned" \in States \ {"none"} /\ "binnedDraft" \in States \ {"none"}
      /\ "gone" \in States \ {"none"}
      /\ {"listed", "binned", "gone"} \subseteq FolderStates
      /\ {"listed", "gone"} \subseteq ShareStates
  BY DEF States, FolderStates, ShareStates
<1>m. ASSUME NEW p \in Reqs, NEW r \in Things, NEW step, Moved(p, r, step),
             Fits(r, {r}, step), p \notin GuestReqs
      PROVE  Work
  <2>1. MovedAll(p, r, {r}, step) /\ home' \in Homes
    BY <1>m, <1>h DEF Moved
  <2>2. QED
    BY <1>m, <2>1, <1>w
<1>t. ASSUME NEW p \in Reqs, NEW r \in Things, Told(p, r), home' \in Homes
      PROVE  Work
  <2>1. MovedAll(p, r, {}, <<>>)
    BY <1>t DEF Told
  <2>2. Fits(r, {}, <<>>)
    BY DEF Fits
  <2>3. QED
    BY <1>t, <1>w, <2>1, <2>2
<1> HIDE DEF Work
<1>2. ASSUME NEW p \in OwnerReqs, NEW x \in Files,
             \/ storageCompleteMultipart(p, x) \/ storageAbortUpload(p, x)
             \/ storagePresignGet(p, x) \/ renameBlob(p, x) \/ storageDeleteBlob(p, x)
             \/ trashRestoreBlob(p, x)
      PROVE  Work
  <2>1. p \in Reqs /\ p \notin GuestReqs /\ x \in Things /\ x \notin Folders /\ x \notin Shares
    BY <1>1
  <2>2. CASE storageCompleteMultipart(p, x)
    <3>1. Fits(x, {x}, [draft |-> "listed"])
      BY <1>g, <1>v, <2>1 DEF Fits
    <3>2. QED
      BY <1>m, <2>1, <2>2, <3>1 DEF storageCompleteMultipart
  <2>3. CASE storageAbortUpload(p, x)
    <3>1. \E C, place : Works(p, C, place)
      BY <2>3, UploadWorks
    <3>2. QED
      BY <2>1, <3>1 DEF Work
  <2>4. CASE storagePresignGet(p, x) \/ renameBlob(p, x)
    BY <1>h, <1>t, <2>1, <2>4 DEF storagePresignGet, renameBlob
  <2>5. CASE storageDeleteBlob(p, x)
    <3>1. Fits(x, {x}, [draft |-> "binnedDraft", listed |-> "binned"])
      BY <1>g, <1>v, <2>1 DEF Fits
    <3>2. QED
      BY <1>m, <2>1, <2>5, <3>1 DEF storageDeleteBlob
  <2>6. CASE trashRestoreBlob(p, x)
    <3>1. Fits(x, {x}, Restored)
      BY <1>g, <1>v, <2>1 DEF Fits, Restored
    <3>2. home' = [home EXCEPT ![x] = IF Target(home[x]) THEN home[x] ELSE None]
      BY <2>6, <1>h DEF trashRestoreBlob
    <3>3. home' \in Homes
      BY <1>h, <3>2 DEF Homes
    <3>4. MovedAll(p, x, {x}, Restored)
      BY <2>6 DEF trashRestoreBlob
    <3>5. QED
      BY <1>w, <2>1, <3>1, <3>3, <3>4
  <2>7. QED
    BY <1>2, <2>2, <2>3, <2>4, <2>5, <2>6
<1>3. ASSUME NEW p \in OwnerReqs, NEW x \in Files, NEW f \in Folders \cup {None},
             storageInitiateMultipart(p, x, f) \/ moveBlob(p, x, f)
      PROVE  Work
  <2>1. p \in Reqs /\ x \in Things
    BY <1>1
  <2>2. CASE storageInitiateMultipart(p, x, f)
    <3>1. \E C, place : Works(p, C, place)
      BY <2>2, UploadWorks
    <3>2. QED
      BY <2>1, <3>1 DEF Work
  <2>3. CASE moveBlob(p, x, f)
    <3>1. home' = [home EXCEPT ![x] = f] /\ Told(p, x)
      BY <2>3 DEF moveBlob
    <3>2. home' \in Homes
      BY <1>h, <3>1 DEF Homes
    <3>3. QED
      BY <1>t, <2>1, <3>1, <3>2
  <2>4. QED
    BY <1>3, <2>2, <2>3
<1>4. ASSUME NEW p \in OwnerReqs, NEW f \in Folders,
             \/ createFolder(p, f) \/ renameFolder(p, f) \/ moveFolder(p, f)
             \/ deleteFolder(p, f) \/ trashRestoreFolder(p, f) \/ trashDeleteFolder(p, f)
      PROVE  Work
  <2>1. p \in Reqs /\ p \notin GuestReqs /\ f \in Things /\ f \notin Shares /\ f \notin Files
    BY <1>1
  <2>i. ASSUME NEW T
        PROVE  /\ {f} \cup FilesIn(f, T) \in SUBSET Things
               /\ \A x \in {f} \cup FilesIn(f, T) : x \notin Shares /\ f \in GoesWith(x)
               /\ \A x \in FilesIn(f, T) : x \notin Folders
    <3>1. \A x \in FilesIn(f, T) : x \in Files /\ home[x] = f
      BY DEF FilesIn
    <3>2. ASSUME NEW x \in FilesIn(f, T) PROVE x \notin Shares /\ x \notin Folders /\ f \in GoesWith(x)
      <4>1. x \in Files /\ home[x] = f /\ x \notin Shares /\ x \notin Folders
        BY <1>1, <3>1
      <4>2. FileOf(x) = x
        BY <4>1 DEF FileOf
      <4>3. QED
        BY <4>1, <4>2 DEF GoesWith
    <3>3. QED
      BY <1>1, <1>g, <2>1, <3>1, <3>2
  <2>2. CASE createFolder(p, f)
    <3>1. Fits(f, {f}, [none |-> "listed"])
      BY <1>g, <1>v, <2>1 DEF Fits
    <3>2. QED
      BY <1>m, <2>1, <2>2, <3>1 DEF createFolder
  <2>3. CASE renameFolder(p, f) \/ moveFolder(p, f)
    BY <1>h, <1>t, <2>1, <2>3 DEF renameFolder, moveFolder
  <2>4. CASE deleteFolder(p, f)
    <3> DEFINE S == {f} \cup FilesIn(f, Live)
               step == [draft |-> "binnedDraft", listed |-> "binned"]
    <3>1. state[f] = "listed" /\ MovedAll(p, f, S, step) /\ home' \in Homes
      BY <1>h, <2>4 DEF deleteFolder
    <3>2. /\ S \in SUBSET Things
          /\ \A x \in S : x \notin Shares /\ f \in GoesWith(x)
          /\ \A x \in S : x \in Folders => x = f
      BY <2>i
    <3> HIDE DEF S
    <3>3. Fits(f, S, step)
      BY <1>v, <3>1, <3>2 DEF Fits
    <3> HIDE DEF step
    <3>4. QED
      BY <1>w, <2>1, <3>1, <3>2, <3>3
  <2>5. CASE trashRestoreFolder(p, f)
    <3> DEFINE S == {f} \cup FilesIn(f, InTrash)
    <3>1. state[f] = "binned" /\ MovedAll(p, f, S, Restored) /\ home' \in Homes
      BY <1>h, <2>5 DEF trashRestoreFolder
    <3>2. /\ S \in SUBSET Things
          /\ \A x \in S : x \notin Shares /\ f \in GoesWith(x)
          /\ \A x \in S : x \in Folders => x = f
      BY <2>i
    <3> HIDE DEF S
    <3>3. Fits(f, S, Restored)
      BY <1>v, <3>1, <3>2 DEF Fits, Restored
    <3>4. QED
      BY <1>w, <2>1, <3>1, <3>2, <3>3
  <2>6. CASE trashDeleteFolder(p, f)
    <3>1. \E C, z : Works(p, C, z)
      BY <2>6, EmptyWorks
    <3>2. QED
      BY <2>1, <3>1 DEF Work
  <2>7. QED
    BY <1>4, <2>2, <2>3, <2>4, <2>5, <2>6
<1>5. ASSUME NEW p \in OwnerReqs, NEW s \in Shares, createShare(p, s) \/ revokeShare(p, s)
      PROVE  Work
  <2>1. /\ p \in Reqs /\ p \notin GuestReqs /\ s \in Things /\ s \notin Folders
        /\ SharedFile[s] \in Things /\ {s} \in SUBSET Things
    BY <1>1
  <2>2. CASE createShare(p, s)
    <3>1. /\ MovedAll(p, SharedFile[s], {s}, [none |-> "listed"]) /\ home' \in Homes
      BY <1>h, <2>2 DEF createShare
    <3>2. SharedFile[s] \in GoesWith(s)
      BY DEF GoesWith, FileOf
    <3>3. Fits(SharedFile[s], {s}, [none |-> "listed"])
      BY <1>v, <2>1, <3>2 DEF Fits
    <3>4. QED
      BY <1>w, <2>1, <3>1, <3>3
  <2>3. CASE revokeShare(p, s)
    <3>1. Fits(s, {s}, [listed |-> "gone"])
      BY <1>g, <1>v, <2>1 DEF Fits
    <3>2. QED
      BY <1>m, <2>1, <2>3, <3>1 DEF revokeShare
  <2>4. QED
    BY <1>5, <2>2, <2>3
<1>6. ASSUME NEW p \in GuestReqs, NEW s \in Shares, getSharedFile(p, s) PROVE Work
  <2>1. p \in Reqs /\ SharedFile[s] \in Things
    BY <1>1
  <2>2. QED
    BY <1>6, <1>h, <1>t, <2>1 DEF getSharedFile
<1>7. ASSUME NEW p \in OwnerReqs, trashEmpty(p) PROVE Work
  <2>1. \E C, z : Works(p, C, z)
    BY <1>7, EmptyWorks
  <2>2. QED
    BY <1>1, <2>1 DEF Work
<1>8. ASSUME NEW p \in Reqs, trashDeleteBlobRow(p) \/ trashEmptyFolders(p) PROVE Work
  <2>1. CASE trashDeleteBlobRow(p)
    <3>1. \E C, z : Works(p, C, z)
      BY <2>1, HardDeleteWorks
    <3>2. QED
      BY <3>1 DEF Work
  <2>2. CASE trashEmptyFolders(p)
    <3>1. p \in OwnerReqs
      BY <2>2 DEF trashEmptyFolders, ApiInv, ReportInv, Reqs
    <3>2. \E C, z : Works(p, C, z)
      BY <2>2, <3>1, EmptyWorks
    <3>3. QED
      BY <3>2 DEF Work
  <2>3. QED
    BY <1>8, <2>1, <2>2
<1>9. \/ Work
      \/ \E r \in Files \cup Folders : Purge(r)
      \/ \E p \in OwnerReqs, x \in Files : trashDeleteBlob(p, x)
      \/ \E p \in Reqs : Report(p) \/ Answer(p) \/ UseCaseFails(p)
      \/ Background
      \/ ApiExit
  BY <1>1, <1>2, <1>3, <1>4, <1>5, <1>6, <1>7, <1>8 DEF ApiNext, Continue
<1>10. QED
  BY <1>9 DEF Work

-----------------------------------------------------------------------------
\* What is answered was reported

\* At first nobody has claimed anything.
LEMMA InitApiInv == ApiInit => ApiInv
<1> SUFFICES ASSUME ApiInit PROVE ApiInv
  OBVIOUS
<1>1. Quiet \in Request
  BY DEF Quiet, Places, Request
<1>2. /\ req = [p \in Reqs |-> Quiet] /\ state \in Standings /\ home \in Homes
      /\ story = <<>> /\ claimOf = <<>> /\ logged = 0
  BY StartAssumption DEF ApiInit, Init
<1>3. req \in [Reqs -> Request]
  BY <1>1, <1>2
<1>4. \A p \in Reqs : /\ req[p].at = "idle" /\ req[p].claims = <<>>
                      /\ req[p].made = {} /\ req[p].moved = {}
  BY <1>2 DEF Quiet
<1>5. ToSet(<<>>) = {}
  BY DEF ToSet
<1>6. ApiTypeOK
  BY <1>2, <1>3, <1>4, <1>5, BoundsAssumption DEF ApiTypeOK
<1>7. QED
  BY <1>2, <1>4, <1>5, <1>6 DEF ApiInv, ReportInv

\* A use case that makes changes leaves them to be reported.
LEMMA WorkKeepsApiInv ==
    ASSUME ApiInv, NEW p \in Reqs, NEW C, NEW place, Works(p, C, place)
    PROVE  ApiInv'
<1> DEFINE fresh == (Len(story) + 1)..Len(story')
<1>0. /\ C \in Seq(Claim) /\ place \in {"empty.folders", "report", "answer"} /\ place \in Places
      /\ Made(p, C, place)
      /\ place = "report" => req[p].claims # <<>> \/ Len(C) # 0
      /\ place = "answer" => req[p].claims = <<>> /\ Len(C) = 0
      /\ p \in GuestReqs => place = "report"
      /\ state' \in Standings /\ home' \in Homes /\ Covers(C)
      /\ UNCHANGED <<claimOf, logged>>
  BY DEF Works, Places, auditVars
<1>1. /\ Len(story) \in Nat /\ Len(C) \in Nat
      /\ story' \in Seq(Claim)
      /\ Len(story') = Len(story) + Len(C) /\ Len(story') <= MaxEvents
      /\ \A c \in 1..Len(story) : story'[c] = story[c]
      /\ \A i \in 1..Len(C) : story'[Len(story) + i] = C[i]
      /\ req' \in [Reqs -> Request]
      /\ \A q \in Reqs \ {p} : req'[q] = req[q]
      /\ req'[p].at = place
      /\ req'[p].made = req[p].made \cup fresh
      /\ req'[p].moved = req[p].moved \cup {GoesWith(r) : r \in Shifted}
      /\ ToSet(req'[p].claims) = ToSet(req[p].claims) \cup fresh
      /\ Len(req[p].claims) \in Nat
      /\ Len(req'[p].claims) = Len(req[p].claims) + Len(C)
  <2>1. ApiTypeOK /\ C \in Seq(Claim) /\ place \in Places /\ Made(p, C, place)
    BY <1>0 DEF ApiInv
  <2>2. /\ Len(story) \in Nat /\ Len(C) \in Nat
        /\ story' \in Seq(Claim)
        /\ Len(story') = Len(story) + Len(C) /\ Len(story') <= MaxEvents
        /\ \A c \in 1..Len(story) : story'[c] = story[c]
        /\ \A i \in 1..Len(C) : story'[Len(story) + i] = C[i]
    BY <2>1, MadeFacts
  <2>3. /\ req' \in [Reqs -> Request]
        /\ \A q \in Reqs \ {p} : req'[q] = req[q]
        /\ req'[p].at = place
    BY <2>1, MadeFacts
  <2>4. req'[p].made = req[p].made \cup fresh
    BY <2>1, MadeFacts, Zenon
  <2>5. req'[p].moved = req[p].moved \cup {GoesWith(r) : r \in Shifted}
    BY <2>1, MadeFacts, Zenon
  <2>6. /\ ToSet(req'[p].claims) = ToSet(req[p].claims) \cup fresh
        /\ Len(req[p].claims) \in Nat
        /\ Len(req'[p].claims) = Len(req[p].claims) + Len(C)
    BY <2>1, MadeFacts, Zenon
  <2>7. QED
    BY <2>2, <2>3, <2>4, <2>5, <2>6, Zenon
<1>2. fresh \subseteq 1..Len(story') /\ 1..Len(story) \subseteq 1..Len(story')
  BY <1>1
<1>2a. ASSUME NEW r \in Shifted PROVE \E c \in fresh : story'[c].on \in GoesWith(r)
  <2>1. PICK i \in 1..Len(C) : C[i].on \in GoesWith(r)
    BY <1>0 DEF Covers
  <2>2. Len(story) + i \in fresh /\ story'[Len(story) + i] = C[i]
    BY <1>1
  <2>3. QED
    BY <2>1, <2>2
<1> HIDE DEF fresh
<1>3. ASSUME NEW q \in Reqs PROVE ToSet(req'[q].claims) \cup req'[q].made \subseteq 1..Len(story')
  <2>1. ToSet(req[q].claims) \cup req[q].made \subseteq 1..Len(story)
    BY DEF ApiInv, ApiTypeOK
  <2>2. CASE q = p
    BY <1>1, <1>2, <2>1, <2>2
  <2>3. CASE q # p
    BY <1>1, <1>2, <2>1, <2>3
  <2>4. QED
    BY <2>2, <2>3
<1>4. ApiTypeOK'
  <2>1. /\ claimOf' \in Seq(Events) /\ Len(claimOf') = logged'
        /\ ToSet(claimOf') \subseteq 1..Len(story')
    BY <1>0, <1>2 DEF ApiInv, ApiTypeOK
  <2>2. QED
    BY <1>0, <1>1, <1>3, <2>1 DEF ApiTypeOK
<1>5. ASSUME NEW q \in Reqs, NEW names \in req[q].moved
      PROVE  \E c \in req[q].made : story'[c].on \in names
  <2>1. PICK c \in req[q].made : story[c].on \in names
    BY DEF ApiInv, ReportInv
  <2>2. c \in 1..Len(story)
    BY DEF ApiInv, ApiTypeOK
  <2>3. QED
    BY <1>1, <2>1, <2>2
<1>6. ASSUME NEW q \in Reqs
      PROVE  /\ req'[q].at = "report" => req'[q].claims # <<>>
             /\ req'[q].at \in {"idle", "hard.row", "answer"} => req'[q].claims = <<>>
             /\ req'[q].at \in {"idle", "hard.row"} => req'[q].made = {} /\ req'[q].moved = {}
             /\ req'[q].at = "hard.row" => req'[q].file \in Files
             /\ q \in GuestReqs => req'[q].at \notin {"hard.row", "empty.folders"}
             /\ req'[q].made \subseteq ToSet(req'[q].claims) \cup ToSet(claimOf')
             /\ \A names \in req'[q].moved : \E c \in req'[q].made : story'[c].on \in names
  <2>1. CASE q # p
    <3>1. req'[q] = req[q]
      BY <1>1, <2>1
    <3>2. \A names \in req[q].moved : \E c \in req[q].made : story'[c].on \in names
      BY <1>5
    <3>3. QED
      BY <1>0, <3>1, <3>2 DEF ApiInv, ReportInv
  <2>2. CASE q = p
    <3>1. req[p].claims \in Seq(Events) /\ req'[p].claims \in Seq(Events)
      BY <1>1 DEF ApiInv, ApiTypeOK, Request
    <3>2. place = "report" => req'[p].claims # <<>>
      BY <1>0, <1>1, <3>1
    <3>3. place = "answer" => req'[p].claims = <<>>
      BY <1>0, <1>1, <3>1
    <3>4. req[p].made \subseteq ToSet(req[p].claims) \cup ToSet(claimOf)
      BY DEF ApiInv, ReportInv
    <3>5. req'[p].made \subseteq ToSet(req'[p].claims) \cup ToSet(claimOf')
      BY <1>0, <1>1, <3>4
    <3>6. ASSUME NEW names \in req'[p].moved PROVE \E c \in req'[p].made : story'[c].on \in names
      <4>1. CASE names \in req[p].moved
        BY <1>1, <1>5, <4>1
      <4>2. CASE names \notin req[p].moved
        <5>1. PICK r \in Shifted : names = GoesWith(r)
          BY <1>1, <4>2
        <5>2. QED
          BY <1>1, <1>2a, <5>1
      <4>3. QED
        BY <4>1, <4>2
    <3>7. QED
      BY <1>0, <1>1, <2>2, <3>2, <3>3, <3>5, <3>6
  <2>3. QED
    BY <2>1, <2>2
<1>7. ReportInv'
  BY <1>6 DEF ReportInv
<1>8. QED
  BY <1>4, <1>7 DEF ApiInv

\* A step that leaves requests and claims alone keeps what they say.
LEMMA QuietKeepsApiInv ==
    ASSUME ApiInv, state' \in Standings, UNCHANGED <<home, req, story, claimOf, logged>>
    PROVE  ApiInv'
  BY DEF ApiInv, ApiTypeOK, ReportInv

\* So does one that sets requests back, or only begins one.
LEMMA ResetKeepsApiInv ==
    ASSUME ApiInv, UNCHANGED <<state, home, story, claimOf, logged>>,
           req' \in [Reqs -> Request],
           \A p \in Reqs :
              \/ req'[p] = req[p]
              \/ /\ req'[p].at \in {"idle", "hard.row"}
                 /\ req'[p].at = "hard.row" => req'[p].file \in Files /\ p \notin GuestReqs
                 /\ req'[p].claims = <<>> /\ req'[p].made = {} /\ req'[p].moved = {}
    PROVE  ApiInv'
<1>1. ToSet(<<>>) = {}
  BY DEF ToSet
<1>2. ASSUME NEW p \in Reqs
      PROVE  /\ ToSet(req'[p].claims) \cup req'[p].made \subseteq 1..Len(story')
             /\ req'[p].at = "report" => req'[p].claims # <<>>
             /\ req'[p].at \in {"idle", "hard.row", "answer"} => req'[p].claims = <<>>
             /\ req'[p].at \in {"idle", "hard.row"} => req'[p].made = {} /\ req'[p].moved = {}
             /\ req'[p].at = "hard.row" => req'[p].file \in Files
             /\ p \in GuestReqs => req'[p].at \notin {"hard.row", "empty.folders"}
             /\ req'[p].made \subseteq ToSet(req'[p].claims) \cup ToSet(claimOf')
             /\ \A names \in req'[p].moved : \E c \in req'[p].made : story'[c].on \in names
  <2>1. CASE req'[p] = req[p]
    BY <2>1 DEF ApiInv, ApiTypeOK, ReportInv
  <2>2. CASE req'[p] # req[p]
    BY <1>1, <2>2
  <2>3. QED
    BY <2>1, <2>2
<1>3. /\ state' \in Standings /\ home' \in Homes
      /\ story' \in Seq(Claim) /\ Len(story') <= MaxEvents
      /\ claimOf' \in Seq(Events) /\ Len(claimOf') = logged'
      /\ ToSet(claimOf') \subseteq 1..Len(story')
  BY DEF ApiInv, ApiTypeOK
<1>4. QED
  BY <1>2, <1>3 DEF ApiInv, ApiTypeOK, ReportInv

\* The steps keep ReportInv.
LEMMA NextApiInv == ApiInv /\ [ApiNext]_allVars => ApiInv'
<1> SUFFICES ASSUME ApiInv, [ApiNext]_allVars PROVE ApiInv'
  OBVIOUS
<1>t. ApiTypeOK /\ ReportInv
  BY DEF ApiInv
<1>s. state \in Standings /\ req \in [Reqs -> Request]
  BY <1>t DEF ApiTypeOK
<1>q. /\ Quiet \in Request
      /\ Quiet.at = "idle" /\ Quiet.claims = <<>> /\ Quiet.made = {} /\ Quiet.moved = {}
  BY DEF Quiet, Places, Request
<1>1. CASE UNCHANGED allVars
  BY <1>1, <1>s, QuietKeepsApiInv DEF allVars
<1>2. ASSUME NEW p \in Reqs, NEW C, NEW place, Works(p, C, place) PROVE ApiInv'
  BY <1>2, WorkKeepsApiInv
<1>3. ASSUME NEW r \in Files \cup Folders, Purge(r) PROVE ApiInv'
  BY <1>3, PurgeFacts, QuietKeepsApiInv DEF auditVars
<1>4. ASSUME NEW p \in OwnerReqs, NEW x \in Files, trashDeleteBlob(p, x) PROVE ApiInv'
  <2> DEFINE rec == [Quiet EXCEPT !.at = "hard.row", !.file = x]
  <2>1. /\ rec \in Request
        /\ rec.at = "hard.row" /\ rec.file = x /\ rec.claims = <<>>
        /\ rec.made = {} /\ rec.moved = {}
    BY <1>q DEF Places, Request
  <2>2. /\ req' = [req EXCEPT ![p] = rec] /\ p \in Reqs /\ p \notin GuestReqs
        /\ UNCHANGED <<auditVars, state, home, story, claimOf>>
    BY <1>4, ThingsAssumption DEF trashDeleteBlob, Reqs
  <2> HIDE DEF rec
  <2>3. /\ req' \in [Reqs -> Request]
        /\ \A q \in Reqs : req'[q] = req[q] \/ (q = p /\ req'[q] = rec)
    BY <1>s, <2>1, <2>2
  <2>4. QED
    BY <2>1, <2>2, <2>3, ResetKeepsApiInv DEF auditVars
<1>5. ASSUME NEW p \in Reqs, Report(p) PROVE ApiInv'
  <2> DEFINE old == req[p].claims
  <2>1. old \in Seq(Events) /\ old # <<>> /\ claimOf \in Seq(Events) /\ Len(claimOf) = logged
    BY <1>5, <1>t DEF Report, ReportInv, ApiTypeOK, Request
  <2>2. /\ Head(old) \in Events /\ Tail(old) \in Seq(Events)
        /\ ToSet(old) = {Head(old)} \cup ToSet(Tail(old))
    BY <2>1, TailFacts, TailSet
  <2>3. /\ claimOf' = Append(claimOf, Head(old)) /\ logged' = logged + 1
        /\ req' = [req EXCEPT ![p].claims = Tail(old),
                              ![p].at = IF Tail(old) = <<>> THEN "answer" ELSE "report"]
        /\ UNCHANGED <<state, home, story>>
    BY <1>5 DEF Report, LogAsync
  <2>4. /\ claimOf' \in Seq(Events) /\ Len(claimOf') = logged'
        /\ ToSet(claimOf') = ToSet(claimOf) \cup {Head(old)}
    BY <2>1, <2>2, <2>3, AppendFacts, AppendSet
  <2> HIDE DEF old
  <2> DEFINE rec == [req[p] EXCEPT !.claims = Tail(old),
                                   !.at = IF Tail(old) = <<>> THEN "answer" ELSE "report"]
  <2>r. req[p] \in Request
    BY <1>s
  <2>5. /\ rec \in Request
        /\ rec.claims = Tail(old) /\ rec.made = req[p].made /\ rec.moved = req[p].moved
        /\ rec.at = IF Tail(old) = <<>> THEN "answer" ELSE "report"
    BY <2>2, <2>r DEF Request, Places
  <2>5a. req' = [req EXCEPT ![p] = rec]
    BY <2>3
  <2> HIDE DEF rec
  <2>5b. /\ req' \in [Reqs -> Request]
         /\ \A q \in Reqs \ {p} : req'[q] = req[q]
         /\ req'[p] = rec
    BY <1>s, <2>5, <2>5a
  <2>6. \A q \in Reqs : ToSet(req[q].claims) \cup req[q].made \subseteq 1..Len(story)
    BY <1>t DEF ApiTypeOK
  <2>7. ASSUME NEW q \in Reqs
        PROVE  /\ ToSet(req'[q].claims) \cup req'[q].made \subseteq 1..Len(story')
               /\ req'[q].at = "report" => req'[q].claims # <<>>
               /\ req'[q].at \in {"idle", "hard.row", "answer"} => req'[q].claims = <<>>
               /\ req'[q].at \in {"idle", "hard.row"} => req'[q].made = {} /\ req'[q].moved = {}
               /\ req'[q].at = "hard.row" => req'[q].file \in Files
               /\ q \in GuestReqs => req'[q].at \notin {"hard.row", "empty.folders"}
               /\ req'[q].made \subseteq ToSet(req'[q].claims) \cup ToSet(claimOf')
               /\ \A names \in req'[q].moved : \E c \in req'[q].made : story'[c].on \in names
    <3>1. /\ req[q].made \subseteq ToSet(req[q].claims) \cup ToSet(claimOf)
          /\ \A names \in req[q].moved : \E c \in req[q].made : story'[c].on \in names
      BY <1>t, <2>3 DEF ReportInv
    <3>2. CASE q = p
      <4>1. /\ ToSet(old) \cup req[p].made \subseteq 1..Len(story')
            /\ req[p].made \subseteq ToSet(old) \cup ToSet(claimOf)
        BY <2>3, <2>6, <3>1, <3>2 DEF old
      <4>2. /\ ToSet(Tail(old)) \cup req[p].made \subseteq 1..Len(story')
            /\ req[p].made \subseteq ToSet(Tail(old)) \cup ToSet(claimOf')
        BY <2>2, <2>4, <4>1
      <4>3. QED
        BY <2>5, <2>5b, <3>1, <3>2, <4>2
    <3>3. CASE q # p
      <4>1. req'[q] = req[q]
        BY <2>5b, <3>3
      <4>2. QED
        BY <1>t, <2>3, <2>4, <2>6, <3>1, <4>1 DEF ReportInv
    <3>4. QED
      BY <3>2, <3>3
  <2>8. ToSet(claimOf') \subseteq 1..Len(story')
    <3>1. Head(old) \in 1..Len(story) /\ ToSet(claimOf) \subseteq 1..Len(story)
      BY <1>t, <2>2, <2>6 DEF old, ApiTypeOK
    <3>2. QED
      BY <2>3, <2>4, <3>1
  <2>9. ApiTypeOK'
    BY <1>t, <2>3, <2>4, <2>5b, <2>7, <2>8 DEF ApiTypeOK
  <2>10. QED
    BY <2>7, <2>9 DEF ApiInv, ReportInv
<1>6. ASSUME NEW p \in Reqs, Answer(p) \/ UseCaseFails(p) PROVE ApiInv'
  <2>1. /\ req' = [req EXCEPT ![p] = Quiet]
        /\ UNCHANGED <<auditVars, state, home, story, claimOf>>
    BY <1>6 DEF Answer, UseCaseFails
  <2>2. /\ req' \in [Reqs -> Request]
        /\ \A q \in Reqs : req'[q] = req[q] \/ req'[q] = Quiet
    BY <1>q, <1>s, <2>1
  <2>3. QED
    BY <1>q, <2>1, <2>2, ResetKeepsApiInv DEF auditVars
<1>7. CASE Background
  <2>1. UNCHANGED logged
    BY <1>7 DEF Background, Worker, Receive, Done, Drain, Insert, Stop, Restart
  <2>2. QED
    BY <1>7, <2>1, <1>s, QuietKeepsApiInv DEF Background, apiVars
<1>8. CASE ApiExit
  <2>1. /\ req' = [p \in Reqs |-> Quiet]
        /\ UNCHANGED <<logged, state, home, story, claimOf>>
    BY <1>8 DEF ApiExit, Exit
  <2>2. req' \in [Reqs -> Request] /\ \A q \in Reqs : req'[q] = Quiet
    BY <1>q, <2>1
  <2>3. QED
    BY <1>q, <2>1, <2>2, ResetKeepsApiInv
<1>9. QED
  BY <1>1, <1>2, <1>3, <1>4, <1>5, <1>6, <1>7, <1>8, StepCases

\* Every variable of the handlers has its type, in every state: a claim is a
\* position in the story, and each event of the trail has one.
THEOREM ApiTypeCorrect == ApiSpec => []ApiTypeOK
<1>1. ApiInv => ApiTypeOK
  BY DEF ApiInv
<1>2. QED
  BY <1>1, InitApiInv, NextApiInv, PTL DEF ApiSpec

\* When a request is confirmed, an event of each thing that it showed, hid or
\* moved between the pages, or of the folder or file that it went with, has been
\* handed to the audit trail, in whatever order requests interleave, fail or die.
\* The start and the abort of an upload move nothing between the pages.
THEOREM AnswersAreReported == ApiSpec => []AcknowledgedIsReported
<1>1. ASSUME ApiInv PROVE AcknowledgedIsReported
  <2>1. SUFFICES ASSUME NEW p \in Reqs, req[p].at = "answer", NEW names \in req[p].moved
                 PROVE  \E c \in req[p].made \cap ToSet(claimOf) : story[c].on \in names
    BY DEF AcknowledgedIsReported
  <2>2. /\ req[p].claims = <<>>
        /\ req[p].made \subseteq ToSet(req[p].claims) \cup ToSet(claimOf)
        /\ \E c \in req[p].made : story[c].on \in names
    BY <1>1, <2>1 DEF ApiInv, ReportInv
  <2>3. ToSet(<<>>) = {}
    BY DEF ToSet
  <2>4. QED
    BY <2>2, <2>3
<1>2. QED
  BY <1>1, InitApiInv, NextApiInv, PTL DEF ApiSpec

-----------------------------------------------------------------------------
\* The trail tells where things stand

TellInv == GuestInv /\ StoryInv /\ QueueInv

\* The claims that tell of a thing after a use case are the old ones and its own.
LEMMA ClaimsAfter ==
    ASSUME ApiTypeOK, NEW p \in Reqs, NEW C \in Seq(Claim), NEW place \in Places,
           Made(p, C, place), NEW r
    PROVE  /\ ClaimsOn(r) \subseteq ClaimsOn(r)'
           /\ \A c \in ClaimsOn(r) : c \in 1..Len(story) /\ story'[c] = story[c]
           /\ \A i \in 1..Len(C) : r \in DOMAIN C[i].now => Len(story) + i \in ClaimsOn(r)'
           /\ \A c \in ClaimsOn(r)' :
                \/ c \in ClaimsOn(r)
                \/ \E i \in 1..Len(C) : r \in DOMAIN C[i].now /\ c = Len(story) + i /\ story'[c] = C[i]
<1>1. /\ Len(story) \in Nat /\ Len(C) \in Nat /\ Len(story') = Len(story) + Len(C)
      /\ \A c \in 1..Len(story) : story'[c] = story[c]
      /\ \A i \in 1..Len(C) : story'[Len(story) + i] = C[i]
  BY MadeFacts
<1>2. ClaimsOn(r)' = {c \in 1..(Len(story) + Len(C)) : r \in DOMAIN story'[c].now}
  BY <1>1 DEF ClaimsOn
<1>3. ClaimsOn(r) = {c \in 1..Len(story) : r \in DOMAIN story[c].now}
  BY DEF ClaimsOn
<1>4. 1..Len(story) \subseteq 1..(Len(story) + Len(C))
  BY <1>1
<1>5. ASSUME NEW c \in ClaimsOn(r)'
      PROVE  \/ c \in ClaimsOn(r)
             \/ \E i \in 1..Len(C) : r \in DOMAIN C[i].now /\ c = Len(story) + i /\ story'[c] = C[i]
  <2>1. CASE c \in 1..Len(story)
    BY <1>1, <1>2, <1>3, <2>1
  <2>2. CASE c \notin 1..Len(story)
    <3>1. c - Len(story) \in 1..Len(C) /\ c = Len(story) + (c - Len(story))
      BY <1>1, <1>2, <2>2
    <3>2. QED
      BY <1>1, <1>2, <3>1
  <2>3. QED
    BY <2>1, <2>2
<1>6. \A i \in 1..Len(C) : Len(story) + i \in 1..(Len(story) + Len(C))
  BY <1>1
<1>7. QED
  BY <1>1, <1>2, <1>3, <1>4, <1>5, <1>6

\* New claims come after all that were made, so they keep the order.
LEMMA MadeKeepsQueue ==
    ASSUME ApiInv, QueueInv, NEW p \in Reqs, NEW C \in Seq(Claim), NEW place \in Places,
           Made(p, C, place), UNCHANGED claimOf
    PROVE  QueueInv'
<1> DEFINE old == req[p].claims
           new == req'[p].claims
<1>1. /\ Len(story) \in Nat /\ Len(C) \in Nat
      /\ \A c \in 1..Len(story) : story'[c] = story[c]
      /\ \A q \in Reqs \ {p} : req'[q] = req[q]
      /\ Len(old) \in Nat
      /\ Len(new) = Len(old) + Len(C)
      /\ \A k \in 1..Len(old) : new[k] = old[k]
      /\ \A k \in 1..Len(C) : new[Len(old) + k] = Len(story) + k
  BY MadeFacts DEF ApiInv
<1>n. Len(story) \in Nat /\ Len(C) \in Nat /\ Len(old) \in Nat
  BY <1>1
<1>2. \A i \in 1..Len(claimOf) : claimOf[i] \in 1..Len(story)
  <2>1. claimOf \in Seq(Events) /\ ToSet(claimOf) \subseteq 1..Len(story)
    BY DEF ApiInv, ApiTypeOK, Request
  <2>2. ToSet(claimOf) = {claimOf[i] : i \in 1..Len(claimOf)}
    BY <2>1, ToSetFacts
  <2>3. QED
    BY <2>1, <2>2
<1>3. \A k \in 1..Len(old) : old[k] \in 1..Len(story)
  <2>1. old \in Seq(Events) /\ ToSet(old) \subseteq 1..Len(story)
    BY DEF ApiInv, ApiTypeOK, Request
  <2>2. ToSet(old) = {old[k] : k \in 1..Len(old)}
    BY <2>1, ToSetFacts
  <2>3. QED
    BY <2>1, <2>2
<1> HIDE DEF old, new
<1>4. \A i \in 1..Len(claimOf) : Own(claimOf[i])' <=> Own(claimOf[i])
  BY <1>1, <1>2 DEF Own
<1>5. \A i, j \in 1..Len(claimOf') :
        i < j /\ Own(claimOf[i])' /\ Own(claimOf[j])' => claimOf'[i] < claimOf'[j]
  BY <1>4 DEF QueueInv
<1>6. \A k \in 1..Len(new) :
        \/ k \in 1..Len(old) /\ new[k] = old[k]
        \/ /\ k - Len(old) \in 1..Len(C) /\ k > Len(old)
           /\ new[k] = Len(story) + (k - Len(old))
  <2>1. SUFFICES ASSUME NEW k \in 1..Len(new), k \notin 1..Len(old)
                 PROVE  /\ k - Len(old) \in 1..Len(C) /\ k > Len(old)
                        /\ new[k] = Len(story) + (k - Len(old))
    BY <1>1
  <2>2. /\ k - Len(old) \in 1..Len(C) /\ k > Len(old)
        /\ k = Len(old) + (k - Len(old))
    BY <1>1, <2>1
  <2>3. QED
    BY <1>1, <2>2
<1>7. ASSUME NEW q \in OwnerReqs
      PROVE  /\ \A j, k \in 1..Len(req'[q].claims) :
                    j < k => req'[q].claims[j] < req'[q].claims[k]
             /\ \A i \in 1..Len(claimOf'), k \in 1..Len(req'[q].claims) :
                    Own(claimOf[i])' => claimOf'[i] < req'[q].claims[k]
  <2>q. q \in Reqs
    BY DEF Reqs
  <2>1. CASE q # p
    <3>1. req'[q] = req[q]
      BY <1>1, <2>1, <2>q
    <3>2. QED
      BY <1>4, <3>1 DEF QueueInv
  <2>2. CASE q = p
    <3>1. /\ \A j, k \in 1..Len(old) : j < k => old[j] < old[k]
          /\ \A i \in 1..Len(claimOf), k \in 1..Len(old) :
               Own(claimOf[i]) => claimOf[i] < old[k]
      BY <2>2 DEF QueueInv, old
    <3>2. ASSUME NEW j \in 1..Len(new), NEW k \in 1..Len(new), j < k
          PROVE  new[j] < new[k]
      <4>1. CASE k \in 1..Len(old)
        <5>1. j \in 1..Len(old)
          BY <1>1, <3>2, <4>1
        <5>2. QED
          BY <1>1, <3>1, <3>2, <4>1, <5>1
      <4>2. CASE k \notin 1..Len(old)
        <5>1. /\ k - Len(old) \in 1..Len(C)
              /\ new[k] = Len(story) + (k - Len(old))
          BY <1>6, <4>2
        <5>2. CASE j \in 1..Len(old)
          <6>1. new[j] \in 1..Len(story)
            BY <1>1, <1>3, <5>2
          <6>2. QED
            BY <1>n, <5>1, <6>1
        <5>3. CASE j \notin 1..Len(old)
          <6>1. new[j] = Len(story) + (j - Len(old))
            BY <1>6, <5>3
          <6>2. QED
            BY <1>n, <3>2, <5>1, <6>1
        <5>4. QED
          BY <5>2, <5>3
      <4>3. QED
        BY <4>1, <4>2
    <3>3. ASSUME NEW i \in 1..Len(claimOf'), NEW k \in 1..Len(new), Own(claimOf[i])'
          PROVE  claimOf'[i] < new[k]
      <4>1. claimOf'[i] \in 1..Len(story) /\ Own(claimOf[i])
        BY <1>2, <1>4, <3>3
      <4>2. CASE k \in 1..Len(old)
        BY <1>1, <3>1, <4>1, <4>2
      <4>3. CASE k \notin 1..Len(old)
        <5>1. /\ k - Len(old) \in 1..Len(C)
              /\ new[k] = Len(story) + (k - Len(old))
          BY <1>6, <4>3
        <5>2. QED
          BY <1>n, <4>1, <5>1
      <4>4. QED
        BY <4>2, <4>3
    <3>4. QED
      BY <2>2, <3>2, <3>3 DEF new
  <2>3. QED
    BY <2>1, <2>2
<1>8. QED
  BY <1>5, <1>7 DEF QueueInv

\* Use cases keep what the story tells, when the owner has no other request under
\* way.
LEMMA WorkKeepsTell ==
    ASSUME ApiInv, TellInv, NEW o, OwnerReqs = {o},
           NEW p \in Reqs, NEW C, NEW place, Works(p, C, place)
    PROVE  TellInv'
<1>t. ApiTypeOK /\ GuestInv /\ StoryInv /\ QueueInv
  BY DEF ApiInv, TellInv
<1>w. /\ C \in Seq(Claim) /\ place \in {"empty.folders", "report", "answer"} /\ place \in Places
      /\ Made(p, C, place) /\ ToldRight(C) /\ UNCHANGED claimOf
      /\ p \in GuestReqs =>
           place = "report" /\ state' = state /\ \A i \in 1..Len(C) : DOMAIN C[i].now = {}
  BY <1>t DEF Works, Places
<1>m. /\ Len(story) \in Nat /\ Len(C) \in Nat /\ Len(story') = Len(story) + Len(C)
      /\ \A c \in 1..Len(story) : story'[c] = story[c]
      /\ \A i \in 1..Len(C) : story'[Len(story) + i] = C[i]
      /\ \A q \in Reqs \ {p} : req'[q] = req[q]
      /\ req'[p].at = place
      /\ ToSet(req'[p].claims) = ToSet(req[p].claims) \cup (Len(story) + 1)..Len(story')
  BY <1>t, <1>w, MadeFacts
<1>1. QueueInv'
  BY <1>t, <1>w, MadeKeepsQueue
<1>2. ASSUME NEW q \in GuestReqs, NEW c \in ToSet(req'[q].claims) PROVE ~Own(c)'
  <2>1. q \in Reqs /\ ToSet(req[q].claims) \subseteq 1..Len(story)
    BY <1>t DEF Reqs, ApiTypeOK
  <2>2. CASE c \in ToSet(req[q].claims)
    BY <1>m, <1>t, <2>1, <2>2 DEF GuestInv, Own
  <2>3. CASE c \notin ToSet(req[q].claims)
    <3>1. q = p /\ c \in (Len(story) + 1)..Len(story')
      BY <1>2, <1>m, <2>1, <2>3
    <3>2. c - Len(story) \in 1..Len(C) /\ c = Len(story) + (c - Len(story))
      BY <1>m, <3>1
    <3>3. story'[c] = C[c - Len(story)]
      BY <1>m, <3>2
    <3>4. QED
      BY <1>w, <3>1, <3>2, <3>3 DEF Own
  <2>4. QED
    BY <2>2, <2>3
<1>3. GuestInv'
  BY <1>2 DEF GuestInv
<1>4. ASSUME NEW r \in Things, NEW c \in ClaimsOn(r)'
      PROVE  /\ state'[r] # "none"
             /\ LastClaim(r, c)' => state'[r] \in {story'[c].now[r], "gone"}
  <2>1. /\ ClaimsOn(r) \subseteq ClaimsOn(r)'
        /\ \A d \in ClaimsOn(r) : d \in 1..Len(story) /\ story'[d] = story[d]
        /\ \A i \in 1..Len(C) : r \in DOMAIN C[i].now => Len(story) + i \in ClaimsOn(r)'
        /\ \A d \in ClaimsOn(r)' :
             \/ d \in ClaimsOn(r)
             \/ \E i \in 1..Len(C) :
                  r \in DOMAIN C[i].now /\ d = Len(story) + i /\ story'[d] = C[i]
    BY <1>t, <1>w, ClaimsAfter
  <2>2. CASE \E i \in 1..Len(C) : r \in DOMAIN C[i].now
    <3>1. PICK i \in 1..Len(C) : r \in DOMAIN C[i].now
      BY <2>2
    <3>2. Len(story) + i \in ClaimsOn(r)' /\ state'[r] # "none"
      BY <1>w, <2>1, <3>1 DEF ToldRight
    <3>3. ASSUME LastClaim(r, c)' PROVE state'[r] \in {story'[c].now[r], "gone"}
      <4>1. Len(story) + i <= c
        BY <3>2, <3>3 DEF LastClaim
      <4>2. c \notin ClaimsOn(r)
        BY <1>m, <2>1, <4>1
      <4>3. PICK k \in 1..Len(C) : r \in DOMAIN C[k].now /\ story'[c] = C[k]
        BY <1>4, <2>1, <4>2
      <4>4. QED
        BY <1>w, <4>3 DEF ToldRight
    <3>4. QED
      BY <3>2, <3>3
  <2>3. CASE ~\E i \in 1..Len(C) : r \in DOMAIN C[i].now
    <3>1. c \in ClaimsOn(r) /\ story'[c] = story[c]
      BY <1>4, <2>1, <2>3
    <3>2. state'[r] \in {state[r], "gone"}
      BY <1>w, <2>3, <3>1 DEF ToldRight
    <3>3. /\ state[r] # "none"
          /\ LastClaim(r, c) => state[r] \in {story[c].now[r], "gone"}
      BY <1>t, <3>1 DEF StoryInv
    <3>4. LastClaim(r, c)' => LastClaim(r, c)
      BY <2>1, <3>1 DEF LastClaim
    <3>5. QED
      BY <3>1, <3>2, <3>3, <3>4
  <2>4. QED
    BY <2>2, <2>3
<1>5. ASSUME NEW q \in Reqs, req'[q].at = "hard.row"
      PROVE  state'[req'[q].file] \in InTrash \cup {"gone"}
  <2>1. q # p /\ req'[q] = req[q]
    BY <1>5, <1>m, <1>w
  <2>2. q \in OwnerReqs
    BY <1>5, <2>1 DEF ApiInv, ReportInv, Reqs
  <2>3. p \in GuestReqs
    BY <2>1, <2>2 DEF Reqs
  <2>4. QED
    BY <1>5, <1>t, <1>w, <2>1, <2>3 DEF StoryInv
<1>6. QED
  BY <1>1, <1>3, <1>4, <1>5 DEF TellInv, StoryInv

\* A step that makes no claim and reports none keeps what the story tells, if it
\* only deletes things.
LEMMA RestKeepsTell ==
    ASSUME TellInv, UNCHANGED <<story, claimOf>>,
           \A r \in Things : state'[r] \in {state[r], "gone"},
           \A p \in Reqs :
              \/ req'[p] = req[p]
              \/ req'[p].claims = <<>>,
           \A p \in Reqs :
              req'[p].at = "hard.row" => state'[req'[p].file] \in InTrash \cup {"gone"}
    PROVE  TellInv'
<1>t. GuestInv /\ StoryInv /\ QueueInv
  BY DEF TellInv
<1>1. /\ \A r : ClaimsOn(r)' = ClaimsOn(r)
      /\ \A c : Own(c)' <=> Own(c)
  BY DEF ClaimsOn, Own
<1>2. ASSUME NEW p \in GuestReqs, NEW c \in ToSet(req'[p].claims) PROVE ~Own(c)
  <2>1. p \in Reqs
    BY DEF Reqs
  <2>2. CASE req'[p] = req[p]
    BY <1>2, <1>t, <2>2 DEF GuestInv
  <2>3. CASE req'[p] # req[p]
    <3>1. ToSet(req'[p].claims) = {}
      BY <2>1, <2>3 DEF ToSet
    <3>2. QED
      BY <1>2, <3>1
  <2>4. QED
    BY <2>2, <2>3
<1>3. GuestInv'
  BY <1>1, <1>2 DEF GuestInv
<1>4. StoryInv'
  <2>1. ASSUME NEW r \in Things, NEW c \in ClaimsOn(r)
        PROVE  /\ state'[r] # "none"
               /\ LastClaim(r, c)' => state'[r] \in {story'[c].now[r], "gone"}
    <3>1. state'[r] \in {state[r], "gone"}
      BY <2>1
    <3>2. LastClaim(r, c)' <=> LastClaim(r, c)
      BY <1>1 DEF LastClaim
    <3>3. /\ state[r] # "none"
          /\ LastClaim(r, c) => state[r] \in {story[c].now[r], "gone"}
      BY <1>t DEF StoryInv
    <3>4. QED
      BY <3>1, <3>2, <3>3
  <2>2. QED
    BY <1>1, <2>1 DEF StoryInv
<1>5. QueueInv'
  <2>1. \A c : Own(c)' <=> Own(c)
    BY <1>1
  <2>2. ASSUME NEW p \in OwnerReqs
        PROVE  /\ \A j, k \in 1..Len(req'[p].claims) :
                    j < k => req'[p].claims[j] < req'[p].claims[k]
               /\ \A i \in 1..Len(claimOf'), k \in 1..Len(req'[p].claims) :
                    Own(claimOf[i])' => claimOf'[i] < req'[p].claims[k]
    <3>1. p \in Reqs
      BY DEF Reqs
    <3>2. CASE req'[p] = req[p]
      BY <1>t, <2>1, <3>2 DEF QueueInv
    <3>3. CASE req'[p] # req[p]
      <4>1. req'[p].claims = <<>> /\ 1..Len(<<>>) = {}
        BY <3>1, <3>3
      <4>2. QED
        BY <4>1
    <3>4. QED
      BY <3>2, <3>3
  <2>3. \A i, j \in 1..Len(claimOf') :
          i < j /\ Own(claimOf[i])' /\ Own(claimOf[j])' => claimOf'[i] < claimOf'[j]
    BY <1>t, <2>1 DEF QueueInv
  <2>4. QED
    BY <2>2, <2>3 DEF QueueInv
<1>6. QED
  BY <1>3, <1>4, <1>5 DEF TellInv

\* Reporting the oldest claim of a request keeps the order, when the owner has no
\* other request under way.
LEMMA ReportKeepsTell ==
    ASSUME ApiInv, TellInv, NEW o, OwnerReqs = {o}, NEW p \in Reqs, Report(p)
    PROVE  TellInv'
<1> DEFINE old == req[p].claims
           new == req'[p].claims
           c0 == Head(old)
<1>t. ApiTypeOK /\ ReportInv /\ GuestInv /\ StoryInv /\ QueueInv
  BY DEF ApiInv, TellInv
<1>1. old \in Seq(Events) /\ old # <<>> /\ claimOf \in Seq(Events)
  BY <1>t DEF Report, ReportInv, ApiTypeOK, Request
<1>2. /\ c0 = old[1] /\ c0 \in Events /\ Tail(old) \in Seq(Events)
      /\ Len(old) \in Nat \ {0} /\ Len(Tail(old)) = Len(old) - 1
      /\ \A k \in 1..(Len(old) - 1) : Tail(old)[k] = old[k + 1]
      /\ ToSet(old) = {c0} \cup ToSet(Tail(old))
  BY <1>1, TailFacts, TailSet
<1>3. /\ claimOf' = Append(claimOf, c0)
      /\ req' = [req EXCEPT ![p].claims = Tail(old),
                            ![p].at = IF Tail(old) = <<>> THEN "answer" ELSE "report"]
      /\ UNCHANGED <<state, story>>
  BY DEF Report
<1>4. /\ Len(claimOf) \in Nat /\ Len(claimOf') = Len(claimOf) + 1
      /\ \A i \in 1..Len(claimOf) : claimOf'[i] = claimOf[i]
      /\ claimOf'[Len(claimOf) + 1] = c0
  BY <1>1, <1>2, <1>3, AppendFacts
<1>5. /\ \A q \in Reqs \ {p} : req'[q] = req[q]
      /\ new = Tail(old) /\ req'[p].at \in {"answer", "report"}
  BY <1>t, <1>3 DEF ApiTypeOK, Request
<1> HIDE DEF old, new, c0
<1>6. \A c : Own(c)' <=> Own(c)
  BY <1>3 DEF Own
<1>7. /\ \A r : ClaimsOn(r)' = ClaimsOn(r)
      /\ \A r, c : LastClaim(r, c)' <=> LastClaim(r, c)
  BY <1>3 DEF ClaimsOn, LastClaim
<1>8. ASSUME NEW q \in GuestReqs, NEW c \in ToSet(req'[q].claims) PROVE ~Own(c)
  <2>1. q \in Reqs /\ \A d \in ToSet(req[q].claims) : ~Own(d)
    BY <1>t DEF GuestInv, Reqs
  <2>2. CASE q = p
    BY <1>2, <1>5, <1>8, <2>1, <2>2 DEF old, new
  <2>3. CASE q # p
    BY <1>5, <1>8, <2>1, <2>3
  <2>4. QED
    BY <2>2, <2>3
<1>9. GuestInv'
  BY <1>6, <1>8 DEF GuestInv
<1>10. StoryInv'
  <2>1. ASSUME NEW q \in Reqs, req'[q].at = "hard.row"
        PROVE  state'[req'[q].file] \in InTrash \cup {"gone"}
    <3>1. req'[q] = req[q]
      BY <1>5, <2>1
    <3>2. QED
      BY <1>t, <1>3, <2>1, <3>1 DEF StoryInv
  <2>2. QED
    BY <1>t, <1>3, <1>7, <2>1 DEF StoryInv
<1>11. CASE p \in OwnerReqs
  <2>1. /\ \A j, k \in 1..Len(old) : j < k => old[j] < old[k]
        /\ \A i \in 1..Len(claimOf), k \in 1..Len(old) : Own(claimOf[i]) => claimOf[i] < old[k]
        /\ \A i, j \in 1..Len(claimOf) :
             i < j /\ Own(claimOf[i]) /\ Own(claimOf[j]) => claimOf[i] < claimOf[j]
    BY <1>t, <1>11 DEF QueueInv, old
  <2>2. \A i \in 1..Len(claimOf) : Own(claimOf[i]) => claimOf[i] < c0
    BY <1>2, <2>1
  <2>3. \A k \in 1..Len(new) : k + 1 \in 1..Len(old) /\ new[k] = old[k + 1]
    BY <1>2, <1>5
  <2>4. \A k \in 1..Len(new) : c0 < new[k]
    <3>1. SUFFICES ASSUME NEW k \in 1..Len(new) PROVE c0 < new[k]
      OBVIOUS
    <3>2. 1 \in 1..Len(old) /\ k + 1 \in 1..Len(old) /\ 1 < k + 1
      BY <1>2, <2>3
    <3>3. QED
      BY <1>2, <2>1, <2>3, <3>2
  <2>5. \A i \in 1..Len(claimOf') :
          \/ i \in 1..Len(claimOf) /\ claimOf'[i] = claimOf[i]
          \/ i = Len(claimOf) + 1 /\ claimOf'[i] = c0
    BY <1>4
  <2>6. \A i, j \in 1..Len(claimOf') :
          i < j /\ Own(claimOf'[i]) /\ Own(claimOf'[j]) => claimOf'[i] < claimOf'[j]
    <3>1. SUFFICES ASSUME NEW i \in 1..Len(claimOf'), NEW j \in 1..Len(claimOf'),
                          i < j, Own(claimOf'[i])
                   PROVE  Own(claimOf'[j]) => claimOf'[i] < claimOf'[j]
      OBVIOUS
    <3>2. i \in 1..Len(claimOf) /\ claimOf'[i] = claimOf[i]
      BY <1>4, <3>1
    <3>3. CASE j \in 1..Len(claimOf)
      BY <1>4, <2>1, <3>1, <3>2, <3>3
    <3>4. CASE j \notin 1..Len(claimOf)
      BY <2>2, <2>5, <3>1, <3>2, <3>4
    <3>5. QED
      BY <3>3, <3>4
  <2>7. \A j, k \in 1..Len(new) : j < k => new[j] < new[k]
    <3>1. SUFFICES ASSUME NEW j \in 1..Len(new), NEW k \in 1..Len(new), j < k
                   PROVE  new[j] < new[k]
      OBVIOUS
    <3>2. j + 1 < k + 1 /\ j + 1 \in 1..Len(old) /\ k + 1 \in 1..Len(old)
      BY <2>3, <3>1
    <3>3. QED
      BY <2>1, <2>3, <3>2
  <2>8. \A i \in 1..Len(claimOf'), k \in 1..Len(new) : Own(claimOf'[i]) => claimOf'[i] < new[k]
    <3>1. SUFFICES ASSUME NEW i \in 1..Len(claimOf'), NEW k \in 1..Len(new), Own(claimOf'[i])
                   PROVE  claimOf'[i] < new[k]
      OBVIOUS
    <3>2. CASE i \in 1..Len(claimOf)
      BY <1>4, <2>1, <2>3, <3>1, <3>2
    <3>3. CASE i \notin 1..Len(claimOf)
      BY <2>4, <2>5, <3>3
    <3>4. QED
      BY <3>2, <3>3
  <2>9. QueueInv'
    <3>1. \A q \in OwnerReqs : q = p
      BY <1>11
    <3>2. \A q \in OwnerReqs : req'[q].claims = new
      BY <3>1 DEF new
    <3>3. QED
      BY <1>6, <2>6, <2>7, <2>8, <3>2 DEF QueueInv
  <2>10. QED
    BY <1>9, <1>10, <2>9 DEF TellInv
<1>12. CASE p \notin OwnerReqs
  <2>1. ~Own(c0)
    <3>1. p \in GuestReqs /\ c0 \in ToSet(old)
      BY <1>2, <1>12 DEF Reqs
    <3>2. QED
      BY <1>t, <3>1 DEF GuestInv, old
  <2>2. \A i \in 1..Len(claimOf') :
          Own(claimOf'[i]) => i \in 1..Len(claimOf) /\ claimOf'[i] = claimOf[i]
    <3>1. \A i \in 1..Len(claimOf') :
            \/ i \in 1..Len(claimOf) /\ claimOf'[i] = claimOf[i]
            \/ i = Len(claimOf) + 1 /\ claimOf'[i] = c0
      BY <1>4
    <3>2. QED
      BY <2>1, <3>1
  <2>3. \A q \in OwnerReqs : req'[q] = req[q]
    BY <1>5, <1>12 DEF Reqs
  <2>4. QueueInv'
    BY <1>t, <1>6, <2>2, <2>3 DEF QueueInv
  <2>5. QED
    BY <1>9, <1>10, <2>4 DEF TellInv
<1>13. QED
  BY <1>11, <1>12

\* At first nothing is told.
LEMMA InitTellInv == ApiInit => TellInv
<1> SUFFICES ASSUME ApiInit PROVE TellInv
  OBVIOUS
<1>1. /\ story = <<>> /\ claimOf = <<>>
      /\ \A p \in Reqs : req[p].at = "idle" /\ req[p].claims = <<>>
  BY DEF ApiInit, Quiet
<1>2. /\ \A r : ClaimsOn(r) = {}
      /\ ToSet(<<>>) = {} /\ 1..Len(<<>>) = {}
  BY <1>1 DEF ClaimsOn, ToSet
<1>3. OwnerReqs \subseteq Reqs /\ GuestReqs \subseteq Reqs
  BY DEF Reqs
<1>4. GuestInv
  BY <1>1, <1>2, <1>3 DEF GuestInv
<1>5. StoryInv
  BY <1>1, <1>2 DEF StoryInv
<1>6. QueueInv
  BY <1>1, <1>2, <1>3 DEF QueueInv
<1>7. QED
  BY <1>4, <1>5, <1>6 DEF TellInv

\* With one request of the owner at a time, every step keeps what the story tells
\* and the order of the reports.
LEMMA NextTellInv ==
    ASSUME NEW o, OwnerReqs = {o}
    PROVE  ApiInv /\ TellInv /\ [ApiNext]_allVars => TellInv'
<1> SUFFICES ASSUME ApiInv, TellInv, [ApiNext]_allVars PROVE TellInv'
  OBVIOUS
<1>t. ApiTypeOK /\ ReportInv /\ StoryInv
  BY DEF ApiInv, TellInv
<1>h. \A p \in Reqs : req[p].at = "hard.row" =>
         req[p].file \in Things /\ state[req[p].file] \in InTrash \cup {"gone"}
  BY <1>t DEF StoryInv, ReportInv, Things
<1>r. req \in [Reqs -> Request]
  BY <1>t DEF ApiTypeOK
<1>q. Quiet.at = "idle" /\ Quiet.claims = <<>>
  BY DEF Quiet
<1>1. CASE UNCHANGED <<state, req, story, claimOf>>
  BY <1>1, <1>h, RestKeepsTell
<1>2. ASSUME NEW p \in Reqs, NEW C, NEW place, Works(p, C, place) PROVE TellInv'
  BY <1>2, WorkKeepsTell
<1>3. ASSUME NEW r \in Files \cup Folders, Purge(r) PROVE TellInv'
  <2>1. /\ \A x \in Things : state'[x] \in {state[x], "gone"}
        /\ UNCHANGED <<req, story, claimOf>>
    BY <1>3, PurgeFacts
  <2>2. QED
    BY <1>h, <2>1, RestKeepsTell
<1>4. ASSUME NEW p \in OwnerReqs, NEW x \in Files, trashDeleteBlob(p, x) PROVE TellInv'
  <2> DEFINE rec == [Quiet EXCEPT !.at = "hard.row", !.file = x]
  <2>1. rec.at = "hard.row" /\ rec.file = x /\ rec.claims = <<>>
    BY DEF Quiet
  <2>2. /\ req' = [req EXCEPT ![p] = rec] /\ state[x] \in InTrash
        /\ UNCHANGED <<state, story, claimOf>>
    BY <1>4 DEF trashDeleteBlob
  <2> HIDE DEF rec
  <2>3. \A q \in Reqs : req'[q] = req[q] \/ req'[q] = rec
    BY <1>r, <2>2
  <2>4. QED
    BY <1>h, <2>1, <2>2, <2>3, RestKeepsTell
<1>5. ASSUME NEW p \in Reqs, Report(p) PROVE TellInv'
  BY <1>5, ReportKeepsTell
<1>6. ASSUME NEW p \in Reqs, Answer(p) \/ UseCaseFails(p) PROVE TellInv'
  <2>1. /\ req' = [req EXCEPT ![p] = Quiet]
        /\ UNCHANGED <<state, story, claimOf>>
    BY <1>6 DEF Answer, UseCaseFails
  <2>2. \A q \in Reqs : req'[q] = req[q] \/ req'[q] = Quiet
    BY <1>r, <2>1
  <2>3. QED
    BY <1>h, <1>q, <2>1, <2>2, RestKeepsTell
<1>7. CASE Background
  BY <1>1, <1>7 DEF Background, apiVars
<1>8. CASE ApiExit
  <2>1. /\ \A q \in Reqs : req'[q] = Quiet
        /\ UNCHANGED <<state, story, claimOf>>
    BY <1>8 DEF ApiExit
  <2>2. QED
    BY <1>q, <2>1, RestKeepsTell
<1>9. CASE UNCHANGED allVars
  BY <1>1, <1>9 DEF allVars
<1>10. QED
  BY <1>2, <1>3, <1>4, <1>5, <1>6, <1>7, <1>8, <1>9, StepCases

\* A set of numbers up to n has a greatest.
LEMMA Greatest ==
    ASSUME NEW n \in Nat, NEW R, R \subseteq 1..n, R # {}
    PROVE  \E i \in R : \A j \in R : j <= i
<1> DEFINE T == {k \in Nat : n - k \in R}
<1>1. \A i \in R : i \in 1..n /\ n - i \in T
  <2>1. SUFFICES ASSUME NEW i \in R PROVE i \in 1..n /\ n - i \in T
    OBVIOUS
  <2>2. i \in 1..n
    OBVIOUS
  <2>3. n - i \in Nat /\ n - (n - i) = i
    BY <2>2
  <2>4. QED
    BY <2>2, <2>3
<1>2. T \subseteq Nat /\ T # {}
  BY <1>1
<1> HIDE DEF T
<1>3. PICK k \in T : \A m \in T : ~(<<m, k>> \in OpToRel(<, Nat))
  BY <1>2, NatLessThanWellFounded, WFMin
<1>4. \A m \in T : ~(m < k)
  BY <1>2, <1>3 DEF OpToRel
<1>5. k \in Nat /\ n - k \in R
  BY DEF T
<1>6. ASSUME NEW j \in R PROVE j <= n - k
  <2>1. ~(n - j < k) /\ j \in 1..n
    BY <1>1, <1>4
  <2>2. QED
    BY <1>5, <2>1
<1>7. QED
  BY <1>5, <1>6

\* When the trail has all claims that tell of a thing, its last row tells the last one.
LEMMA TrailTells ==
    ASSUME TypeInv, OrderInv, ApiInv, TellInv
    PROVE  TrailTellsState
<1> SUFFICES ASSUME NEW r \in Things, ClaimsOn(r) # {}, ClaimsOn(r) \subseteq TrailOf(r)
             PROVE  state[r] \in {LastWord(r), "gone"}
  BY DEF TrailTellsState
<1> DEFINE at(i) == claimOf[table[i]]
           rows == {i \in 1..Len(table) : r \in DOMAIN story[at(i)].now}
           last == CHOOSE i \in rows : \A j \in rows : j <= i
<1>1. /\ table \in Seq(Events) /\ Len(table) \in Nat
      /\ claimOf \in Seq(Events) /\ Len(claimOf) = logged
      /\ ToSet(claimOf) \subseteq 1..Len(story)
  BY DEF TypeInv, TypeOK, ApiInv, ApiTypeOK
<1>2. ASSUME NEW i \in 1..Len(table) PROVE table[i] \in 1..Len(claimOf) /\ at(i) \in 1..Len(story)
  <2>1. table[i] \in Events /\ table[i] <= logged
    BY <1>1 DEF OrderInv
  <2>2. table[i] \in 1..Len(claimOf)
    BY <1>1, <2>1 DEF Events
  <2>3. ToSet(claimOf) = {claimOf[e] : e \in 1..Len(claimOf)}
    BY <1>1, ToSetFacts
  <2>4. QED
    BY <1>1, <2>2, <2>3
<1>3. \A d \in ClaimsOn(r) : \E i \in rows : at(i) = d
  <2>1. SUFFICES ASSUME NEW d \in ClaimsOn(r) PROVE \E i \in rows : at(i) = d
    OBVIOUS
  <2>2. r \in DOMAIN story[d].now /\ \E e \in ToSet(table) : d = claimOf[e]
    BY DEF TrailOf
  <2>3. ToSet(table) = {table[i] : i \in 1..Len(table)}
    BY <1>1, ToSetFacts
  <2>4. PICK i \in 1..Len(table) : d = claimOf[table[i]]
    BY <2>2, <2>3
  <2>5. QED
    BY <2>2, <2>4
<1>4. rows # {} /\ rows \subseteq 1..Len(table)
  BY <1>3
<1>5. last \in rows /\ \A j \in rows : j <= last
  <2>1. \E i \in rows : \A j \in rows : j <= i
    <3> HIDE DEF rows
    <3>1. QED
      BY <1>1, <1>4, Greatest
  <2>2. QED
    BY <2>1
<1>6. LastWord(r) = story[at(last)].now[r]
  BY DEF LastWord
<1> HIDE DEF last
<1>7. at(last) \in ClaimsOn(r)
  BY <1>2, <1>5 DEF ClaimsOn
<1>8. ASSUME NEW d \in ClaimsOn(r) PROVE d <= at(last)
  <2>1. PICK i \in rows : at(i) = d
    BY <1>3
  <2>2. i \in 1..Len(table) /\ last \in 1..Len(table) /\ i <= last
    BY <1>5
  <2>3. table[i] \in 1..Len(claimOf) /\ table[last] \in 1..Len(claimOf)
    BY <1>2, <2>2
  <2>4. table[i] < table[last] \/ table[i] = table[last]
    <3>1. i < last => table[i] <= table[last]
      BY <2>2 DEF OrderInv, TrailInOrder
    <3>2. QED
      BY <2>2, <2>3, <3>1
  <2>5. Own(at(i)) /\ Own(at(last))
    BY <1>5, <2>1 DEF Own
  <2>6. table[i] < table[last] => at(i) < at(last)
    BY <2>3, <2>5 DEF TellInv, QueueInv
  <2>7. at(i) \in Nat /\ at(last) \in Nat
    BY <1>2, <2>2
  <2>8. at(i) <= at(last)
    BY <2>4, <2>6, <2>7
  <2>9. QED
    BY <2>1, <2>8
<1>9. LastClaim(r, at(last))
  BY <1>7, <1>8 DEF LastClaim
<1>10. QED
  BY <1>6, <1>7, <1>9 DEF TellInv, StoryInv

\* An owner who sends one request at a time, and whose trail has all events that
\* tell of a file, folder or share (its own and those of the folders it went
\* with), reads in the last of them where it stands, unless it has been cleaned
\* up since: whatever the recipients of the shares do meanwhile, and
\* through retried inserts, lost events, failing use cases and restarts.
THEOREM TrailTellsWhereThingsStand == ApiSpec => []TrailTellsState
<1> DEFINE Tells == Cardinality(OwnerReqs) = 1 => TellInv
<1>1. ApiInit => Tells
  BY InitTellInv
<1>2. ApiInv /\ Tells /\ [ApiNext]_allVars => Tells'
  <2>1. SUFFICES ASSUME Cardinality(OwnerReqs) = 1, ApiInv, TellInv, [ApiNext]_allVars
                 PROVE  TellInv'
    OBVIOUS
  <2>2. \E o : OwnerReqs = {o}
    BY <2>1, ThingsAssumption, FS_Singleton
  <2>3. QED
    BY <2>1, <2>2, NextTellInv
<1>3. TypeInv /\ OrderInv /\ ApiInv /\ Tells => TrailTellsState
  BY TrailTells DEF TrailTellsState
<1>4. ApiInit => TypeInv /\ OrderInv
  BY InitTypeInv, InitOrderInv DEF ApiInit
<1> HIDE DEF Tells
<1>5. QED
  BY <1>1, <1>2, <1>3, <1>4, ApiStep, NextTypeInv, NextOrderInv, InitApiInv, NextApiInv, PTL
     DEF ApiSpec
=============================================================================
