-------------------------- MODULE OutboxRelayProofs --------------------------
(***************************************************************************)
(* Theorems about OutboxRelay, for every number of instances, programs,    *)
(* rows, failures and shutdowns, and every size of a batch.                *)
(*                                                                         *)
(* The idea: a set of events that is sent, now or late, is closed          *)
(* downwards.  Whatever precedes one of its events in the same program is  *)
(* in the set too, or in the topic already.  It is so when the batch is    *)
(* read, because what is not in the batch and lower is marked, and what is *)
(* marked is in the topic; it stays so because a program's rows become     *)
(* visible in the order of their positions.                                *)
(*                                                                         *)
(* While nothing fails, moreover, only the holder of the lock sends, and   *)
(* what the topic has is marked or in the holder's batch.                  *)
(***************************************************************************)
EXTENDS OutboxRelay, FiniteSetTheorems, TLAPS

\* A transaction's rows are not committed yet, and above all that are.
OpenAbove ==
  \A p \in Programs : \A q \in open[p] :
    /\ q \in 1..Len(rows) /\ rows[q] = p
    /\ q \notin committed
    /\ \A r \in committed : rows[r] = p => r < q

\* Whatever precedes an event of the set is in the set or in the topic.
Closed(set) ==
  \A q \in set : \A r \in committed :
    rows[r] = rows[q] /\ r < q => r \in set \/ r \in Delivered(rows[q])

SendsClosed == \A i \in Instances : Closed(wire[i]) /\ Closed(late[i])

\* The topic has each event under its own program.
TopicOwn == \A p \in Programs : \A q \in Delivered(p) : q \in committed /\ rows[q] = p

\* What is being sent is in the topic or on its way.
BatchSent ==
  \A i \in Instances : at[i] = "sending" =>
    \A q \in batch[i] : q \in wire[i] \/ q \in Delivered(rows[q])

OrderInv ==
  /\ TypeOK /\ OpenAbove /\ SendsClosed /\ TopicOwn /\ BatchSent
  /\ MarkedIsDelivered /\ FirstSeenInOrder

-----------------------------------------------------------------------------
(* The topic. *)

\* The elements of a sequence.
Elements(s) == {s[k] : k \in DOMAIN s}

\* Appending an event adds it to the elements and leaves the rest in place.
LEMMA Appended ==
  ASSUME NEW S, NEW s \in Seq(S), NEW e
  PROVE  /\ Len(Append(s, e)) = Len(s) + 1
         /\ \A k \in 1..Len(s) : Append(s, e)[k] = s[k]
         /\ Append(s, e)[Len(s) + 1] = e
         /\ Elements(Append(s, e)) = Elements(s) \union {e}
<1>1. /\ Len(Append(s, e)) = Len(s) + 1
      /\ \A k \in 1..Len(s) : Append(s, e)[k] = s[k]
      /\ Append(s, e)[Len(s) + 1] = e
      /\ DOMAIN s = 1..Len(s) /\ DOMAIN Append(s, e) = 1..(Len(s) + 1)
      /\ Len(s) \in Nat
  OBVIOUS
<1>2. 1..(Len(s) + 1) = (1..Len(s)) \union {Len(s) + 1}
  BY <1>1
<1>3. {Append(s, e)[k] : k \in DOMAIN Append(s, e)} = {s[k] : k \in DOMAIN s} \union {e}
  BY <1>1, <1>2
<1>4. QED
  BY <1>1, <1>3 DEF Elements

\* A sequence over a set is one over any larger set.
LEMMA SeqOfMore ==
  ASSUME NEW S, NEW T, S \subseteq T, NEW s \in Seq(S)
  PROVE  s \in Seq(T)
OBVIOUS

-----------------------------------------------------------------------------
(* What each kind of step does to the shared state. *)

\* A step inserts at the end: the programs of the rows there are stay.
LEMMA RowsKept ==
  ASSUME TypeOK, NEW p \in Programs, Insert(p)
  PROVE  /\ Len(rows') = Len(rows) + 1 /\ rows' \in Seq(Programs)
         /\ rows'[Len(rows) + 1] = p
         /\ \A q \in 1..Len(rows) : rows'[q] = rows[q]
BY DEF TypeOK, Insert

\* The broker appends event q to its program's partition.
Appends(q) ==
  /\ q \in committed
  /\ topic' = [topic EXCEPT ![rows[q]] = Append(@, q)]
  /\ UNCHANGED <<rows, committed>>

\* What is delivered of its program grows by the event; nothing else does.
LEMMA AppendDelivers ==
  ASSUME TypeOK, NEW q, Appends(q)
  PROVE  /\ rows[q] \in Programs
         /\ topic' \in [Programs -> Seq(committed)]
         /\ Delivered(rows[q])' = Delivered(rows[q]) \union {q}
         /\ \A p \in Programs : p # rows[q] => topic'[p] = topic[p] /\ Delivered(p)' = Delivered(p)
         /\ Len(topic'[rows[q]]) = Len(topic[rows[q]]) + 1
         /\ topic'[rows[q]][Len(topic[rows[q]]) + 1] = q
         /\ \A k \in 1..Len(topic[rows[q]]) : topic'[rows[q]][k] = topic[rows[q]][k]
<1>1. rows[q] \in Programs /\ q \in committed
  BY DEF TypeOK, Appends
<1>2. topic \in [Programs -> Seq(committed)]
  BY DEF TypeOK
<1> DEFINE s == topic[rows[q]]
<1>3. s \in Seq(committed)
  BY <1>1, <1>2
<1>4. topic'[rows[q]] = Append(s, q)
  BY <1>1, <1>2 DEF Appends
<1>5. \A p \in Programs : p # rows[q] => topic'[p] = topic[p]
  BY <1>2 DEF Appends
<1>6. Append(s, q) \in Seq(committed)
  BY <1>1, <1>3
<1>7. topic' \in [Programs -> Seq(committed)]
  BY <1>1, <1>2, <1>6 DEF Appends
<1>8. /\ Len(Append(s, q)) = Len(s) + 1
      /\ \A k \in 1..Len(s) : Append(s, q)[k] = s[k]
      /\ Append(s, q)[Len(s) + 1] = q
      /\ Elements(Append(s, q)) = Elements(s) \union {q}
  BY <1>3, Appended
<1> HIDE DEF s
<1>9. Delivered(rows[q]) = Elements(s)
  BY DEF Delivered, Elements, s
<1>10. rows' = rows
  BY DEF Appends
<1>11. Delivered(rows[q])' = Elements(Append(s, q))
  BY <1>4, <1>10 DEF Delivered, Elements
<1>12. Delivered(rows[q])' = Delivered(rows[q]) \union {q}
  BY <1>8, <1>9, <1>11
<1>13. \A p \in Programs : p # rows[q] => Delivered(p)' = Delivered(p)
  BY <1>5 DEF Delivered
<1>14. /\ Len(topic'[rows[q]]) = Len(s) + 1
       /\ topic'[rows[q]][Len(s) + 1] = q
       /\ \A k \in 1..Len(s) : topic'[rows[q]][k] = s[k]
  BY <1>4, <1>8
<1>15. QED
  BY <1>1, <1>5, <1>7, <1>12, <1>13, <1>14 DEF s

-----------------------------------------------------------------------------
(* Types. *)

\* The first states have the types they should.
LEMMA InitTypeOK == Init => TypeOK
<1> SUFFICES ASSUME Init PROVE TypeOK
  OBVIOUS
<1> USE RelayAssumption DEF Init
<1>1. rows \in Seq(Programs) /\ Len(rows) = 0
  OBVIOUS
<1>2. topic \in [Programs -> Seq(committed)]
  OBVIOUS
<1>3. lock \in Instances \union {None} /\ failures \in 0..MaxFailures /\ stops \in 0..MaxStops
  OBVIOUS
<1>4. /\ batch \in [Instances -> SUBSET committed] /\ wire \in [Instances -> SUBSET committed]
      /\ late \in [Instances -> SUBSET committed]
      /\ open \in [Programs -> SUBSET Positions]
  OBVIOUS
<1>5. QED
  BY <1>1, <1>2, <1>3, <1>4 DEF TypeOK

\* The steps of a command's transaction keep the types.
LEMMA WritersTypeOK ==
  ASSUME TypeOK, OpenAbove, NEW p \in Programs, Insert(p) \/ CommitOutbox(p) \/ RollBack(p)
  PROVE  TypeOK'
<1> USE RelayAssumption
<1>1. CASE Insert(p)
  <2>1. /\ Len(rows') = Len(rows) + 1 /\ rows' \in Seq(Programs) /\ Len(rows) < MaxPosition
        /\ Len(rows) \in Nat
    BY <1>1, RowsKept DEF Insert, TypeOK
  <2>2. open' \in [Programs -> SUBSET Positions]
    BY <1>1, <2>1 DEF Insert, TypeOK, Positions
  <2>3. committed' = committed /\ committed \subseteq 1..Len(rows')
    BY <1>1, <2>1 DEF Insert, TypeOK
  <2>4. Len(rows') <= MaxPosition
    BY <2>1
  <2>5. UNCHANGED <<published, lock, at, stopping, batch, wire, late, topic, failures, stops>>
    BY <1>1 DEF Insert, relayVars, brokerVars
  <2>6. QED
    BY <2>1, <2>2, <2>3, <2>4, <2>5 DEF TypeOK
<1>2. CASE CommitOutbox(p)
  <2>1. rows' = rows /\ committed' = committed \union open[p]
    BY <1>2 DEF CommitOutbox
  <2>2. open[p] \subseteq 1..Len(rows)
    BY DEF OpenAbove
  <2>3. open' \in [Programs -> SUBSET Positions]
    BY <1>2 DEF CommitOutbox, TypeOK
  <2>4. UNCHANGED <<published, lock, at, stopping, batch, wire, late, topic, failures, stops>>
    BY <1>2 DEF CommitOutbox, relayVars, brokerVars
  <2>5. committed \subseteq committed' /\ committed' \subseteq 1..Len(rows')
    BY <2>1, <2>2 DEF TypeOK
  <2>6. topic' \in [Programs -> Seq(committed')]
    <3>1. topic \in [Programs -> Seq(committed)]
      BY DEF TypeOK
    <3>2. \A r \in Programs : topic[r] \in Seq(committed')
      BY <3>1, <2>5, SeqOfMore
    <3>3. QED
      BY <3>1, <3>2, <2>4
  <2>7. /\ batch' \in [Instances -> SUBSET committed'] /\ wire' \in [Instances -> SUBSET committed']
        /\ late' \in [Instances -> SUBSET committed'] /\ published' \subseteq committed'
    BY <2>4, <2>5 DEF TypeOK
  <2>8. QED
    BY <2>1, <2>3, <2>4, <2>5, <2>6, <2>7 DEF TypeOK
<1>3. CASE RollBack(p)
  <2>1. open' \in [Programs -> SUBSET Positions]
    BY <1>3 DEF RollBack, TypeOK
  <2>2. UNCHANGED <<rows, committed, published, lock, at, stopping, batch, wire, late, topic,
                    failures, stops>>
    BY <1>3 DEF RollBack, relayVars, brokerVars
  <2>3. QED
    BY <2>1, <2>2 DEF TypeOK
<1>4. QED
  BY <1>1, <1>2, <1>3

\* What arrives was sent, and so is committed.
LEMMA BrokerAppends ==
  ASSUME TypeOK, NEW i \in Instances, NEW q, Arrive(i, q) \/ ArriveLate(i, q)
  PROVE  Appends(q)
<1>1. q \in wire[i] \/ q \in late[i]
  BY DEF Arrive, ArriveLate, FirstOfProgram
<1>2. q \in committed
  BY <1>1 DEF TypeOK
<1>3. QED
  BY <1>2 DEF Arrive, ArriveLate, Appends, outboxVars

\* The broker's steps keep the types.
LEMMA BrokerTypeOK ==
  ASSUME TypeOK, NEW i \in Instances, NEW q, Arrive(i, q) \/ ArriveLate(i, q)
  PROVE  TypeOK'
<1>1. Appends(q)
  BY BrokerAppends
<1>2. topic' \in [Programs -> Seq(committed)]
  BY <1>1, AppendDelivers
<1>3. UNCHANGED <<rows, open, committed, published, lock, at, stopping, batch, failures, stops>>
  BY DEF Arrive, ArriveLate, outboxVars, relayVars
<1>4. wire' \in [Instances -> SUBSET committed] /\ late' \in [Instances -> SUBSET committed]
  <2>1. wire \in [Instances -> SUBSET committed] /\ late \in [Instances -> SUBSET committed]
    BY DEF TypeOK
  <2>2. /\ wire' = wire \/ wire' = [wire EXCEPT ![i] = @ \ {q}]
        /\ late' = late \/ late' = [late EXCEPT ![i] = @ \ {q}]
    BY DEF Arrive, ArriveLate
  <2>3. QED
    BY <2>1, <2>2
<1>5. QED
  BY <1>2, <1>3, <1>4 DEF TypeOK

\* A batch is of rows that are not marked.
LEMMA OldestAreRows ==
  ASSUME NEW set, NEW n
  PROVE  Oldest(set, n) \subseteq set
BY DEF Oldest

\* The steps of an instance keep the types.
LEMMA InstanceTypeOK ==
  ASSUME TypeOK, NEW i \in Instances, Relay(i) \/ Faults(i) \/ Lifecycle(i)
  PROVE  TypeOK'
<1> USE RelayAssumption
<1> DEFINE Places == {"stopped", "idle", "looping", "locked", "sending"}
<1>1. UNCHANGED <<rows, open, committed, topic>>
  BY DEF Relay, Faults, Lifecycle, TakeLock, LockTaken, ReadBatch, NothingToPublish, MarkPublished,
         FindTransactionLost, SendFails, LoseTransaction, Crash, Start, AskToStop, Stop,
         outboxVars, brokerVars
<1>2. lock' \in Instances \union {None}
  BY DEF Relay, Faults, Lifecycle, TakeLock, LockTaken, ReadBatch, NothingToPublish, MarkPublished,
         FindTransactionLost, SendFails, LoseTransaction, Crash, Start, AskToStop, Stop,
         LockWithout, TypeOK
<1>3. at' \in [Instances -> Places]
  BY DEF Relay, Faults, Lifecycle, TakeLock, LockTaken, ReadBatch, NothingToPublish, MarkPublished,
         FindTransactionLost, SendFails, LoseTransaction, Crash, Start, AskToStop, Stop, TypeOK
<1>4. stopping' \in [Instances -> BOOLEAN]
  BY DEF Relay, Faults, Lifecycle, TakeLock, LockTaken, ReadBatch, NothingToPublish, MarkPublished,
         FindTransactionLost, SendFails, LoseTransaction, Crash, Start, AskToStop, Stop, TypeOK
<1>5. failures' \in 0..MaxFailures /\ stops' \in 0..MaxStops
  BY DEF Relay, Faults, Lifecycle, TakeLock, LockTaken, ReadBatch, NothingToPublish, MarkPublished,
         FindTransactionLost, SendFails, LoseTransaction, Crash, Start, AskToStop, Stop, TypeOK
<1>6. Oldest(Unpublished, BatchSize) \subseteq committed
  BY OldestAreRows DEF Unpublished
<1>7. batch' \in [Instances -> SUBSET committed] /\ wire' \in [Instances -> SUBSET committed]
  <2> DEFINE Batches == [Instances -> SUBSET committed]
  <2>1. batch \in Batches /\ wire \in Batches
    BY DEF TypeOK
  <2>2. \/ batch' = batch
        \/ batch' = [batch EXCEPT ![i] = {}]
        \/ batch' = [batch EXCEPT ![i] = Oldest(Unpublished, BatchSize)]
    BY DEF Relay, Faults, Lifecycle, TakeLock, LockTaken, ReadBatch, NothingToPublish,
           MarkPublished, FindTransactionLost, SendFails, LoseTransaction, Crash, Start,
           AskToStop, Stop
  <2>3. \/ wire' = wire
        \/ wire' = [wire EXCEPT ![i] = {}]
        \/ wire' = [wire EXCEPT ![i] = Oldest(Unpublished, BatchSize)]
    BY DEF Relay, Faults, Lifecycle, TakeLock, LockTaken, ReadBatch, NothingToPublish,
           MarkPublished, FindTransactionLost, SendFails, LoseTransaction, Crash, Start,
           AskToStop, Stop, brokerVars
  <2>4. batch' \in Batches
    BY <1>6, <2>1, <2>2
  <2>5. wire' \in Batches
    BY <1>6, <2>1, <2>3
  <2>6. QED
    BY <2>4, <2>5
<1>8. late' \in [Instances -> SUBSET committed] /\ published' \subseteq committed
  BY DEF Relay, Faults, Lifecycle, TakeLock, LockTaken, ReadBatch, NothingToPublish, MarkPublished,
         FindTransactionLost, SendFails, LoseTransaction, Crash, Start, AskToStop, Stop, TypeOK,
         brokerVars
<1>9. QED
  BY <1>1, <1>2, <1>3, <1>4, <1>5, <1>7, <1>8 DEF TypeOK

-----------------------------------------------------------------------------
(* The order, step by step.  Positions are numbers, and those of committed *)
(* rows have a program.                                                    *)

LEMMA CommittedAreRows ==
  ASSUME TypeOK, NEW q \in committed
  PROVE  q \in Nat /\ q \in 1..Len(rows) /\ rows[q] \in Programs
BY DEF TypeOK

LEMMA InitOrder == Init => OrderInv
<1> SUFFICES ASSUME Init PROVE OrderInv
  OBVIOUS
<1>1. TypeOK
  BY InitTypeOK
<1>2. committed = {} /\ published = {} /\ \A p \in Programs : topic[p] = <<>> /\ open[p] = {}
  BY DEF Init
<1>3. \A i \in Instances : wire[i] = {} /\ late[i] = {} /\ batch[i] = {}
  BY DEF Init
<1>4. \A p \in Programs : Delivered(p) = {}
  BY <1>2 DEF Delivered
<1>5. OpenAbove /\ TopicOwn
  BY <1>2, <1>4 DEF OpenAbove, TopicOwn
<1>6. SendsClosed /\ BatchSent
  BY <1>3 DEF SendsClosed, Closed, BatchSent
<1>7. MarkedIsDelivered /\ FirstSeenInOrder
  BY <1>2 DEF MarkedIsDelivered, FirstSeenInOrder
<1>8. QED
  BY <1>1, <1>5, <1>6, <1>7 DEF OrderInv

\* An inserted row is not committed, and is above all rows.
LEMMA InsertOrder ==
  ASSUME OrderInv, NEW p \in Programs, Insert(p)
  PROVE  OrderInv'
<1> USE DEF OrderInv
<1>1. TypeOK'
  BY WritersTypeOK
<1>2. /\ Len(rows') = Len(rows) + 1 /\ rows'[Len(rows) + 1] = p
      /\ \A q \in 1..Len(rows) : rows'[q] = rows[q]
      /\ Len(rows) \in Nat
  BY RowsKept DEF TypeOK
<1>3. UNCHANGED <<committed, published, at, batch, wire, late, topic>>
  BY DEF Insert, relayVars, brokerVars
<1>4. \A q \in committed : rows'[q] = rows[q] /\ q \in Nat /\ q <= Len(rows)
  BY <1>2, CommittedAreRows
<1>5. \A r \in Programs : Delivered(r)' = Delivered(r)
  BY <1>3 DEF Delivered
<1>6. \A r \in Programs : open'[r] = IF r = p THEN open[p] \union {Len(rows) + 1} ELSE open[r]
  BY DEF Insert, TypeOK
<1>7. OpenAbove'
  <2> SUFFICES ASSUME NEW r \in Programs, NEW q \in open'[r]
               PROVE  /\ q \in 1..Len(rows') /\ rows'[q] = r
                      /\ q \notin committed
                      /\ \A x \in committed : rows'[x] = r => x < q
    BY <1>3 DEF OpenAbove
  <2>1. CASE q \in open[r]
    BY <2>1, <1>2, <1>4 DEF OpenAbove
  <2>2. CASE q \notin open[r]
    <3>1. q = Len(rows) + 1 /\ r = p
      BY <2>2, <1>6
    <3>2. QED
      BY <3>1, <1>2, <1>4
  <2>3. QED
    BY <2>1, <2>2
<1>8. \A i \in Instances : wire[i] \subseteq committed /\ late[i] \subseteq committed
                           /\ batch[i] \subseteq committed
  BY DEF TypeOK
<1>9. \A q \in committed : Delivered(rows[q])' = Delivered(rows[q])
  BY <1>4, <1>5, CommittedAreRows
<1>10. SendsClosed'
  BY <1>3, <1>4, <1>8, <1>9 DEF SendsClosed, Closed
<1>11. TopicOwn'
  BY <1>3, <1>4, <1>5 DEF TopicOwn
<1>12. BatchSent'
  BY <1>3, <1>4, <1>8, <1>9 DEF BatchSent
<1>13. MarkedIsDelivered'
  BY <1>3, <1>4, <1>9 DEF MarkedIsDelivered, TypeOK
<1>14. FirstSeenInOrder'
  BY <1>3, <1>4 DEF FirstSeenInOrder
<1>15. QED
  BY <1>1, <1>7, <1>10, <1>11, <1>12, <1>13, <1>14

\* Committed rows are above those of their program: none comes before an event
\* that is sent or delivered.
LEMMA CommitOrder ==
  ASSUME OrderInv, NEW p \in Programs, CommitOutbox(p)
  PROVE  OrderInv'
<1> USE DEF OrderInv
<1>1. TypeOK'
  BY WritersTypeOK
<1>2. /\ UNCHANGED <<rows, published, at, batch, wire, late, topic>>
      /\ committed' = committed \union open[p]
  BY DEF CommitOutbox, relayVars, brokerVars
<1>3. \A r \in Programs : Delivered(r)' = Delivered(r)
  BY <1>2 DEF Delivered
<1>4. \A r \in Programs : open'[r] = IF r = p THEN {} ELSE open[r]
  BY DEF CommitOutbox, TypeOK
<1>5. \A q \in committed, r \in open[p] : q \in Nat /\ r \in Nat /\ (rows[r] = rows[q] => q < r)
  BY CommittedAreRows DEF OpenAbove
<1>6. OpenAbove'
  BY <1>2, <1>4 DEF OpenAbove
<1>7. \A q \in committed, r \in committed' : rows[r] = rows[q] /\ r < q => r \in committed
  BY <1>2, <1>5
<1>8. \A i \in Instances : wire[i] \subseteq committed /\ late[i] \subseteq committed
                           /\ batch[i] \subseteq committed
  BY DEF TypeOK
<1>9. \A q \in committed : Delivered(rows[q])' = Delivered(rows[q])
  BY <1>2, <1>3, CommittedAreRows
<1>10. \A set \in SUBSET committed : Closed(set) =>
         \A q \in set : \A r \in committed' :
           rows[r] = rows[q] /\ r < q => r \in set \/ r \in Delivered(rows[q])
  BY <1>7 DEF Closed
<1>11. SendsClosed'
  <2> SUFFICES ASSUME NEW i \in Instances PROVE Closed(wire[i])' /\ Closed(late[i])'
    BY DEF SendsClosed
  <2>1. Closed(wire[i]) /\ Closed(late[i])
    BY DEF SendsClosed
  <2>2. QED
    BY <2>1, <1>2, <1>8, <1>9, <1>10 DEF Closed
<1>12. TopicOwn'
  BY <1>2, <1>3 DEF TopicOwn
<1>13. BatchSent'
  BY <1>2, <1>8, <1>9 DEF BatchSent
<1>14. MarkedIsDelivered'
  BY <1>2, <1>9 DEF MarkedIsDelivered, TypeOK
<1>15. FirstSeenInOrder'
  <2> SUFFICES ASSUME NEW r \in Programs, NEW k \in DOMAIN topic[r], NEW x \in committed',
                      rows[x] = r, x < topic[r][k]
               PROVE  \E j \in 1..(k - 1) : topic[r][j] = x
    BY <1>2 DEF FirstSeenInOrder
  <2>1. topic[r][k] \in committed /\ rows[topic[r][k]] = r
    BY DEF TopicOwn, Delivered
  <2>2. x \in committed
    BY <2>1, <1>7
  <2>3. QED
    BY <2>2 DEF FirstSeenInOrder
<1>16. QED
  BY <1>1, <1>6, <1>11, <1>12, <1>13, <1>14, <1>15

\* A transaction rolled back leaves nothing.
LEMMA RollBackOrder ==
  ASSUME OrderInv, NEW p \in Programs, RollBack(p)
  PROVE  OrderInv'
<1> USE DEF OrderInv
<1>1. TypeOK'
  BY WritersTypeOK
<1>2. UNCHANGED <<rows, committed, published, at, batch, wire, late, topic>>
  BY DEF RollBack, relayVars, brokerVars
<1>3. \A r \in Programs : open'[r] \subseteq open[r]
  BY DEF RollBack, TypeOK
<1>4. OpenAbove'
  BY <1>2, <1>3 DEF OpenAbove
<1>5. SendsClosed' /\ TopicOwn'
  BY <1>2 DEF SendsClosed, Closed, TopicOwn, Delivered
<1>6. BatchSent' /\ MarkedIsDelivered' /\ FirstSeenInOrder'
  BY <1>2 DEF BatchSent, MarkedIsDelivered, FirstSeenInOrder, Delivered
<1>7. QED
  BY <1>1, <1>4, <1>5, <1>6

\* The first of a closed set to arrive finds what precedes it delivered.
LEMMA ArrivesInOrder ==
  ASSUME TypeOK, NEW set \in SUBSET committed, Closed(set), NEW q, FirstOfProgram(q, set)
  PROVE  \A r \in committed : rows[r] = rows[q] /\ r < q => r \in Delivered(rows[q])
<1> SUFFICES ASSUME NEW r \in committed, rows[r] = rows[q], r < q
             PROVE  r \in Delivered(rows[q])
  OBVIOUS
<1>1. q \in set /\ q \in Nat /\ r \in Nat
  BY CommittedAreRows DEF FirstOfProgram
<1>2. r \notin set
  BY <1>1 DEF FirstOfProgram
<1>3. QED
  BY <1>1, <1>2 DEF Closed

\* An event that arrives is on its way no longer, the others still are.
LEMMA ArrivalTakes ==
  ASSUME TypeOK, NEW i \in Instances, NEW q, Arrive(i, q) \/ ArriveLate(i, q)
  PROVE  \A j \in Instances : /\ wire'[j] \subseteq wire[j] /\ wire[j] \subseteq wire'[j] \union {q}
                              /\ late'[j] \subseteq late[j] /\ late[j] \subseteq late'[j] \union {q}
<1>1. DOMAIN wire = Instances /\ DOMAIN late = Instances
  BY DEF TypeOK
<1>2. CASE Arrive(i, q)
  <2>1. wire' = [wire EXCEPT ![i] = @ \ {q}] /\ late' = late
    BY <1>2 DEF Arrive
  <2>2. QED
    BY <1>1, <2>1
<1>3. CASE ArriveLate(i, q)
  <2>1. late' = [late EXCEPT ![i] = @ \ {q}] /\ wire' = wire
    BY <1>3 DEF ArriveLate
  <2>2. QED
    BY <1>1, <2>1
<1>4. QED
  BY <1>2, <1>3

\* What the broker appends comes after what precedes it.
LEMMA BrokerOrder ==
  ASSUME OrderInv, NEW i \in Instances, NEW q, Arrive(i, q) \/ ArriveLate(i, q)
  PROVE  OrderInv'
<1> USE DEF OrderInv
<1>1. TypeOK'
  BY BrokerTypeOK
<1>2. Appends(q)
  BY BrokerAppends
<1>3. UNCHANGED <<rows, open, committed, published, at, batch>>
  BY DEF Arrive, ArriveLate, outboxVars, relayVars
<1>4. \A r \in committed : rows[r] = rows[q] /\ r < q => r \in Delivered(rows[q])
  <2>1. \/ FirstOfProgram(q, wire[i])
        \/ FirstOfProgram(q, late[i])
    BY DEF Arrive, ArriveLate
  <2>2. /\ Closed(wire[i]) /\ Closed(late[i])
        /\ wire[i] \in SUBSET committed /\ late[i] \in SUBSET committed
    BY DEF SendsClosed, TypeOK
  <2>3. QED
    BY <2>1, <2>2, ArrivesInOrder
<1>5. /\ rows[q] \in Programs /\ q \in committed
      /\ Delivered(rows[q])' = Delivered(rows[q]) \union {q}
      /\ \A p \in Programs : p # rows[q] => topic'[p] = topic[p] /\ Delivered(p)' = Delivered(p)
  BY <1>2, AppendDelivers DEF Appends
<1>6. \A p \in Programs : Delivered(p) \subseteq Delivered(p)'
  <2> SUFFICES ASSUME NEW p \in Programs PROVE Delivered(p) \subseteq Delivered(p)'
    OBVIOUS
  <2>1. CASE p = rows[q]
    <3>1. Delivered(p)' = Delivered(p) \union {q}
      BY <2>1, <1>3, <1>5
    <3>2. QED
      BY <3>1
  <2>2. CASE p # rows[q]
    BY <2>2, <1>5
  <2>3. QED
    BY <2>1, <2>2
<1>7. \A r \in committed : Delivered(rows[r]) \subseteq Delivered(rows[r])'
  BY <1>3, <1>6, CommittedAreRows
<1>8. \A r \in committed : rows[r] = rows[q] => q \in Delivered(rows[r])'
  BY <1>3, <1>5
<1>9. OpenAbove'
  BY <1>3 DEF OpenAbove
<1>10. SendsClosed'
  <2> SUFFICES ASSUME NEW j \in Instances PROVE Closed(wire[j])' /\ Closed(late[j])'
    BY DEF SendsClosed
  <2>1. /\ Closed(wire[j]) /\ Closed(late[j])
        /\ wire[j] \subseteq committed /\ late[j] \subseteq committed
    BY DEF SendsClosed, TypeOK
  <2>2. wire'[j] \subseteq wire[j] /\ wire[j] \subseteq wire'[j] \union {q}
    BY ArrivalTakes
  <2>3. late'[j] \subseteq late[j] /\ late[j] \subseteq late'[j] \union {q}
    BY ArrivalTakes
  <2>4. Closed(wire[j])'
    BY <1>3, <1>7, <1>8, <2>1, <2>2 DEF Closed
  <2>5. Closed(late[j])'
    BY <1>3, <1>7, <1>8, <2>1, <2>3 DEF Closed
  <2>6. QED
    BY <2>4, <2>5
<1>11. TopicOwn'
  BY <1>3, <1>5 DEF TopicOwn
<1>12. BatchSent'
  <2> SUFFICES ASSUME NEW j \in Instances, at[j] = "sending", NEW r \in batch[j]
               PROVE  r \in wire'[j] \/ r \in Delivered(rows[r])'
    BY <1>3 DEF BatchSent
  <2>1. r \in committed /\ (r \in wire[j] \/ r \in Delivered(rows[r]))
    BY DEF BatchSent, TypeOK
  <2>2. wire[j] \subseteq wire'[j] \union {q}
    BY ArrivalTakes
  <2>3. QED
    BY <1>7, <1>8, <2>1, <2>2
<1>13. MarkedIsDelivered'
  BY <1>3, <1>7 DEF MarkedIsDelivered, TypeOK
<1>14. FirstSeenInOrder'
  <2> SUFFICES ASSUME NEW p \in Programs, NEW k \in DOMAIN topic'[p], NEW r \in committed,
                      rows[r] = p, r < topic'[p][k]
               PROVE  \E j \in 1..(k - 1) : topic'[p][j] = r
    BY <1>3 DEF FirstSeenInOrder
  <2>1. CASE p # rows[q]
    BY <2>1, <1>5 DEF FirstSeenInOrder
  <2>2. CASE p = rows[q]
    <3> DEFINE n == Len(topic[p])
    <3>1. /\ n \in Nat /\ DOMAIN topic[p] = 1..n
          /\ Len(topic'[p]) = n + 1 /\ DOMAIN topic'[p] = 1..(n + 1)
          /\ topic'[p][n + 1] = q
          /\ \A j \in 1..n : topic'[p][j] = topic[p][j]
      <4>1. topic[p] \in Seq(committed) /\ topic'[p] \in Seq(committed)
        BY <1>2, AppendDelivers DEF TypeOK
      <4>2. Len(topic[p]) \in Nat /\ DOMAIN topic[p] = 1..Len(topic[p])
            /\ DOMAIN topic'[p] = 1..Len(topic'[p])
        BY <4>1
      <4>3. /\ Len(topic'[p]) = Len(topic[p]) + 1
            /\ topic'[p][Len(topic[p]) + 1] = q
            /\ \A j \in 1..Len(topic[p]) : topic'[p][j] = topic[p][j]
        BY <1>2, <2>2, AppendDelivers
      <4>4. QED
        BY <4>2, <4>3
    <3>2. \E j \in 1..n : j <= k - 1 /\ topic[p][j] = r
      <4>1. CASE k = n + 1
        <5>1. r \in Delivered(p)
          BY <4>1, <3>1, <2>2, <1>4
        <5>2. QED
          BY <5>1, <4>1, <3>1 DEF Delivered
      <4>2. CASE k # n + 1
        <5>1. k \in 1..n /\ topic'[p][k] = topic[p][k]
          BY <4>2, <3>1
        <5>2. \E j \in 1..(k - 1) : topic[p][j] = r
          BY <5>1, <3>1 DEF FirstSeenInOrder
        <5>3. QED
          BY <5>1, <5>2, <3>1
      <4>3. QED
        BY <4>1, <4>2
    <3>3. QED
      BY <3>1, <3>2
  <2>3. QED
    BY <2>1, <2>2
<1>15. QED
  BY <1>1, <1>9, <1>10, <1>11, <1>12, <1>13, <1>14

\* The lowest unmarked rows are closed: what is lower is among them or marked.
LEMMA OldestClosed ==
  ASSUME TypeOK, MarkedIsDelivered
  PROVE  Closed(Oldest(Unpublished, BatchSize))
<1> DEFINE batch0 == Oldest(Unpublished, BatchSize)
<1> SUFFICES ASSUME NEW q \in batch0, NEW r \in committed, rows[r] = rows[q], r < q
             PROVE  r \in batch0 \/ r \in Delivered(rows[q])
  BY DEF Closed
<1>1. CASE r \in published
  BY <1>1 DEF MarkedIsDelivered
<1>2. CASE r \notin published
  <2> DEFINE below(x) == {y \in Unpublished : y < x}
  <2>1. q \in Unpublished /\ Cardinality(below(q)) < BatchSize /\ r \in Unpublished
    BY <1>2 DEF Oldest, Unpublished
  <2>2. Unpublished \subseteq 1..Len(rows) /\ Len(rows) \in Nat
    BY DEF TypeOK, Unpublished
  <2>3. IsFiniteSet(1..Len(rows))
    BY <2>2, FS_Interval
  <2>4. IsFiniteSet(below(q))
    BY <2>2, <2>3, FS_Subset
  <2>5. below(r) \subseteq below(q)
    <3>1. q \in Nat /\ r \in Nat /\ \A y \in Unpublished : y \in Nat
      BY <2>1, <2>2
    <3>2. \A y \in Unpublished : y < r => y < q
      BY <3>1
    <3>3. QED
      BY <3>2
  <2>6. /\ Cardinality(below(r)) <= Cardinality(below(q))
        /\ Cardinality(below(r)) \in Nat /\ Cardinality(below(q)) \in Nat
    BY <2>4, <2>5, FS_Subset, FS_CardinalityType
  <2>7. Cardinality(below(r)) < BatchSize
    BY <2>1, <2>6, RelayAssumption
  <2>8. QED
    BY <2>1, <2>7 DEF Oldest
<1>3. QED
  BY <1>1, <1>2

\* A step of an instance leaves the rows and the topic alone; it sends what is
\* closed, gives up what it was sending, or marks what has been delivered.
LEMMA InstanceOrder ==
  ASSUME OrderInv, NEW i \in Instances, Relay(i) \/ Faults(i) \/ Lifecycle(i)
  PROVE  OrderInv'
<1> USE DEF OrderInv
<1>1. TypeOK'
  BY InstanceTypeOK
<1>2. UNCHANGED <<rows, open, committed, topic>>
  BY DEF Relay, Faults, Lifecycle, TakeLock, LockTaken, ReadBatch, NothingToPublish, MarkPublished,
         FindTransactionLost, SendFails, LoseTransaction, Crash, Start, AskToStop, Stop,
         outboxVars, brokerVars
<1>3. \A p \in Programs : Delivered(p)' = Delivered(p)
  BY <1>2 DEF Delivered
<1>4. \A q \in committed : Delivered(rows[q])' = Delivered(rows[q])
  BY <1>2, <1>3, CommittedAreRows
<1>5. OpenAbove' /\ TopicOwn' /\ FirstSeenInOrder'
  BY <1>2, <1>3 DEF OpenAbove, TopicOwn, FirstSeenInOrder
<1>6. \A j \in Instances : /\ wire[j] \subseteq committed /\ late[j] \subseteq committed
                           /\ batch[j] \subseteq committed
                           /\ wire'[j] \subseteq committed /\ late'[j] \subseteq committed
  BY <1>1, <1>2 DEF TypeOK
<1>7. SendsClosed'
  <2> SUFFICES ASSUME NEW j \in Instances PROVE Closed(wire[j])' /\ Closed(late[j])'
    BY DEF SendsClosed
  <2>1. Closed(wire[j]) /\ Closed(late[j]) /\ Closed({})
    BY DEF SendsClosed, Closed
  <2>2. late'[j] = late[j] \/ late'[j] = wire[j]
    BY DEF Relay, Faults, Lifecycle, TakeLock, LockTaken, ReadBatch, NothingToPublish,
           MarkPublished, FindTransactionLost, SendFails, LoseTransaction, Crash, Start,
           AskToStop, Stop, brokerVars, TypeOK
  <2>3. wire'[j] = wire[j] \/ wire'[j] = {} \/ wire'[j] = Oldest(Unpublished, BatchSize)
    BY DEF Relay, Faults, Lifecycle, TakeLock, LockTaken, ReadBatch, NothingToPublish,
           MarkPublished, FindTransactionLost, SendFails, LoseTransaction, Crash, Start,
           AskToStop, Stop, brokerVars, TypeOK
  <2>4. Closed(Oldest(Unpublished, BatchSize))
    BY OldestClosed
  <2>5. \A set \in SUBSET committed : Closed(set) =>
          \A q \in set : \A r \in committed :
            rows[r] = rows[q] /\ r < q => r \in set \/ r \in Delivered(rows[q])'
    BY <1>4 DEF Closed
  <2>6. Closed(wire'[j]) /\ Closed(late'[j])
    BY <2>1, <2>2, <2>3, <2>4
  <2>7. QED
    BY <1>2, <1>6, <2>5, <2>6 DEF Closed
<1>8. BatchSent'
  <2> SUFFICES ASSUME NEW j \in Instances, at'[j] = "sending", NEW q \in batch'[j]
               PROVE  q \in wire'[j] \/ q \in Delivered(rows[q])'
    BY DEF BatchSent
  <2>1. \/ at[j] = "sending" /\ batch'[j] = batch[j] /\ wire'[j] = wire[j]
        \/ batch'[j] = wire'[j]
    BY DEF Relay, Faults, Lifecycle, TakeLock, LockTaken, ReadBatch, NothingToPublish,
           MarkPublished, FindTransactionLost, SendFails, LoseTransaction, Crash, Start,
           AskToStop, Stop, brokerVars, TypeOK
  <2>2. QED
    BY <2>1, <1>4, <1>6 DEF BatchSent
<1>9. MarkedIsDelivered'
  <2> SUFFICES ASSUME NEW q \in published' PROVE q \in Delivered(rows[q])'
    BY DEF MarkedIsDelivered
  <2>1. q \in published \/ (at[i] = "sending" /\ wire[i] = {} /\ q \in batch[i])
    BY DEF Relay, Faults, Lifecycle, TakeLock, LockTaken, ReadBatch, NothingToPublish,
           MarkPublished, FindTransactionLost, SendFails, LoseTransaction, Crash, Start,
           AskToStop, Stop
  <2>2. q \in committed /\ q \in Delivered(rows[q])
    BY <2>1 DEF MarkedIsDelivered, BatchSent, TypeOK
  <2>3. QED
    BY <2>2, <1>4
<1>10. QED
  BY <1>1, <1>5, <1>7, <1>8, <1>9

-----------------------------------------------------------------------------
(* The theorems. *)

LEMMA OrderStep == OrderInv /\ [Next]_vars => OrderInv'
<1> SUFFICES ASSUME OrderInv, [Next]_vars PROVE OrderInv'
  OBVIOUS
<1>1. CASE Writers
  BY <1>1, InsertOrder, CommitOrder, RollBackOrder DEF Writers
<1>2. CASE Broker
  BY <1>2, BrokerOrder DEF Broker
<1>3. CASE \E i \in Instances : Relay(i) \/ Faults(i) \/ Lifecycle(i)
  BY <1>3, InstanceOrder
<1>4. CASE UNCHANGED vars
  <2>1. UNCHANGED <<rows, open, committed, published, lock, at, stopping, batch, wire, late, topic,
                    failures, stops>>
    BY <1>4 DEF vars
  <2>2. TypeOK'
    BY <2>1 DEF OrderInv, TypeOK
  <2>3. OpenAbove' /\ SendsClosed' /\ TopicOwn' /\ BatchSent'
    BY <2>1 DEF OrderInv, OpenAbove, SendsClosed, Closed, TopicOwn, BatchSent, Delivered
  <2>4. MarkedIsDelivered' /\ FirstSeenInOrder'
    BY <2>1 DEF OrderInv, MarkedIsDelivered, FirstSeenInOrder, Delivered
  <2>5. QED
    BY <2>2, <2>3, <2>4 DEF OrderInv
<1>5. QED
  BY <1>1, <1>2, <1>3, <1>4 DEF Next

\* The invariant holds in every state of every behaviour.
THEOREM OrderHolds == Spec => []OrderInv
<1>1. Init => OrderInv
  BY InitOrder
<1>2. OrderInv /\ [Next]_vars => OrderInv'
  BY OrderStep
<1>3. QED
  BY <1>1, <1>2, PTL DEF Spec

\* Every variable of the outbox, the relays and the broker has its type.
THEOREM RelayTypeCorrect == Spec => []TypeOK
<1>1. OrderInv => TypeOK
  BY DEF OrderInv
<1>2. QED
  BY <1>1, OrderHolds, PTL

\* However many instances relay, and whatever of them fails, a program's events
\* first appear in the topic in the order of their commits.
THEOREM ReadersSeeOrder == Spec => []FirstSeenInOrder
<1>1. OrderInv => FirstSeenInOrder
  BY DEF OrderInv
<1>2. QED
  BY <1>1, OrderHolds, PTL

\* No row is marked published that the broker does not have.
THEOREM MarkedReachedTheBroker == Spec => []MarkedIsDelivered
<1>1. OrderInv => MarkedIsDelivered
  BY DEF OrderInv
<1>2. QED
  BY <1>1, OrderHolds, PTL

-----------------------------------------------------------------------------
(* Nothing twice while nothing fails.  Only the instance whose transaction *)
(* has the lock sends; what the topic has is marked or in its batch, so a  *)
(* batch that is read is new to the topic, and each of its events arrives  *)
(* once.                                                                   *)

\* Only the holder of the lock has gone past it.
HolderOnly == \A i \in Instances : at[i] \in {"locked", "sending"} => lock = i

\* What is on its way is of a batch being sent, and the batch is not marked.
OnlyBatches ==
  \A i \in Instances :
    /\ late[i] = {}
    /\ at[i] # "sending" => batch[i] = {} /\ wire[i] = {}
    /\ wire[i] \subseteq batch[i]
    /\ batch[i] \intersect published = {}

\* What is on its way has not arrived yet.
OnWayIsNew == \A i \in Instances : \A q \in wire[i] : q \notin Delivered(rows[q])

\* What has arrived is marked, or its batch is being sent.
ArrivedIsKnown ==
  \A p \in Programs : \A q \in Delivered(p) :
    q \in published \/ \E i \in Instances : at[i] = "sending" /\ q \in batch[i]

NoRepeats ==
  \A p \in Programs : \A j, k \in DOMAIN topic[p] : topic[p][j] = topic[p][k] => j = k

Once == HolderOnly /\ OnlyBatches /\ OnWayIsNew /\ ArrivedIsKnown /\ NoRepeats

OnceInv == failures = 0 => Once

LEMMA InitOnce == Init => OnceInv
<1> SUFFICES ASSUME Init PROVE Once
  BY DEF OnceInv
<1>1. \A i \in Instances : at[i] = "stopped" /\ wire[i] = {} /\ late[i] = {} /\ batch[i] = {}
  BY DEF Init
<1>2. \A p \in Programs : topic[p] = <<>> /\ Delivered(p) = {}
  BY DEF Init, Delivered
<1>3. HolderOnly /\ OnlyBatches /\ OnWayIsNew
  BY <1>1 DEF HolderOnly, OnlyBatches, OnWayIsNew
<1>4. ArrivedIsKnown /\ NoRepeats
  BY <1>2 DEF ArrivedIsKnown, NoRepeats
<1>5. QED
  BY <1>3, <1>4 DEF Once

\* The commands' transactions touch nothing that is sent.
LEMMA WritersOnce ==
  ASSUME OrderInv, Once, NEW p \in Programs, Insert(p) \/ CommitOutbox(p) \/ RollBack(p)
  PROVE  Once'
<1>1. UNCHANGED <<published, lock, at, batch, wire, late, topic>>
  BY DEF Insert, CommitOutbox, RollBack, relayVars, brokerVars
<1>2. \A q \in committed : rows'[q] = rows[q]
  <2>1. CASE Insert(p)
    BY <2>1, RowsKept, CommittedAreRows DEF OrderInv
  <2>2. CASE CommitOutbox(p) \/ RollBack(p)
    BY <2>2 DEF CommitOutbox, RollBack
  <2>3. QED
    BY <2>1, <2>2
<1>3. \A i \in Instances : wire[i] \subseteq committed
  BY DEF OrderInv, TypeOK
<1>4. OnWayIsNew'
  BY <1>1, <1>2, <1>3 DEF Once, OnWayIsNew, Delivered
<1>5. HolderOnly' /\ OnlyBatches'
  BY <1>1 DEF Once, HolderOnly, OnlyBatches
<1>6. ArrivedIsKnown' /\ NoRepeats'
  BY <1>1 DEF Once, ArrivedIsKnown, NoRepeats, Delivered
<1>7. QED
  BY <1>4, <1>5, <1>6 DEF Once

\* What arrives is new to the topic, and nobody else is sending it.
LEMMA BrokerOnce ==
  ASSUME OrderInv, Once, NEW i \in Instances, NEW q, Arrive(i, q) \/ ArriveLate(i, q)
  PROVE  Once'
<1>1. Appends(q)
  BY BrokerAppends DEF OrderInv
<1>2. UNCHANGED <<rows, committed, published, lock, at, batch>>
  BY DEF Arrive, ArriveLate, outboxVars, relayVars
<1>3. Arrive(i, q)
  BY DEF Once, OnlyBatches, ArriveLate, FirstOfProgram
<1>4. q \in wire[i]
  BY <1>3 DEF Arrive, FirstOfProgram
<1>5. at[i] = "sending" /\ lock = i /\ q \in batch[i] /\ q \notin Delivered(rows[q])
  BY <1>4 DEF Once, HolderOnly, OnlyBatches, OnWayIsNew
<1>6. \A j \in Instances : /\ late'[j] = late[j]
                           /\ wire'[j] = IF j = i THEN wire[i] \ {q} ELSE wire[j]
  BY <1>3 DEF Arrive, OrderInv, TypeOK
<1>7. \A j \in Instances : q \notin wire'[j] /\ wire'[j] \subseteq wire[j]
  <2> SUFFICES ASSUME NEW j \in Instances PROVE q \notin wire'[j] /\ wire'[j] \subseteq wire[j]
    OBVIOUS
  <2>1. CASE j = i
    BY <2>1, <1>6
  <2>2. CASE j # i
    BY <2>2, <1>5, <1>6 DEF Once, HolderOnly, OnlyBatches
  <2>3. QED
    BY <2>1, <2>2
<1>8. /\ rows[q] \in Programs /\ q \in committed
      /\ Delivered(rows[q])' = Delivered(rows[q]) \union {q}
      /\ \A p \in Programs : p # rows[q] => topic'[p] = topic[p] /\ Delivered(p)' = Delivered(p)
  BY <1>1, AppendDelivers DEF Appends, OrderInv
<1>9. \A p \in Programs : Delivered(p)' \subseteq Delivered(p) \union {q}
  BY <1>2, <1>8
<1>10. HolderOnly'
  BY <1>2 DEF Once, HolderOnly
<1>11. OnlyBatches'
  BY <1>2, <1>6, <1>7 DEF Once, OnlyBatches
<1>12. OnWayIsNew'
  <2> SUFFICES ASSUME NEW j \in Instances, NEW r \in wire'[j] PROVE r \notin Delivered(rows[r])'
    BY <1>2 DEF OnWayIsNew
  <2>1. r \in wire[j] /\ r # q
    BY <1>7
  <2>2. r \notin Delivered(rows[r])
    BY <2>1 DEF Once, OnWayIsNew
  <2>3. rows[r] \in Programs
    BY <2>1, CommittedAreRows DEF OrderInv, TypeOK
  <2>4. QED
    BY <2>1, <2>2, <2>3, <1>2, <1>9
<1>13. ArrivedIsKnown'
  BY <1>2, <1>5, <1>9 DEF Once, ArrivedIsKnown
<1>14. NoRepeats'
  <2> SUFFICES ASSUME NEW p \in Programs, NEW j \in DOMAIN topic'[p], NEW k \in DOMAIN topic'[p],
                      topic'[p][j] = topic'[p][k]
               PROVE  j = k
    BY DEF NoRepeats
  <2>1. CASE p # rows[q]
    BY <2>1, <1>8 DEF Once, NoRepeats
  <2>2. CASE p = rows[q]
    <3> DEFINE n == Len(topic[p])
    <3>1. topic[p] \in Seq(committed) /\ topic'[p] \in Seq(committed)
      BY <1>1, <1>8, <2>2, AppendDelivers DEF OrderInv, TypeOK
    <3>2. /\ Len(topic'[p]) = n + 1 /\ topic'[p][n + 1] = q
          /\ \A x \in 1..n : topic'[p][x] = topic[p][x]
      BY <1>1, <2>2, AppendDelivers DEF OrderInv
    <3>3. n \in Nat /\ DOMAIN topic[p] = 1..n /\ DOMAIN topic'[p] = 1..(n + 1)
      BY <3>1, <3>2
    <3>4. \A x \in 1..n : topic[p][x] # q
      BY <1>5, <2>2, <3>3 DEF Delivered
    <3> HIDE DEF n
    <3>5. CASE j \in 1..n /\ k \in 1..n
      BY <3>2, <3>3, <3>5 DEF Once, NoRepeats
    <3>6. CASE ~ (j \in 1..n /\ k \in 1..n)
      BY <3>2, <3>3, <3>4, <3>6
    <3>7. QED
      BY <3>5, <3>6
  <2>3. QED
    BY <2>1, <2>2
<1>15. QED
  BY <1>10, <1>11, <1>12, <1>13, <1>14 DEF Once

\* The holder reads a batch that the topic does not have, and marks one that it
\* does; whoever has not the lock has nothing in hand.
LEMMA InstanceOnce ==
  ASSUME OrderInv, Once, NEW i \in Instances, Relay(i) \/ Lifecycle(i)
  PROVE  Once'
<1>1. UNCHANGED <<rows, committed, topic, late>>
  BY DEF Relay, Lifecycle, TakeLock, LockTaken, ReadBatch, NothingToPublish, MarkPublished,
         FindTransactionLost, Start, AskToStop, Stop, outboxVars, brokerVars
<1>2. \A p \in Programs : Delivered(p)' = Delivered(p)
  BY <1>1 DEF Delivered
<1>3. \A j \in Instances : \A q \in wire[j] : rows[q] \in Programs
  BY CommittedAreRows DEF OrderInv, TypeOK
<1>4. /\ at \in [Instances -> {"stopped", "idle", "looping", "locked", "sending"}]
      /\ batch \in [Instances -> SUBSET committed] /\ wire \in [Instances -> SUBSET committed]
  BY DEF OrderInv, TypeOK
<1>5. NoRepeats'
  BY <1>1 DEF Once, NoRepeats
<1>6. ASSUME UNCHANGED <<published, batch, wire>>,
             NEW new, new # "sending", at[i] # "sending", at' = [at EXCEPT ![i] = new],
             \A j \in Instances : j # i /\ lock = j => lock' = j,
             new = "locked" => lock' = i
      PROVE  Once'
  <2>1. \A j \in Instances : at'[j] = IF j = i THEN new ELSE at[j]
    BY <1>4, <1>6
  <2>2. HolderOnly'
    BY <2>1, <1>6 DEF Once, HolderOnly
  <2>3. OnlyBatches'
    BY <2>1, <1>1, <1>6 DEF Once, OnlyBatches
  <2>4. OnWayIsNew'
    BY <1>1, <1>2, <1>3, <1>6 DEF Once, OnWayIsNew
  <2>5. ArrivedIsKnown'
    BY <2>1, <1>2, <1>6 DEF Once, ArrivedIsKnown
  <2>6. QED
    BY <1>5, <2>2, <2>3, <2>4, <2>5 DEF Once
<1>7. CASE TakeLock(i)
  BY <1>6, <1>7, RelayAssumption DEF TakeLock, brokerVars
<1>8. CASE LockTaken(i)
  BY <1>6, <1>8 DEF LockTaken, brokerVars
<1>9. CASE NothingToPublish(i)
  BY <1>6, <1>9 DEF NothingToPublish, brokerVars
<1>10. CASE Start(i)
  BY <1>6, <1>10 DEF Start, brokerVars
<1>11. CASE Stop(i)
  BY <1>6, <1>11 DEF Stop, brokerVars
<1>12. CASE AskToStop(i)
  <2>1. UNCHANGED <<published, lock, at, batch, wire>>
    BY <1>12 DEF AskToStop, brokerVars
  <2>2. HolderOnly' /\ OnlyBatches'
    BY <1>1, <2>1 DEF Once, HolderOnly, OnlyBatches
  <2>3. OnWayIsNew' /\ ArrivedIsKnown'
    BY <1>1, <1>2, <1>3, <2>1 DEF Once, OnWayIsNew, ArrivedIsKnown
  <2>4. QED
    BY <1>5, <2>2, <2>3 DEF Once
<1>13. CASE FindTransactionLost(i)
  BY <1>13 DEF FindTransactionLost, Once, HolderOnly
<1>14. CASE ReadBatch(i)
  <2> DEFINE fresh == Oldest(Unpublished, BatchSize)
  <2>1. fresh \subseteq committed /\ fresh \intersect published = {}
    BY OldestAreRows DEF Unpublished
  <2>2. at[i] = "locked" /\ lock = i /\ UNCHANGED <<published, lock>>
    BY <1>14 DEF ReadBatch
  <2>3. \A j \in Instances : /\ at'[j] = IF j = i THEN "sending" ELSE at[j]
                             /\ batch'[j] = IF j = i THEN fresh ELSE batch[j]
                             /\ wire'[j] = IF j = i THEN fresh ELSE wire[j]
    BY <1>4, <1>14 DEF ReadBatch
  <2>4. \A j \in Instances : at[j] # "sending"
    BY <2>2 DEF Once, HolderOnly
  <2>5. \A p \in Programs : Delivered(p) \subseteq published
    BY <2>4 DEF Once, ArrivedIsKnown
  <2>6. \A q \in fresh : rows[q] \in Programs /\ q \notin Delivered(rows[q])
    BY <2>1, <2>5, CommittedAreRows DEF OrderInv
  <2> HIDE DEF fresh
  <2>7. HolderOnly'
    BY <2>2, <2>3 DEF Once, HolderOnly
  <2>8. OnlyBatches'
    BY <2>1, <2>2, <2>3, <1>1 DEF Once, OnlyBatches
  <2>9. OnWayIsNew'
    BY <2>3, <2>6, <1>1, <1>2, <1>3 DEF Once, OnWayIsNew
  <2>10. ArrivedIsKnown'
    BY <2>2, <2>5, <1>2 DEF ArrivedIsKnown
  <2>11. QED
    BY <1>5, <2>7, <2>8, <2>9, <2>10 DEF Once
<1>15. CASE MarkPublished(i)
  <2>1. at[i] = "sending" /\ wire[i] = {} /\ lock = i /\ lock' = None /\ wire' = wire
        /\ published' = published \union batch[i]
    BY <1>15 DEF MarkPublished, brokerVars
  <2>2. \A j \in Instances : /\ at'[j] = IF j = i THEN at'[i] ELSE at[j]
                             /\ batch'[j] = IF j = i THEN {} ELSE batch[j]
    BY <1>4, <1>15 DEF MarkPublished
  <2>3. at'[i] \in {"looping", "idle"}
    BY <1>4, <1>15 DEF MarkPublished
  <2>4. \A j \in Instances : j # i => at[j] \notin {"locked", "sending"} /\ batch[j] = {}
    BY <2>1 DEF Once, HolderOnly, OnlyBatches
  <2>5. HolderOnly'
    BY <2>2, <2>3, <2>4 DEF HolderOnly
  <2>6. OnlyBatches'
    BY <2>1, <2>2, <2>3, <2>4, <1>1 DEF Once, OnlyBatches
  <2>7. OnWayIsNew'
    BY <2>1, <1>1, <1>2, <1>3 DEF Once, OnWayIsNew
  <2>8. ArrivedIsKnown'
    BY <2>1, <2>4, <1>2 DEF Once, ArrivedIsKnown
  <2>9. QED
    BY <1>5, <2>5, <2>6, <2>7, <2>8 DEF Once
<1>16. QED
  BY <1>7, <1>8, <1>9, <1>10, <1>11, <1>12, <1>13, <1>14, <1>15 DEF Relay, Lifecycle

LEMMA OnceStep == OrderInv /\ OnceInv /\ [Next]_vars => OnceInv'
<1> SUFFICES ASSUME OrderInv, OnceInv, [Next]_vars, failures' = 0 PROVE Once'
  BY DEF OnceInv
<1>1. CASE Writers
  <2>1. failures' = failures
    BY <1>1 DEF Writers, Insert, CommitOutbox, RollBack
  <2>2. QED
    BY <2>1, <1>1, WritersOnce DEF OnceInv, Writers
<1>2. CASE Broker
  <2>1. failures' = failures
    BY <1>2 DEF Broker, Arrive, ArriveLate
  <2>2. QED
    BY <2>1, <1>2, BrokerOnce DEF OnceInv, Broker
<1>3. ASSUME NEW i \in Instances, Relay(i) \/ Lifecycle(i) PROVE Once'
  <2>1. failures' = failures
    BY <1>3 DEF Relay, Lifecycle, TakeLock, LockTaken, ReadBatch, NothingToPublish, MarkPublished,
                FindTransactionLost, Start, AskToStop, Stop
  <2>2. QED
    BY <2>1, <1>3, InstanceOnce DEF OnceInv
<1>4. ASSUME NEW i \in Instances, Faults(i) PROVE Once'
  <2>1. failures' = failures + 1 /\ failures \in Nat
    BY <1>4, RelayAssumption DEF Faults, SendFails, LoseTransaction, Crash, OrderInv, TypeOK
  <2>2. QED
    BY <2>1
<1>5. CASE UNCHANGED vars
  <2>1. UNCHANGED <<rows, published, lock, at, batch, wire, late, topic, failures>>
    BY <1>5 DEF vars
  <2>2. Once
    BY <2>1 DEF OnceInv
  <2>3. HolderOnly' /\ OnlyBatches'
    BY <2>1, <2>2 DEF Once, HolderOnly, OnlyBatches
  <2>4. OnWayIsNew' /\ ArrivedIsKnown' /\ NoRepeats'
    BY <2>1, <2>2 DEF Once, OnWayIsNew, ArrivedIsKnown, NoRepeats, Delivered
  <2>5. QED
    BY <2>3, <2>4 DEF Once
<1>6. QED
  BY <1>1, <1>2, <1>3, <1>4, <1>5 DEF Next

\* While nothing fails, no event is in the topic twice, however many instances
\* relay, whenever the lock changes hands and whoever is shut down.
THEOREM NothingTwice == Spec => []TwiceOnlyAfterFailure
<1>1. Init => OnceInv
  BY InitOnce
<1>2. OrderInv /\ OnceInv /\ [Next]_vars => OnceInv'
  BY OnceStep
<1>3. OnceInv => TwiceOnlyAfterFailure
  BY DEF OnceInv, Once, NoRepeats, TwiceOnlyAfterFailure
<1>4. QED
  BY <1>1, <1>2, <1>3, OrderHolds, PTL DEF Spec

-----------------------------------------------------------------------------
(* The relay implements the promise: a commit produces, the first arrival  *)
(* of an event is its reception, and every other step leaves both alone.   *)

Produced == [p \in Programs |-> {q \in committed : rows[q] = p}]
Received == [p \in Programs |-> Delivered(p)]

LEMMA InitImplements == Init => Promise!Init
<1> SUFFICES ASSUME Init PROVE Promise!Init
  OBVIOUS
<1>1. committed = {} /\ \A p \in Programs : topic[p] = <<>>
  BY DEF Init
<1>2. Produced = [p \in Programs |-> {}]
  BY <1>1 DEF Produced
<1>3. \A p \in Programs : Delivered(p) = {}
  BY <1>1 DEF Delivered
<1>4. Received = [p \in Programs |-> {}]
  BY <1>3 DEF Received
<1>5. QED
  BY <1>2, <1>4 DEF Promise!Init, Produced, Received

\* A commit adds rows of one program above those it has.
LEMMA CommitProduces ==
  ASSUME OrderInv, NEW p \in Programs, CommitOutbox(p)
  PROVE  Promise!Produce(p)
<1>1. rows' = rows /\ topic' = topic /\ committed' = committed \union open[p]
  BY DEF CommitOutbox, brokerVars
<1>2. open[p] \in SUBSET Positions /\ \A q \in open[p] : rows[q] = p
  BY DEF OrderInv, TypeOK, OpenAbove
<1>3. \A e \in open[p], d \in Produced[p] : d < e
  BY DEF OrderInv, OpenAbove, Produced
<1>4. Produced' = [Produced EXCEPT ![p] = @ \union open[p]]
  <2> DEFINE RowsOf(set, r) == {q \in set : rows[q] = r}
  <2>1. \A r \in Programs : RowsOf(committed', r)
          = IF r = p THEN RowsOf(committed, r) \union open[p] ELSE RowsOf(committed, r)
    BY <1>1, <1>2
  <2>2. /\ Produced = [r \in Programs |-> RowsOf(committed, r)]
        /\ Produced' = [r \in Programs |-> RowsOf(committed', r)]
    BY <1>1 DEF Produced
  <2> HIDE DEF RowsOf
  <2>3. QED
    BY <2>1, <2>2
<1>5. Received' = Received
  BY <1>1 DEF Received, Delivered
<1>6. QED
  BY <1>2, <1>3, <1>4, <1>5 DEF Promise!Produce, Produced, Received

\* The first arrival of an event receives it.
LEMMA ArrivalReceives ==
  ASSUME OrderInv, NEW i \in Instances, NEW q, Arrive(i, q) \/ ArriveLate(i, q)
  PROVE  \/ Promise!Receive(rows[q])
         \/ UNCHANGED <<Produced, Received>>
<1> USE DEF OrderInv
<1>1. Appends(q)
  BY BrokerAppends
<1>2. rows' = rows /\ committed' = committed
  BY <1>1 DEF Appends
<1>3. /\ rows[q] \in Programs /\ q \in committed
      /\ Delivered(rows[q])' = Delivered(rows[q]) \union {q}
      /\ \A p \in Programs : p # rows[q] => Delivered(p)' = Delivered(p)
  BY <1>1, AppendDelivers DEF Appends
<1>4. Produced' = Produced
  BY <1>2 DEF Produced
<1>5. Received' = [Received EXCEPT ![rows[q]] = @ \union {q}]
  BY <1>2, <1>3 DEF Received
<1>6. CASE q \in Delivered(rows[q])
  <2>1. Delivered(rows[q]) \union {q} = Delivered(rows[q])
    BY <1>6
  <2>2. \A p \in Programs : Delivered(p)' = Delivered(p)
    BY <1>2, <1>3, <2>1
  <2>3. Received' = Received
    BY <2>2 DEF Received
  <2>4. QED
    BY <1>4, <2>3
<1>7. CASE q \notin Delivered(rows[q])
  <2>1. \A r \in committed : rows[r] = rows[q] /\ r < q => r \in Delivered(rows[q])
    <3>1. FirstOfProgram(q, wire[i]) \/ FirstOfProgram(q, late[i])
      BY DEF Arrive, ArriveLate
    <3>2. /\ Closed(wire[i]) /\ Closed(late[i])
          /\ wire[i] \in SUBSET committed /\ late[i] \in SUBSET committed
      BY DEF SendsClosed, TypeOK
    <3>3. QED
      BY <3>1, <3>2, ArrivesInOrder
  <2>2. q \in Produced[rows[q]] \ Received[rows[q]]
    BY <1>3, <1>7 DEF Produced, Received
  <2>3. \A d \in Produced[rows[q]] : d < q => d \in Received[rows[q]]
    BY <1>3, <2>1 DEF Produced, Received
  <2>4. QED
    BY <1>4, <1>5, <2>2, <2>3 DEF Promise!Receive, Produced, Received
<1>8. QED
  BY <1>6, <1>7

\* Every other step is invisible to the readers.
LEMMA OthersInvisible ==
  ASSUME OrderInv,
         \/ \E p \in Programs : Insert(p) \/ RollBack(p)
         \/ \E i \in Instances : Relay(i) \/ Faults(i) \/ Lifecycle(i)
         \/ UNCHANGED vars
  PROVE  UNCHANGED <<Produced, Received>>
<1>1. UNCHANGED <<committed, topic>>
  BY DEF Relay, Faults, Lifecycle, TakeLock, LockTaken, ReadBatch, NothingToPublish, MarkPublished,
         FindTransactionLost, SendFails, LoseTransaction, Crash, Start, AskToStop, Stop,
         Insert, RollBack, outboxVars, brokerVars, vars
<1>2. \A q \in committed : rows'[q] = rows[q]
  <2>1. CASE \E p \in Programs : Insert(p)
    BY <2>1, RowsKept, CommittedAreRows DEF OrderInv
  <2>2. CASE rows' = rows
    BY <2>2
  <2>3. (\E p \in Programs : Insert(p)) \/ rows' = rows
    BY DEF Relay, Faults, Lifecycle, TakeLock, LockTaken, ReadBatch, NothingToPublish,
           MarkPublished, FindTransactionLost, SendFails, LoseTransaction, Crash, Start,
           AskToStop, Stop, RollBack, outboxVars, vars
  <2>4. QED
    BY <2>1, <2>2, <2>3
<1>3. Produced' = Produced
  BY <1>1, <1>2 DEF Produced
<1>4. Received' = Received
  BY <1>1 DEF Received, Delivered
<1>5. QED
  BY <1>3, <1>4

LEMMA StepImplements ==
  OrderInv /\ [Next]_vars => [Promise!Next]_(Promise!streamVars)
<1> SUFFICES ASSUME OrderInv, [Next]_vars
             PROVE  Promise!Next \/ UNCHANGED Promise!streamVars
  OBVIOUS
<1>1. UNCHANGED <<Produced, Received>> => UNCHANGED Promise!streamVars
  BY DEF Promise!streamVars, Produced, Received
<1>2. CASE \E p \in Programs : CommitOutbox(p)
  BY <1>2, CommitProduces DEF Promise!Next
<1>3. CASE Broker
  <2>1. PICK i \in Instances, q \in Positions : Arrive(i, q) \/ ArriveLate(i, q)
    BY <1>3 DEF Broker
  <2>2. rows[q] \in Programs
    BY <2>1, BrokerAppends, AppendDelivers DEF OrderInv
  <2>3. QED
    BY <2>1, <2>2, <1>1, ArrivalReceives DEF Promise!Next
<1>4. CASE \/ \E p \in Programs : Insert(p) \/ RollBack(p)
           \/ \E i \in Instances : Relay(i) \/ Faults(i) \/ Lifecycle(i)
           \/ UNCHANGED vars
  BY <1>1, <1>4, OthersInvisible
<1>5. QED
  BY <1>2, <1>3, <1>4 DEF Next, Writers

\* The relay implements the order of the promise to readers: what is committed
\* is received in the order of its commits, none left out.
THEOREM RelayImplementsPromise == Spec => Promise!OrderSpec
<1>1. Init => Promise!Init
  BY InitImplements
<1>2. OrderInv /\ [Next]_vars => [Promise!Next]_(Promise!streamVars)
  BY StepImplements
<1>3. QED
  BY <1>1, <1>2, OrderHolds, PTL DEF Spec, Promise!OrderSpec
=============================================================================
