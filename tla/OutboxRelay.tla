---------------------------- MODULE OutboxRelay ----------------------------
(***************************************************************************)
(* How committed events reach Kafka: the outbox table, the relay of each   *)
(* instance (OutboxRelay), the advisory lock they share, their producers   *)
(* and the topic `capacity.events`.                                        *)
(*                                                                         *)
(* A row's position comes from a sequence when the row is inserted; the    *)
(* row is seen when its transaction commits, and other transactions commit *)
(* in between.  A relay sends a batch while its transaction holds the      *)
(* lock.  When that transaction is lost, to a closed connection or to its  *)
(* timeout, another instance can take the lock while the first still sends.*)
(*                                                                         *)
(* An event is its position.  A batch, and what of it is still on its way, *)
(* is a set of positions: it is sent in their order, and the broker keeps  *)
(* the order within a program, whose events share a partition.             *)
(***************************************************************************)
EXTENDS Naturals, Sequences, FiniteSets

CONSTANTS Programs, Instances,
          BatchSize,
          None,
          MaxPosition, \* bound: the rows ever inserted
          MaxFailures, \* bound: crashes, failed sends and lost transactions
          MaxStops     \* bound: orderly shutdowns

ASSUME RelayAssumption ==
  /\ BatchSize \in Nat \ {0}
  /\ MaxPosition \in Nat /\ MaxFailures \in Nat /\ MaxStops \in Nat
  /\ None \notin Instances

VARIABLES rows,      \* the program of each position taken, committed or not
          open,      \* the rows of each program that its transaction has not committed
          committed, \* the rows of outbox_events
          published, \* the rows with a published_at
          lock,      \* the instance whose transaction has the advisory lock
          at,        \* where each instance is in `relay`
          stopping,  \* whether it has been told to stop
          batch,     \* what it is publishing
          wire,      \* what of that the broker has not appended yet
          late,      \* what may still arrive of a send given up
          topic,     \* the messages of each program, in the order of the partition
          failures, stops

outboxVars == <<rows, open, committed>>
relayVars  == <<published, lock, at, stopping, batch>>
brokerVars == <<wire, late, topic>>

vars == <<rows, open, committed, published, lock, at, stopping, batch,
          wire, late, topic, failures, stops>>

Positions == 1..MaxPosition

TypeOK ==
  /\ rows \in Seq(Programs) /\ Len(rows) <= MaxPosition
  /\ open \in [Programs -> SUBSET Positions]
  /\ committed \subseteq 1..Len(rows)
  /\ published \subseteq committed
  /\ lock \in Instances \union {None}
  /\ at \in [Instances -> {"stopped", "idle", "looping", "locked", "sending"}]
  /\ stopping \in [Instances -> BOOLEAN]
  /\ batch \in [Instances -> SUBSET committed]
  /\ wire \in [Instances -> SUBSET committed]
  /\ late \in [Instances -> SUBSET committed]
  /\ topic \in [Programs -> Seq(committed)]
  /\ failures \in 0..MaxFailures /\ stops \in 0..MaxStops

Delivered(p) == {topic[p][k] : k \in DOMAIN topic[p]}

\* Variant: the relay keeps a cursor and looks only behind it.
BehindCursor == {q \in committed : \A r \in published : r < q}

\* Variant: the relay sees rows that are not committed.
UncommittedToo == (1..Len(rows)) \ published

\* What the relay reads: the rows without a published_at.
Unpublished == committed \ published

-----------------------------------------------------------------------------
(* The commands' transactions. *)

\* A transaction that holds the row of program p inserts an event; the sequence
\* gives it the next position at once.
Insert(p) ==
  /\ Len(rows) < MaxPosition
  /\ rows' = Append(rows, p)
  /\ open' = [open EXCEPT ![p] = @ \union {Len(rows) + 1}]
  /\ UNCHANGED committed
  /\ UNCHANGED relayVars /\ UNCHANGED brokerVars /\ UNCHANGED <<failures, stops>>

CommitOutbox(p) ==
  /\ open[p] # {}
  /\ committed' = committed \union open[p]
  /\ open' = [open EXCEPT ![p] = {}]
  /\ UNCHANGED rows
  /\ UNCHANGED relayVars /\ UNCHANGED brokerVars /\ UNCHANGED <<failures, stops>>

\* The positions of a transaction rolled back are never used again.
RollBack(p) ==
  /\ open[p] # {}
  /\ open' = [open EXCEPT ![p] = {}]
  /\ UNCHANGED <<rows, committed>>
  /\ UNCHANGED relayVars /\ UNCHANGED brokerVars /\ UNCHANGED <<failures, stops>>

-----------------------------------------------------------------------------
(* The broker. *)

\* Variant: messages without a key are spread over the partitions.
AnyOfThem(q, sent) == q \in sent

\* The first of a program's events among those sent: the key puts them in one
\* partition, and an idempotent producer keeps their order through its retries.
FirstOfProgram(q, sent) == q \in sent /\ \A r \in sent : rows[r] = rows[q] => q <= r

\* The broker appends an event of the batch that instance i is sending.
Arrive(i, q) ==
  /\ FirstOfProgram(q, wire[i])
  /\ wire' = [wire EXCEPT ![i] = @ \ {q}]
  /\ topic' = [topic EXCEPT ![rows[q]] = Append(@, q)]
  /\ UNCHANGED late
  /\ UNCHANGED outboxVars /\ UNCHANGED relayVars /\ UNCHANGED <<failures, stops>>

\* It appends an event of a send that its sender has given up, or died in.
ArriveLate(i, q) ==
  /\ FirstOfProgram(q, late[i])
  /\ late' = [late EXCEPT ![i] = @ \ {q}]
  /\ topic' = [topic EXCEPT ![rows[q]] = Append(@, q)]
  /\ UNCHANGED wire
  /\ UNCHANGED outboxVars /\ UNCHANGED relayVars /\ UNCHANGED <<failures, stops>>

-----------------------------------------------------------------------------
(* The relay of one instance. *)

\* The lock goes with the transaction that holds it.
LockWithout(i) == IF lock = i THEN None ELSE lock

Start(i) ==
  /\ at[i] = "stopped"
  /\ at' = [at EXCEPT ![i] = "idle"]
  /\ UNCHANGED <<published, lock, stopping, batch>>
  /\ UNCHANGED outboxVars /\ UNCHANGED brokerVars /\ UNCHANGED <<failures, stops>>

\* A tick of the timer, or the next turn of the loop after a full batch: a
\* transaction begins and takes the lock.
TakeLock(i) ==
  /\ at[i] = "looping" \/ (at[i] = "idle" /\ ~stopping[i])
  /\ lock = None
  /\ lock' = i
  /\ at' = [at EXCEPT ![i] = "locked"]
  /\ UNCHANGED <<published, stopping, batch>>
  /\ UNCHANGED outboxVars /\ UNCHANGED brokerVars /\ UNCHANGED <<failures, stops>>

\* Another instance has it: nothing is published this time.
LockTaken(i) ==
  /\ at[i] = "looping"
  /\ lock # None
  /\ at' = [at EXCEPT ![i] = "idle"]
  /\ UNCHANGED <<published, lock, stopping, batch>>
  /\ UNCHANGED outboxVars /\ UNCHANGED brokerVars /\ UNCHANGED <<failures, stops>>

\* Variant: the batch is not ordered by position.
Newest(set, n) == {q \in set : Cardinality({r \in set : r > q}) < n}

\* The n lowest positions of a set of rows.
Oldest(set, n) == {q \in set : Cardinality({r \in set : r < q}) < n}

\* The batch is read and handed to the producer.
ReadBatch(i) ==
  /\ at[i] = "locked" /\ lock = i
  /\ Unpublished # {}
  /\ LET oldest == Oldest(Unpublished, BatchSize)
     IN  /\ batch' = [batch EXCEPT ![i] = oldest]
         /\ wire' = [wire EXCEPT ![i] = oldest]
  /\ at' = [at EXCEPT ![i] = "sending"]
  /\ UNCHANGED <<published, lock, stopping, late, topic>>
  /\ UNCHANGED outboxVars /\ UNCHANGED <<failures, stops>>

NothingToPublish(i) ==
  /\ at[i] = "locked" /\ lock = i
  /\ Unpublished = {}
  /\ lock' = None
  /\ at' = [at EXCEPT ![i] = "idle"]
  /\ UNCHANGED <<published, stopping, batch>>
  /\ UNCHANGED outboxVars /\ UNCHANGED brokerVars /\ UNCHANGED <<failures, stops>>

\* Variant: the batch is marked without waiting for the broker.
MarkUnacknowledged(i) ==
  /\ at[i] = "sending" /\ lock = i
  /\ published' = published \union batch[i]
  /\ lock' = None
  /\ at' = [at EXCEPT ![i] = IF Cardinality(batch[i]) = BatchSize THEN "looping" ELSE "idle"]
  /\ batch' = [batch EXCEPT ![i] = {}]
  /\ UNCHANGED stopping
  /\ UNCHANGED outboxVars /\ UNCHANGED brokerVars /\ UNCHANGED <<failures, stops>>

\* The broker has acknowledged the whole batch: it is marked, the transaction
\* commits, and a full batch is followed by another at once.
MarkPublished(i) ==
  /\ at[i] = "sending" /\ wire[i] = {} /\ lock = i
  /\ published' = published \union batch[i]
  /\ lock' = None
  /\ at' = [at EXCEPT ![i] = IF Cardinality(batch[i]) = BatchSize THEN "looping" ELSE "idle"]
  /\ batch' = [batch EXCEPT ![i] = {}]
  /\ UNCHANGED stopping
  /\ UNCHANGED outboxVars /\ UNCHANGED brokerVars /\ UNCHANGED <<failures, stops>>

\* Variant: the failed update is retried for ever.
FindLostBeforeSending(i) ==
  /\ at[i] = "locked"
  /\ lock # i
  /\ at' = [at EXCEPT ![i] = "idle"]
  /\ batch' = [batch EXCEPT ![i] = {}]
  /\ UNCHANGED <<published, lock, stopping>>
  /\ UNCHANGED outboxVars /\ UNCHANGED brokerVars /\ UNCHANGED <<failures, stops>>

\* The transaction is gone when the relay comes to use it: the statement fails,
\* and the next tick begins again.
FindTransactionLost(i) ==
  /\ \/ at[i] = "locked"
     \/ at[i] = "sending" /\ wire[i] = {}
  /\ lock # i
  /\ at' = [at EXCEPT ![i] = "idle"]
  /\ batch' = [batch EXCEPT ![i] = {}]
  /\ UNCHANGED <<published, lock, stopping>>
  /\ UNCHANGED outboxVars /\ UNCHANGED brokerVars /\ UNCHANGED <<failures, stops>>

\* The delivery timeout ends a send: the transaction is rolled back.  What the
\* broker did take stays, its acknowledgement may be what is missing, and the
\* rest may yet reach it (that of an instance's last failed send only).
SendFails(i) ==
  /\ failures < MaxFailures
  /\ at[i] = "sending"
  /\ failures' = failures + 1
  /\ late' = [late EXCEPT ![i] = wire[i]]
  /\ wire' = [wire EXCEPT ![i] = {}]
  /\ lock' = LockWithout(i)
  /\ at' = [at EXCEPT ![i] = "idle"]
  /\ batch' = [batch EXCEPT ![i] = {}]
  /\ UNCHANGED <<published, stopping, topic, stops>>
  /\ UNCHANGED outboxVars

\* The connection closes, or the transaction outlives its timeout, while the
\* relay goes on.
LoseTransaction(i) ==
  /\ failures < MaxFailures
  /\ lock = i
  /\ failures' = failures + 1
  /\ lock' = None
  /\ UNCHANGED <<published, at, stopping, batch, stops>>
  /\ UNCHANGED outboxVars /\ UNCHANGED brokerVars

Crash(i) ==
  /\ failures < MaxFailures
  /\ at[i] # "stopped"
  /\ failures' = failures + 1
  /\ late' = [late EXCEPT ![i] = IF at[i] = "sending" THEN wire[i] ELSE @]
  /\ wire' = [wire EXCEPT ![i] = {}]
  /\ lock' = LockWithout(i)
  /\ at' = [at EXCEPT ![i] = "stopped"]
  /\ stopping' = [stopping EXCEPT ![i] = FALSE]
  /\ batch' = [batch EXCEPT ![i] = {}]
  /\ UNCHANGED <<published, topic, stops>>
  /\ UNCHANGED outboxVars

\* Shutdown clears the timer ...
AskToStop(i) ==
  /\ stops < MaxStops
  /\ at[i] # "stopped" /\ ~stopping[i]
  /\ stops' = stops + 1
  /\ stopping' = [stopping EXCEPT ![i] = TRUE]
  /\ UNCHANGED <<published, lock, at, batch, failures>>
  /\ UNCHANGED outboxVars /\ UNCHANGED brokerVars

\* Variant: the producer is disconnected without waiting for the batch.
StopAtOnce(i) ==
  /\ stopping[i] /\ at[i] \in {"idle", "sending"}
  /\ at' = [at EXCEPT ![i] = "stopped"]
  /\ stopping' = [stopping EXCEPT ![i] = FALSE]
  /\ late' = [late EXCEPT ![i] = IF at[i] = "sending" THEN wire[i] ELSE @]
  /\ wire' = [wire EXCEPT ![i] = {}]
  /\ batch' = [batch EXCEPT ![i] = {}]
  /\ lock' = LockWithout(i)
  /\ UNCHANGED <<published, topic>>
  /\ UNCHANGED outboxVars /\ UNCHANGED <<failures, stops>>

\* ... waits for the batch in flight, and disconnects the producer.
Stop(i) ==
  /\ stopping[i] /\ at[i] = "idle"
  /\ at' = [at EXCEPT ![i] = "stopped"]
  /\ stopping' = [stopping EXCEPT ![i] = FALSE]
  /\ UNCHANGED <<published, lock, batch>>
  /\ UNCHANGED outboxVars /\ UNCHANGED brokerVars /\ UNCHANGED <<failures, stops>>

-----------------------------------------------------------------------------
Init ==
  /\ rows = <<>>
  /\ open = [p \in Programs |-> {}]
  /\ committed = {} /\ published = {}
  /\ lock = None
  /\ at = [i \in Instances |-> "stopped"]
  /\ stopping = [i \in Instances |-> FALSE]
  /\ batch = [i \in Instances |-> {}]
  /\ wire = [i \in Instances |-> {}]
  /\ late = [i \in Instances |-> {}]
  /\ topic = [p \in Programs |-> <<>>]
  /\ failures = 0 /\ stops = 0

Writers == \E p \in Programs : Insert(p) \/ CommitOutbox(p) \/ RollBack(p)

Broker == \E i \in Instances, q \in Positions : Arrive(i, q) \/ ArriveLate(i, q)

Relay(i) ==
  \/ TakeLock(i) \/ LockTaken(i) \/ ReadBatch(i) \/ NothingToPublish(i)
  \/ MarkPublished(i) \/ FindTransactionLost(i)

Faults(i) == SendFails(i) \/ LoseTransaction(i) \/ Crash(i)

Lifecycle(i) == Start(i) \/ AskToStop(i) \/ Stop(i)

Next ==
  \/ Writers \/ Broker
  \/ \E i \in Instances : Relay(i) \/ Faults(i) \/ Lifecycle(i)

Spec == Init /\ [][Next]_vars

\* An instance that runs ticks, and is restarted when it has ended; the broker
\* takes what is sent to it.  A send given up may never arrive.
Fairness ==
  /\ \A i \in Instances : WF_vars(Relay(i)) /\ WF_vars(Start(i)) /\ WF_vars(Stop(i))
  /\ \A i \in Instances : WF_vars(\E q \in Positions : Arrive(i, q))

FairSpec == Spec /\ Fairness

-----------------------------------------------------------------------------
(* Properties. *)

\* A consumer that drops what it has seen gets a program's events in the order
\* of their commits: before an event's first appearance come all that precede it,
\* whatever batches were sent twice, late or by two instances at once.
FirstSeenInOrder ==
  \A p \in Programs : \A k \in DOMAIN topic[p] : \A r \in committed :
    rows[r] = p /\ r < topic[p][k] => \E j \in 1..(k - 1) : topic[p][j] = r

\* An event is marked only once the broker has it.
MarkedIsDelivered == \A q \in published : q \in Delivered(rows[q])

\* Nothing is sent twice unless a process, a send or a transaction failed:
\* neither the hand-over of the lock nor an orderly shutdown repeats a batch.
TwiceOnlyAfterFailure ==
  failures = 0 => \A p \in Programs : \A j, k \in DOMAIN topic[p] :
                    topic[p][j] = topic[p][k] => j = k

\* The relay implements the promise made to readers.
Promise == INSTANCE EventStream WITH
  Events   <- Positions,
  produced <- [p \in Programs |-> {q \in committed : rows[q] = p}],
  received <- [p \in Programs |-> Delivered(p)]

KeepsPromise == Promise!Spec

\* Every committed event is marked in the end, and then not sent again.
EveryEventMarked == []<>(committed = published)

\* An instance told to stop does so: its batch ends, whatever becomes of it.
ShutdownEnds == \A i \in Instances : stopping[i] ~> at[i] = "stopped"

\* Stated by schema.prisma and the architecture document: the relay publishes
\* rows in the order of their positions.
PublishedInPositionOrder ==
  \A q \in published, r \in committed : r < q => r \in published
=============================================================================
