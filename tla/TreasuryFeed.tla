---------------------------- MODULE TreasuryFeed ----------------------------
(***************************************************************************)
(* How treasury's messages reach the capacity service: the topic, the      *)
(* consumers of the service's instances, what each does with a message     *)
(* (TreasuryMessageProcessor) and the dead-letter topic.                   *)
(*                                                                         *)
(* Kafka delivers at least once.  A partition belongs to one consumer at a *)
(* time, which starts at the offset last committed; but a consumer that    *)
(* has lost its partition may still be at work on a message of it, while   *)
(* the next one processes the same message.  The command is atomic here,   *)
(* which CapacityTransactions justifies.                                   *)
(*                                                                         *)
(* An offset is the number of messages before and up to it.  The length of *)
(* a wait is left out: to wait and fail is to deliver the message again.   *)
(***************************************************************************)
EXTENDS CapacityRows, FiniteSets

CONSTANTS Partitions, Consumers,
          Messages,  \* what treasury may send
          Malformed, \* a message that toCommand cannot read
          MaxSent    \* bound: the messages sent in all

ASSUME FeedAssumption ==
  /\ Messages \subseteq TreasuryMessage
  /\ Malformed \notin TreasuryMessage
  /\ MaxSent \in Nat
  /\ None \notin Consumers

VARIABLES programs, reservations, movements, treasuryEvents, outbox,
          topic,     \* the messages of each partition
          owner,     \* the consumer each partition is assigned to
          committed, \* the group's committed offset of each partition
          position,  \* how far the owner has processed its partition
          inHand,    \* the message each consumer is working on
          parked     \* where the messages in the dead-letter topic come from

tables == <<programs, reservations, movements, treasuryEvents, outbox>>

vars == <<programs, reservations, movements, treasuryEvents, outbox,
          topic, owner, committed, position, inHand, parked>>

Service == INSTANCE Capacity

Sent == {place \in Partitions \X (1..MaxSent) : place[2] <= Len(topic[place[1]])}

TypeOK ==
  /\ Service!TypeOK
  /\ topic \in [Partitions -> Seq(Messages \union {Malformed})]
  /\ owner \in [Partitions -> Consumers \union {None}]
  /\ \A p \in Partitions : committed[p] \in 0..position[p] /\ position[p] \in 0..Len(topic[p])
  /\ inHand \in [Consumers -> [at : Sent, step : {"applying", "parking"}] \union {None}]
  /\ parked \subseteq Sent

-----------------------------------------------------------------------------
(* The consumer group. *)

\* Treasury sends a message.  Messages of a program may be in several
\* partitions: partitions are added, and a bad key picks any of them.
Send(p, message) ==
  /\ Cardinality(Sent) < MaxSent
  /\ topic' = [topic EXCEPT ![p] = Append(@, message)]
  /\ UNCHANGED <<tables, owner, committed, position, inHand, parked>>

\* A consumer that has started, or polls again, gets a partition, from no one
\* or from another consumer, which may be in the middle of a message.
Assign(p, c) ==
  /\ owner[p] # c
  /\ inHand[c] = None
  /\ owner' = [owner EXCEPT ![p] = c]
  /\ position' = [position EXCEPT ![p] = committed[p]]
  /\ UNCHANGED <<tables, topic, committed, inHand, parked>>

\* Offsets of processed messages are committed now and then.
AutoCommit(p) ==
  /\ owner[p] # None
  /\ position[p] > committed[p]
  /\ committed' = [committed EXCEPT ![p] = position[p]]
  /\ UNCHANGED <<tables, topic, owner, position, inHand, parked>>

\* Variant: the offset moves on when the message is handed over.
DeliverAndMoveOn(p, c) ==
  /\ owner[p] = c
  /\ inHand[c] = None
  /\ position[p] < Len(topic[p])
  /\ inHand' = [inHand EXCEPT ![c] = [at |-> <<p, position[p] + 1>>, step |-> "applying"]]
  /\ position' = [position EXCEPT ![p] = @ + 1]
  /\ UNCHANGED <<tables, topic, owner, committed, parked>>

\* Messages are handed over one at a time; a consumer does nothing else
\* until it is done with one.
Deliver(p, c) ==
  /\ owner[p] = c
  /\ inHand[c] = None
  /\ position[p] < Len(topic[p])
  /\ inHand' = [inHand EXCEPT ![c] = [at |-> <<p, position[p] + 1>>, step |-> "applying"]]
  /\ UNCHANGED <<tables, topic, owner, committed, position, parked>>

\* A consumer stops between two messages: it disconnects before the producer
\* does, having finished the one in hand and committed its offsets.
Stop(c) ==
  LET mine == {p \in Partitions : owner[p] = c}
  IN  /\ mine # {}
      /\ inHand[c] = None
      /\ owner' = [p \in Partitions |-> IF p \in mine THEN None ELSE owner[p]]
      /\ committed' = [p \in Partitions |-> IF p \in mine THEN position[p] ELSE committed[p]]
      /\ UNCHANGED <<tables, topic, position, inHand, parked>>

\* An instance dies, or one that was evicted does.
Crash(c) ==
  LET mine == {p \in Partitions : owner[p] = c}
  IN  /\ mine # {} \/ inHand[c] # None
      /\ owner' = [p \in Partitions |-> IF p \in mine THEN None ELSE owner[p]]
      /\ position' = [p \in Partitions |-> IF p \in mine THEN committed[p] ELSE position[p]]
      /\ inHand' = [inHand EXCEPT ![c] = None]
      /\ UNCHANGED <<tables, topic, committed, parked>>

-----------------------------------------------------------------------------
(* Processing a message. *)

At(place) == topic[place[1]][place[2]]

\* Whether toCommand makes a command of the message.
Readable(message) == message # Malformed

Working(c, step) == inHand[c] # None /\ inHand[c].step = step

\* Variant: the offset is stored by whoever processed the message.
FinishEvenIfLost(c) ==
  LET place == inHand[c].at
  IN  /\ inHand' = [inHand EXCEPT ![c] = None]
      /\ position' = [position EXCEPT ![place[1]] = place[2]]

\* process returned: the offset is stored, unless the consumer has lost the
\* partition.
Finish(c) ==
  LET place == inHand[c].at
  IN  /\ inHand' = [inHand EXCEPT ![c] = None]
      /\ position' = IF owner[place[1]] = c
                     THEN [position EXCEPT ![place[1]] = place[2]] ELSE position

\* Variant: the failure is logged and the feed moves on.
SwallowFailure(c) == Finish(c)

\* process waited and threw: the offset is not stored, and the client delivers
\* the message again.
RetryLater(c) ==
  /\ inHand' = [inHand EXCEPT ![c] = None]
  /\ UNCHANGED position

\* What the command comes to; a new event id is recorded as its last step, and
\* only then found to be a duplicate.
Outcome(message) ==
  LET answer == TreasuryAnswer(programs[message.program], message)
  IN  IF answer \in {"CREATED", "APPLIED", "STALE"} /\ Service!EventRecorded(message.event)
      THEN "DUPLICATE" ELSE answer

\* Variant: every error of the command is one that the message is to blame for.
BusyIsPermanent(c) ==
  /\ Working(c, "applying")
  /\ inHand' = [inHand EXCEPT ![c].step = "parking"]
  /\ UNCHANGED <<tables, topic, owner, committed, position, parked>>

\* The command fails and changes nothing: the program is locked, the database
\* cannot be reached.
FailTemporarily(c) ==
  /\ Working(c, "applying") /\ Readable(At(inHand[c].at))
  /\ RetryLater(c)
  /\ UNCHANGED <<tables, topic, owner, committed, parked>>

Changes(message) ==
  \/ Service!OpenFromTreasury(message)
  \/ Service!UpdateFromTreasury(message)
  \/ Service!RecordStale(message)

\* The command changes the tables, and is answered.
Apply(c) ==
  /\ Working(c, "applying") /\ Readable(At(inHand[c].at))
  /\ Changes(At(inHand[c].at))
  /\ Finish(c)
  /\ UNCHANGED <<topic, owner, committed, parked>>

\* The command changes the tables, and its answer is lost.
ApplyUnacknowledged(c) ==
  /\ Working(c, "applying") /\ Readable(At(inHand[c].at))
  /\ Changes(At(inHand[c].at))
  /\ RetryLater(c)
  /\ UNCHANGED <<topic, owner, committed, parked>>

\* The event id is recorded already.
IgnoreDuplicate(c) ==
  /\ Working(c, "applying") /\ Readable(At(inHand[c].at))
  /\ Outcome(At(inHand[c].at)) = "DUPLICATE"
  /\ Finish(c)
  /\ UNCHANGED <<tables, topic, owner, committed, parked>>

\* Variant: a program that is not open is expected to be opened soon.
IsWrongLimit(answer) == answer \in {"INVALID_AMOUNT", "CURRENCY_MISMATCH"}

\* The domain errors of the command.  Any other error is temporary.
IsPermanent(answer) ==
  answer \in {"PROGRAM_NOT_FOUND", "INVALID_AMOUNT", "CURRENCY_MISMATCH"}

\* The message cannot be read, or the command refuses it.
Refuse(c) ==
  /\ Working(c, "applying")
  /\ \/ ~Readable(At(inHand[c].at))
     \/ Readable(At(inHand[c].at)) /\ IsPermanent(Outcome(At(inHand[c].at)))
  /\ inHand' = [inHand EXCEPT ![c].step = "parking"]
  /\ UNCHANGED <<tables, topic, owner, committed, position, parked>>

\* The dead-letter topic takes the message.
Park(c) ==
  /\ Working(c, "parking")
  /\ parked' = parked \union {inHand[c].at}
  /\ Finish(c)
  /\ UNCHANGED <<tables, topic, owner, committed>>

\* The dead-letter topic does not answer; it may have taken the message.
ParkFails(c) ==
  /\ Working(c, "parking")
  /\ parked' \in {parked, parked \union {inHand[c].at}}
  /\ RetryLater(c)
  /\ UNCHANGED <<tables, topic, owner, committed>>

-----------------------------------------------------------------------------
Init ==
  /\ Service!Init
  /\ topic = [p \in Partitions |-> <<>>]
  /\ owner = [p \in Partitions |-> None]
  /\ committed = [p \in Partitions |-> 0]
  /\ position = [p \in Partitions |-> 0]
  /\ inHand = [c \in Consumers |-> None]
  /\ parked = {}

\* What consumer c does with the message it has.
Handle(c) == Apply(c) \/ IgnoreDuplicate(c) \/ Refuse(c)

Process(c) ==
  Handle(c) \/ ApplyUnacknowledged(c) \/ FailTemporarily(c) \/ Park(c) \/ ParkFails(c)

Next ==
  \/ \E p \in Partitions : \E message \in Messages \union {Malformed} : Send(p, message)
  \/ \E p \in Partitions : \E c \in Consumers : Assign(p, c) \/ Deliver(p, c)
  \/ \E p \in Partitions : AutoCommit(p)
  \/ \E c \in Consumers : Process(c) \/ Stop(c) \/ Crash(c)

Spec == Init /\ [][Next]_vars

\* Consumer c is at work on the message that its partition p waits for.
HoldsNext(p, c) ==
  owner[p] = c /\ inHand[c] # None /\ inHand[c].at = <<p, position[p] + 1>>

\* Outages, crashes and evictions may recur for ever, but each step is taken in
\* the end if it can be again and again: some consumer gets a partition that has
\* none, a message is delivered, the database answers, the dead-letter topic
\* does, an offset is committed.  A wait stays well under max.poll.interval.ms,
\* so that consumers are not always evicted.
Fairness ==
  \A p \in Partitions :
    /\ WF_vars(owner[p] = None /\ \E c \in Consumers : Assign(p, c))
    /\ SF_vars(\E c \in Consumers : Deliver(p, c))
    /\ SF_vars(\E c \in Consumers : HoldsNext(p, c) /\ Handle(c))
    /\ SF_vars(\E c \in Consumers : HoldsNext(p, c) /\ Park(c))
    /\ SF_vars(AutoCommit(p))

FairSpec == Spec /\ Fairness

-----------------------------------------------------------------------------
(* Properties. *)

Recorded(message) == Readable(message) /\ Service!EventRecorded(message.event)

\* A message is settled when the service has recorded it or dead-lettered it.
Settled(place) == place \in parked \/ Recorded(At(place))

\* No message is lost: the group's offset passes a message only after the
\* message was recorded or dead-lettered, whoever crashed or was evicted
\* meanwhile (process returns only then, and rethrows otherwise).
NothingLost ==
  \A p \in Partitions : \A o \in 1..committed[p] : Settled(<<p, o>>)

SentOnce(message) ==
  Cardinality({place \in Sent : Readable(At(place)) /\ At(place).event = message.event}) = 1

\* Nothing behind a message is processed before it is settled, "which
\* per-program order requires" (treasury-message-processor.ts:34-35).  A message
\* sent twice may be known from its other copy.
NothingOvertakes ==
  \A behind \in Sent :
    /\ Settled(behind)
    /\ behind \in parked \/ SentOnce(At(behind))
    => \A o \in 1..behind[2] : Settled(<<behind[1], o>>)

Of(q) == {place \in Sent : Readable(At(place)) /\ At(place).program = q}

\* Treasury's messages for program q are in one partition, in the order of
\* their sequences, and no event id is used for two of them.
InOrder(q) ==
  \A a, b \in Of(q) :
    /\ a[1] = b[1]
    /\ a[2] < b[2] => At(a).sequence < At(b).sequence /\ At(a).event # At(b).event

\* A message that was sent in order is ignored as out of date only if it had
\* been dead-lettered: redelivery and consumers that lost their partition make
\* no message look older than it is.
InOrderNothingIgnored ==
  \A q \in ProgramIds : InOrder(q) =>
    \A i \in DOMAIN treasuryEvents[q] : \A place \in Of(q) :
      At(place) = treasuryEvents[q][i].message /\ ~treasuryEvents[q][i].applied
        => place \in parked

\* A message that was sent in order and dead-lettered takes no effect later:
\* when it is delivered once more, after the program was opened by a message
\* behind it, its sequence is too old.
ParkedNeverApplied ==
  \A q \in ProgramIds : InOrder(q) =>
    \A i \in DOMAIN treasuryEvents[q] : \A place \in Of(q) \intersect parked :
      At(place) = treasuryEvents[q][i].message => ~treasuryEvents[q][i].applied

\* Of a program's messages, those that change it once it is open.
LimitsFor(q, currency) ==
  {place \in Of(q) : At(place).limit # None /\ At(place).limit.currency = currency
                       /\ At(place).limit.minor > 0}

Latest(places) == CHOOSE a \in places : \A b \in places : b[2] <= a[2]

\* When treasury's messages for a program are in order, and no other message has
\* the event id of one of them, the program has, once the offset has passed them
\* all, the last limit that treasury sent and it can have, whatever happened to
\* the messages on the way.
FollowsTreasury ==
  \A q \in ProgramIds :
    /\ InOrder(q)
    /\ \A place \in Of(q) : SentOnce(At(place)) /\ place[2] <= committed[place[1]]
    /\ programs[q] # None
    => programs[q].creditLimit =
         At(Latest(LimitsFor(q, programs[q].currency))).limit.minor

\* Every message that treasury sends is recorded or dead-lettered in the end;
\* none blocks its partition for ever as long as failures pass.
EveryMessageSettled ==
  \A p \in Partitions : \A o \in 1..MaxSent :
    <<p, o>> \in Sent ~> (<<p, o>> \in Sent /\ Settled(<<p, o>>))

\* treasury-message-processor.ts:30-31 says of the messages that go to the
\* dead-letter topic: "the same bytes will always fail".  A status change for a
\* program that is not open is one of them, and once the program is open the
\* same bytes are accepted.
ParkedAlwaysFails ==
  \A place \in parked :
    ~Readable(At(place)) \/ IsPermanent(Outcome(At(place)))
=============================================================================
