------------------------- MODULE TreasuryFeedProofs -------------------------
(***************************************************************************)
(* Theorems about TreasuryFeed, for every set of partitions, consumers,    *)
(* programs and messages: no message of treasury is lost, none overtakes   *)
(* another, and a program follows the last limit that treasury sent it.    *)
(*                                                                         *)
(* The group's offset follows the owner's position, so the first invariant *)
(* is about that: the owner's position passes a message only once the      *)
(* message is settled.  It needs that a consumer which still owns its      *)
(* partition has the very next message in hand; one that has lost it may   *)
(* have any.                                                               *)
(*                                                                         *)
(* The others rest on a second one: whatever is in hand, dead-lettered or  *)
(* recorded had nothing unsettled before it.  A message in order can then  *)
(* neither be recorded after a newer one nor be dead-lettered and applied. *)
(***************************************************************************)
EXTENDS TreasuryFeed, FiniteSetTheorems, TLAPS

\* The theorems about the commands, one at a time, over the same tables.
C == INSTANCE CapacityHistoryProofs

Offsets ==
  /\ committed \in [Partitions -> Nat] /\ position \in [Partitions -> Nat]
  /\ \A p \in Partitions : committed[p] <= position[p] /\ position[p] <= Len(topic[p])

FeedTypes ==
  /\ treasuryEvents \in [ProgramIds -> Seq(TreasuryRow)]
  /\ topic \in [Partitions -> Seq(Messages \union {Malformed})]
  /\ owner \in [Partitions -> Consumers \union {None}]
  /\ inHand \in
       [Consumers -> [at : Partitions \X Nat, step : {"applying", "parking"}] \union {None}]

\* What a consumer has in hand was sent; if it owns the partition, it is next.
InHandNext ==
  \A c \in Consumers : inHand[c] # None =>
    LET p == inHand[c].at[1]
        o == inHand[c].at[2]
    IN  o \in 1..Len(topic[p]) /\ (owner[p] = c => o = position[p] + 1)

PositionSettled ==
  \A p \in Partitions : \A o \in 1..position[p] : Settled(<<p, o>>)

FeedInv == FeedTypes /\ Offsets /\ InHandNext /\ PositionSettled

-----------------------------------------------------------------------------
(* What was settled stays so. *)

\* A step that takes nothing back: neither messages, nor dead letters, nor
\* recorded event ids.
Keeps ==
  /\ \A p \in Partitions : /\ Len(topic[p]) <= Len(topic'[p])
                           /\ \A o \in 1..Len(topic[p]) : topic'[p][o] = topic[p][o]
  /\ parked \subseteq parked'
  /\ \A event : Service!EventRecorded(event) => Service!EventRecorded(event)'

\* Such a step leaves a settled message settled.
LEMMA SettledStays ==
  ASSUME Keeps, NEW p \in Partitions, NEW o \in 1..Len(topic[p]), Settled(<<p, o>>)
  PROVE  Settled(<<p, o>>)'
<1>1. At(<<p, o>>)' = At(<<p, o>>)
  BY DEF Keeps, At
<1>2. Recorded(At(<<p, o>>)) => Recorded(At(<<p, o>>))'
  BY <1>1 DEF Keeps, Recorded, Readable
<1>3. QED
  BY <1>2 DEF Settled, Keeps

\* A message that is in hand is one that treasury sent.
LEMMA InHandIsMessage ==
  ASSUME FeedTypes, InHandNext, NEW c \in Consumers, inHand[c] # None
  PROVE  /\ inHand[c].at[1] \in Partitions /\ inHand[c].at[2] \in Nat
         /\ inHand[c].at = <<inHand[c].at[1], inHand[c].at[2]>>
         /\ At(inHand[c].at) \in Messages \union {Malformed}
         /\ Readable(At(inHand[c].at)) => At(inHand[c].at) \in TreasuryMessage
<1>1. inHand[c].at \in Partitions \X Nat
  BY DEF FeedTypes
<1>2. /\ inHand[c].at[1] \in Partitions /\ inHand[c].at[2] \in Nat
      /\ inHand[c].at = <<inHand[c].at[1], inHand[c].at[2]>>
  BY <1>1
<1>3. topic[inHand[c].at[1]] \in Seq(Messages \union {Malformed})
  BY <1>2 DEF FeedTypes
<1>4. inHand[c].at[2] \in 1..Len(topic[inHand[c].at[1]])
  BY DEF InHandNext
<1>5. At(inHand[c].at) \in Messages \union {Malformed}
  BY <1>3, <1>4 DEF At
<1>6. QED
  BY <1>2, <1>5, FeedAssumption DEF Readable

\* Recording a message keeps what is recorded, and adds its event id.
LEMMA RecordingKeeps ==
  ASSUME FeedTypes, NEW message \in TreasuryMessage, NEW applied \in BOOLEAN,
         Service!RecordTreasuryEvent(message, applied)
  PROVE  /\ treasuryEvents' \in [ProgramIds -> Seq(TreasuryRow)]
         /\ \A event : Service!EventRecorded(event) => Service!EventRecorded(event)'
         /\ Service!EventRecorded(message.event)'
<1> DEFINE q   == message.program
           row == [message |-> message, applied |-> applied]
           old == treasuryEvents[q]
<1>1. q \in ProgramIds
  BY DEF TreasuryMessage
<1>2. row \in TreasuryRow
  BY DEF TreasuryRow
<1>3. old \in Seq(TreasuryRow)
  BY <1>1 DEF FeedTypes
<1>4. treasuryEvents' = [treasuryEvents EXCEPT ![q] = Append(old, row)]
  BY DEF Service!RecordTreasuryEvent
<1>5. /\ Append(old, row) \in Seq(TreasuryRow)
      /\ DOMAIN Append(old, row) = 1..(Len(old) + 1) /\ DOMAIN old = 1..Len(old)
      /\ Append(old, row)[Len(old) + 1] = row
      /\ \A i \in 1..Len(old) : Append(old, row)[i] = old[i]
      /\ Len(old) \in Nat
  BY <1>2, <1>3
<1>6. /\ treasuryEvents' \in [ProgramIds -> Seq(TreasuryRow)]
      /\ treasuryEvents'[q] = Append(old, row)
      /\ \A p \in ProgramIds : p # q => treasuryEvents'[p] = treasuryEvents[p]
  BY <1>1, <1>4, <1>5 DEF FeedTypes
<1>7. \A p \in ProgramIds : \A i \in DOMAIN treasuryEvents[p] :
        i \in DOMAIN treasuryEvents'[p] /\ treasuryEvents'[p][i] = treasuryEvents[p][i]
  <2> SUFFICES ASSUME NEW p \in ProgramIds, NEW i \in DOMAIN treasuryEvents[p]
               PROVE  /\ i \in DOMAIN treasuryEvents'[p]
                      /\ treasuryEvents'[p][i] = treasuryEvents[p][i]
    OBVIOUS
  <2>1. CASE p = q
    <3>1. i \in 1..Len(old) /\ i \in 1..(Len(old) + 1)
      BY <2>1, <1>5
    <3>2. QED
      BY <2>1, <3>1, <1>5, <1>6
  <2>2. CASE p # q
    BY <2>2, <1>6
  <2>3. QED
    BY <2>1, <2>2
<1>8. \A event : Service!EventRecorded(event) => Service!EventRecorded(event)'
  BY <1>7 DEF Service!EventRecorded
<1>9. Len(old) + 1 \in DOMAIN treasuryEvents'[q]
      /\ treasuryEvents'[q][Len(old) + 1].message.event = message.event
  BY <1>5, <1>6
<1>10. Service!EventRecorded(message.event)'
  BY <1>1, <1>9 DEF Service!EventRecorded
<1>11. QED
  BY <1>6, <1>8, <1>10

\* A command that changes the tables records its message.
LEMMA ChangesRecord ==
  ASSUME FeedTypes, NEW message \in TreasuryMessage, Changes(message)
  PROVE  /\ treasuryEvents' \in [ProgramIds -> Seq(TreasuryRow)]
         /\ \A event : Service!EventRecorded(event) => Service!EventRecorded(event)'
         /\ Service!EventRecorded(message.event)'
<1>1. Service!RecordTreasuryEvent(message, TRUE) \/ Service!RecordTreasuryEvent(message, FALSE)
  BY DEF Changes, Service!OpenFromTreasury, Service!UpdateFromTreasury, Service!RecordStale
<1>2. QED
  BY <1>1, RecordingKeeps

\* Tables that do not change record what they did.
LEMMA SameRecords ==
  ASSUME UNCHANGED treasuryEvents
  PROVE  \A event : Service!EventRecorded(event) => Service!EventRecorded(event)'
BY DEF Service!EventRecorded

-----------------------------------------------------------------------------
(* The steps of a consumer that end its work on a message. *)

\* As long as no position goes up, what is before it stays settled.
LEMMA PositionsBack ==
  ASSUME FeedTypes, Offsets, PositionSettled, Keeps, position' \in [Partitions -> Nat],
         \A p \in Partitions : position'[p] <= position[p]
  PROVE  PositionSettled'
<1> SUFFICES ASSUME NEW p \in Partitions, NEW o \in 1..position'[p]
             PROVE  Settled(<<p, o>>)'
  BY DEF PositionSettled
<1>1. /\ position[p] \in Nat /\ position'[p] \in Nat /\ position'[p] <= position[p]
      /\ position[p] <= Len(topic[p])
  BY DEF Offsets
<1>2. Len(topic[p]) \in Nat
  BY DEF FeedTypes
<1>3. o \in 1..position[p] /\ o \in 1..Len(topic[p])
  BY <1>1, <1>2
<1>4. QED
  BY <1>3, SettledStays DEF PositionSettled

\* A consumer that finishes a message which is settled moves on past it, and only
\* if the partition is still its own.
LEMMA FinishSettles ==
  ASSUME FeedInv, Keeps, UNCHANGED <<topic, owner, committed>>, NEW c \in Consumers,
         inHand[c] # None, NEW p0 \in Partitions, NEW o0 \in Nat, inHand[c].at = <<p0, o0>>,
         Settled(<<p0, o0>>)', Finish(c)
  PROVE  Offsets' /\ InHandNext' /\ PositionSettled'
<1> USE DEF FeedInv
<1>1. o0 \in 1..Len(topic[p0]) /\ (owner[p0] = c => o0 = position[p0] + 1)
  BY DEF InHandNext
<1>2. /\ inHand'[c] = None
      /\ \A d \in Consumers : d # c => inHand'[d] = inHand[d]
  BY DEF Finish, FeedTypes
<1>3. position' = IF owner[p0] = c THEN [position EXCEPT ![p0] = o0] ELSE position
  BY DEF Finish
<1>4. /\ position \in [Partitions -> Nat] /\ position' \in [Partitions -> Nat]
      /\ committed \in [Partitions -> Nat]
      /\ \A p \in Partitions : p # p0 => position'[p] = position[p]
      /\ position'[p0] = IF owner[p0] = c THEN position[p0] + 1 ELSE position[p0]
  BY <1>1, <1>3 DEF Offsets
<1>5. \A p \in Partitions : Len(topic[p]) \in Nat
  BY DEF FeedTypes
<1>6. Offsets'
  <2> SUFFICES ASSUME NEW p \in Partitions
               PROVE  committed[p] <= position'[p] /\ position'[p] <= Len(topic[p])
    BY <1>4 DEF Offsets
  <2>1. committed[p] <= position[p] /\ position[p] <= Len(topic[p]) /\ committed[p] \in Nat
        /\ position[p] \in Nat /\ Len(topic[p]) \in Nat
    BY <1>4, <1>5 DEF Offsets
  <2>2. CASE p = p0 /\ owner[p0] = c
    BY <2>1, <2>2, <1>1, <1>4
  <2>3. CASE ~(p = p0 /\ owner[p0] = c)
    BY <2>1, <2>3, <1>4
  <2>4. QED
    BY <2>2, <2>3
<1>7. InHandNext'
  <2> SUFFICES ASSUME NEW d \in Consumers, inHand'[d] # None
               PROVE  LET p == inHand'[d].at[1]
                          o == inHand'[d].at[2]
                      IN  o \in 1..Len(topic[p]) /\ (owner[p] = d => o = position'[p] + 1)
    BY DEF InHandNext
  <2>1. d # c /\ inHand'[d] = inHand[d] /\ inHand[d] # None
    BY <1>2
  <2>2. inHand[d].at[1] \in Partitions
    BY <2>1, InHandIsMessage
  <2>3. owner[inHand[d].at[1]] = d => position'[inHand[d].at[1]] = position[inHand[d].at[1]]
    BY <2>1, <2>2, <1>4
  <2>4. QED
    BY <2>1, <2>3 DEF InHandNext
<1>8. PositionSettled'
  <2> SUFFICES ASSUME NEW p \in Partitions, NEW o \in 1..position'[p]
               PROVE  Settled(<<p, o>>)'
    BY DEF PositionSettled
  <2>1. position[p] \in Nat /\ position[p] <= Len(topic[p]) /\ Len(topic[p]) \in Nat
    BY <1>4, <1>5 DEF Offsets
  <2>2. CASE o \in 1..position[p]
    <3>1. o \in 1..Len(topic[p]) /\ Settled(<<p, o>>)
      BY <2>1, <2>2 DEF PositionSettled
    <3>2. QED
      BY <3>1, SettledStays
  <2>3. CASE o \notin 1..position[p]
    <3>1. p = p0 /\ owner[p0] = c
      BY <2>3, <1>4
    <3>2. o = o0
      BY <3>1, <2>1, <2>3, <1>1, <1>4
    <3>3. QED
      BY <3>1, <3>2
  <2>4. QED
    BY <2>2, <2>3
<1>9. QED
  BY <1>6, <1>7, <1>8

\* A consumer that gives a message up leaves its position where it was.
LEMMA RetryMovesNothing ==
  ASSUME FeedInv, Keeps, UNCHANGED <<topic, owner, committed>>, NEW c \in Consumers, RetryLater(c)
  PROVE  Offsets' /\ InHandNext' /\ PositionSettled'
<1> USE DEF FeedInv
<1>1. /\ inHand'[c] = None
      /\ \A d \in Consumers : d # c => inHand'[d] = inHand[d]
  BY DEF RetryLater, FeedTypes
<1>2. position' = position
  BY DEF RetryLater
<1>3. Offsets'
  BY <1>2 DEF Offsets
<1>4. InHandNext'
  BY <1>1, <1>2 DEF InHandNext
<1>5. PositionSettled'
  BY <1>2, PositionsBack DEF Offsets
<1>6. QED
  BY <1>3, <1>4, <1>5

-----------------------------------------------------------------------------
(* The steps of a consumer. *)

\* A message is settled by the command that records it.
LEMMA ApplySettles ==
  ASSUME FeedInv, NEW c \in Consumers, Apply(c) \/ ApplyUnacknowledged(c)
  PROVE  FeedInv'
<1> USE DEF FeedInv
<1>1. /\ inHand[c] # None /\ Readable(At(inHand[c].at)) /\ Changes(At(inHand[c].at))
      /\ UNCHANGED <<topic, owner, committed, parked>>
      /\ Finish(c) \/ RetryLater(c)
  BY DEF Apply, ApplyUnacknowledged, Working
<1>2. PICK p0 \in Partitions, o0 \in Nat : inHand[c].at = <<p0, o0>>
  BY <1>1, InHandIsMessage
<1>3. PICK message \in TreasuryMessage : message = At(<<p0, o0>>)
  BY <1>1, <1>2, InHandIsMessage
<1>4. /\ treasuryEvents' \in [ProgramIds -> Seq(TreasuryRow)]
      /\ \A event : Service!EventRecorded(event) => Service!EventRecorded(event)'
      /\ Service!EventRecorded(message.event)'
  BY <1>1, <1>2, <1>3, ChangesRecord
<1>5. Keeps
  BY <1>1, <1>4 DEF Keeps, FeedTypes
<1>6. Settled(<<p0, o0>>)'
  <2>1. At(<<p0, o0>>)' = message /\ Readable(message)
    BY <1>1, <1>2, <1>3 DEF At
  <2>2. Recorded(message)'
    BY <2>1, <1>4 DEF Recorded, Readable
  <2>3. Recorded(At(<<p0, o0>>))'
    BY <2>1, <2>2
  <2>4. QED
    BY <2>3 DEF Settled
<1>7. FeedTypes'
  BY <1>1, <1>4 DEF FeedTypes, Finish, RetryLater
<1>8. Offsets' /\ InHandNext' /\ PositionSettled'
  BY <1>1, <1>2, <1>5, <1>6, FinishSettles, RetryMovesNothing
<1>9. QED
  BY <1>7, <1>8

\* Steps that leave the messages and what is recorded alone keep what is settled.
LEMMA QuietKeeps ==
  ASSUME UNCHANGED <<treasuryEvents, topic>>, parked \subseteq parked', FeedTypes
  PROVE  Keeps
BY SameRecords DEF Keeps, FeedTypes

\* A duplicate is a message whose event id is recorded: it is settled.
LEMMA DuplicateSettles ==
  ASSUME FeedInv, NEW c \in Consumers, IgnoreDuplicate(c)
  PROVE  FeedInv'
<1> USE DEF FeedInv
<1>1. /\ inHand[c] # None /\ Readable(At(inHand[c].at))
      /\ Outcome(At(inHand[c].at)) = "DUPLICATE"
      /\ UNCHANGED <<treasuryEvents, topic, owner, committed, parked>>
      /\ Finish(c)
  BY DEF IgnoreDuplicate, Working, tables
<1>2. PICK p0 \in Partitions, o0 \in Nat : inHand[c].at = <<p0, o0>>
  BY <1>1, InHandIsMessage
<1>3. PICK message \in TreasuryMessage : message = At(<<p0, o0>>)
  BY <1>1, <1>2, InHandIsMessage
<1>4. TreasuryAnswer(programs[message.program], message) # "DUPLICATE"
  BY DEF TreasuryAnswer, TreasuryRefusal
<1>5. Service!EventRecorded(message.event)
  BY <1>1, <1>2, <1>3, <1>4 DEF Outcome
<1>6. Keeps
  BY <1>1, QuietKeeps
<1>7. Settled(<<p0, o0>>)'
  <2>1. At(<<p0, o0>>)' = message /\ Readable(message)
    BY <1>1, <1>2, <1>3 DEF At
  <2>2. Recorded(message)'
    BY <2>1, <1>5, <1>6 DEF Recorded, Readable, Keeps
  <2>3. Recorded(At(<<p0, o0>>))'
    BY <2>1, <2>2
  <2>4. QED
    BY <2>3 DEF Settled
<1>8. FeedTypes'
  BY <1>1 DEF FeedTypes, Finish
<1>9. Offsets' /\ InHandNext' /\ PositionSettled'
  BY <1>1, <1>2, <1>6, <1>7, FinishSettles
<1>10. QED
  BY <1>8, <1>9

\* A dead-lettered message is settled; one that may not have been is tried again.
LEMMA ParkSettles ==
  ASSUME FeedInv, NEW c \in Consumers, Park(c) \/ ParkFails(c)
  PROVE  FeedInv'
<1> USE DEF FeedInv
<1>1. /\ inHand[c] # None /\ parked \subseteq parked'
      /\ UNCHANGED <<treasuryEvents, topic, owner, committed>>
      /\ \/ Finish(c) /\ inHand[c].at \in parked'
         \/ RetryLater(c)
  BY DEF Park, ParkFails, Working, tables
<1>2. PICK p0 \in Partitions, o0 \in Nat : inHand[c].at = <<p0, o0>>
  BY <1>1, InHandIsMessage
<1>3. Keeps
  BY <1>1, QuietKeeps
<1>4. FeedTypes'
  BY <1>1 DEF FeedTypes, Finish, RetryLater
<1>5. CASE Finish(c) /\ inHand[c].at \in parked'
  <2>1. Settled(<<p0, o0>>)'
    BY <1>2, <1>5 DEF Settled
  <2>2. QED
    BY <1>1, <1>2, <1>3, <1>4, <1>5, <2>1, FinishSettles
<1>6. CASE RetryLater(c)
  BY <1>1, <1>3, <1>4, <1>6, RetryMovesNothing
<1>7. QED
  BY <1>1, <1>5, <1>6

\* A temporary failure, and a refusal, settle nothing and move nothing.
LEMMA FailuresMoveNothing ==
  ASSUME FeedInv, NEW c \in Consumers, FailTemporarily(c) \/ Refuse(c)
  PROVE  FeedInv'
<1> USE DEF FeedInv
<1>1. /\ inHand[c] # None /\ UNCHANGED <<treasuryEvents, topic, owner, committed, parked, position>>
      /\ \/ RetryLater(c)
         \/ inHand' = [inHand EXCEPT ![c].step = "parking"]
  BY DEF FailTemporarily, Refuse, Working, tables, RetryLater
<1>2. Keeps
  BY <1>1, QuietKeeps
<1>3. CASE RetryLater(c)
  <2>1. FeedTypes'
    BY <1>1, <1>3 DEF FeedTypes, RetryLater
  <2>2. QED
    BY <1>1, <1>2, <1>3, <2>1, RetryMovesNothing
<1>4. CASE inHand' = [inHand EXCEPT ![c].step = "parking"]
  <2> DEFINE InHand == [at : Partitions \X Nat, step : {"applying", "parking"}]
  <2>1. inHand[c] \in InHand
    BY <1>1 DEF FeedTypes
  <2>2. /\ [inHand[c] EXCEPT !.step = "parking"] \in InHand
        /\ [inHand[c] EXCEPT !.step = "parking"].at = inHand[c].at
    BY <2>1
  <2> HIDE DEF InHand
  <2>3. inHand \in [Consumers -> InHand \union {None}]
    BY DEF FeedTypes, InHand
  <2>4. inHand' = [inHand EXCEPT ![c] = [inHand[c] EXCEPT !.step = "parking"]]
    BY <1>4
  <2>5. /\ inHand' \in [Consumers -> InHand \union {None}]
        /\ inHand'[c].at = inHand[c].at
        /\ \A d \in Consumers : d # c => inHand'[d] = inHand[d]
    BY <2>2, <2>3, <2>4
  <2>6. FeedTypes'
    BY <1>1, <2>5 DEF FeedTypes, InHand
  <2>7. InHandNext'
    <3> SUFFICES ASSUME NEW d \in Consumers, inHand'[d] # None
                 PROVE  LET p == inHand'[d].at[1]
                            o == inHand'[d].at[2]
                        IN  o \in 1..Len(topic[p]) /\ (owner[p] = d => o = position[p] + 1)
      BY <1>1 DEF InHandNext
    <3>1. inHand[d] # None /\ inHand'[d].at = inHand[d].at
      BY <1>1, <2>5
    <3>2. QED
      BY <3>1 DEF InHandNext
  <2>8. Offsets'
    BY <1>1 DEF Offsets
  <2>9. PositionSettled'
    BY <1>1, <1>2, PositionsBack DEF Offsets
  <2>10. QED
    BY <2>6, <2>7, <2>8, <2>9
<1>5. QED
  BY <1>1, <1>3, <1>4

-----------------------------------------------------------------------------
(* Treasury and the consumer group. *)

\* At the start nothing is sent, committed or in hand.
LEMMA InitFeed == Init => FeedInv
<1> SUFFICES ASSUME Init PROVE FeedInv
  OBVIOUS
<1>1. FeedTypes
  BY DEF Init, Service!Init, FeedTypes
<1>2. \A p \in Partitions : committed[p] = 0 /\ position[p] = 0 /\ Len(topic[p]) = 0
  BY DEF Init
<1>3. Offsets
  BY <1>2 DEF Init, Offsets
<1>4. InHandNext
  BY DEF Init, InHandNext
<1>5. PositionSettled
  BY <1>2 DEF PositionSettled
<1>6. QED
  BY <1>1, <1>3, <1>4, <1>5 DEF FeedInv

\* A message is added behind those that are there.
LEMMA SendKeepsInv ==
  ASSUME FeedInv, NEW p \in Partitions, NEW message \in Messages \union {Malformed},
         Send(p, message)
  PROVE  FeedInv'
<1> USE DEF FeedInv
<1>1. UNCHANGED <<treasuryEvents, owner, committed, position, inHand, parked>>
  BY DEF Send, tables
<1> DEFINE Topic == Seq(Messages \union {Malformed})
<1>2. topic[p] \in Topic /\ topic \in [Partitions -> Topic]
  BY DEF FeedTypes
<1>3. topic' = [topic EXCEPT ![p] = Append(topic[p], message)]
  BY DEF Send
<1>4. /\ Append(topic[p], message) \in Topic
      /\ Len(Append(topic[p], message)) = Len(topic[p]) + 1 /\ Len(topic[p]) \in Nat
      /\ \A o \in 1..Len(topic[p]) : Append(topic[p], message)[o] = topic[p][o]
  BY <1>2
<1> HIDE DEF Topic
<1>5. topic' \in [Partitions -> Topic]
  BY <1>2, <1>3, <1>4
<1>6. FeedTypes'
  BY <1>1, <1>5 DEF FeedTypes, Topic
<1>7. \A r \in Partitions : /\ Len(topic[r]) \in Nat /\ Len(topic'[r]) \in Nat
                            /\ Len(topic[r]) <= Len(topic'[r])
                            /\ \A o \in 1..Len(topic[r]) : topic'[r][o] = topic[r][o]
  <2> SUFFICES ASSUME NEW r \in Partitions
               PROVE  /\ Len(topic[r]) \in Nat /\ Len(topic'[r]) \in Nat
                      /\ Len(topic[r]) <= Len(topic'[r])
                      /\ \A o \in 1..Len(topic[r]) : topic'[r][o] = topic[r][o]
    OBVIOUS
  <2>1. CASE r = p
    BY <2>1, <1>2, <1>3, <1>4
  <2>2. CASE r # p
    <3>1. topic'[r] = topic[r] /\ Len(topic[r]) \in Nat
      BY <2>2, <1>2, <1>3 DEF Topic
    <3>2. QED
      BY <3>1
  <2>3. QED
    BY <2>1, <2>2
<1>8. Keeps
  BY <1>1, <1>7, SameRecords DEF Keeps
<1>9. Offsets'
  BY <1>1, <1>7 DEF Offsets
<1>10. InHandNext'
  <2> SUFFICES ASSUME NEW d \in Consumers, inHand[d] # None
               PROVE  LET r == inHand[d].at[1]
                          o == inHand[d].at[2]
                      IN  o \in 1..Len(topic'[r]) /\ (owner[r] = d => o = position[r] + 1)
    BY <1>1 DEF InHandNext
  <2>1. inHand[d].at[1] \in Partitions
    BY InHandIsMessage
  <2>2. QED
    BY <2>1, <1>7 DEF InHandNext
<1>11. PositionSettled'
  BY <1>1, <1>8, PositionsBack DEF Offsets
<1>12. QED
  BY <1>6, <1>9, <1>10, <1>11

\* Who gets a partition starts from the committed offset, with nothing in hand.
LEMMA AssignKeepsInv ==
  ASSUME FeedInv, NEW p \in Partitions, NEW c \in Consumers, Assign(p, c)
  PROVE  FeedInv'
<1> USE DEF FeedInv
<1>1. UNCHANGED <<treasuryEvents, topic, committed, inHand, parked>> /\ inHand[c] = None
  BY DEF Assign, tables
<1>2. /\ owner' \in [Partitions -> Consumers \union {None}]
      /\ owner'[p] = c /\ \A r \in Partitions : r # p => owner'[r] = owner[r]
  BY DEF Assign, FeedTypes
<1>3. /\ position' \in [Partitions -> Nat]
      /\ position'[p] = committed[p] /\ \A r \in Partitions : r # p => position'[r] = position[r]
  BY DEF Assign, Offsets
<1>4. FeedTypes'
  BY <1>1, <1>2 DEF FeedTypes
<1>5. \A r \in Partitions : /\ position'[r] <= position[r] /\ committed[r] <= position'[r]
                            /\ position'[r] <= Len(topic[r])
  <2> SUFFICES ASSUME NEW r \in Partitions
               PROVE  /\ position'[r] <= position[r] /\ committed[r] <= position'[r]
                      /\ position'[r] <= Len(topic[r])
    OBVIOUS
  <2>1. /\ committed[r] \in Nat /\ position[r] \in Nat /\ Len(topic[r]) \in Nat
        /\ committed[r] <= position[r] /\ position[r] <= Len(topic[r])
        /\ position'[r] = committed[r] \/ position'[r] = position[r]
    BY <1>3 DEF Offsets, FeedTypes
  <2>2. QED
    BY <2>1
<1>6. Offsets'
  BY <1>1, <1>3, <1>5 DEF Offsets
<1>7. InHandNext'
  <2> SUFFICES ASSUME NEW d \in Consumers, inHand[d] # None
               PROVE  LET r == inHand[d].at[1]
                          o == inHand[d].at[2]
                      IN  o \in 1..Len(topic[r]) /\ (owner'[r] = d => o = position'[r] + 1)
    BY <1>1 DEF InHandNext
  <2>1. inHand[d].at[1] \in Partitions /\ d # c
    BY <1>1, InHandIsMessage
  <2>2. owner'[inHand[d].at[1]] = d => inHand[d].at[1] # p
    BY <2>1, <1>2
  <2>3. QED
    BY <2>1, <2>2, <1>2, <1>3 DEF InHandNext
<1>8. PositionSettled'
  BY <1>1, <1>3, <1>5, QuietKeeps, PositionsBack
<1>9. QED
  BY <1>4, <1>6, <1>7, <1>8

\* What is committed is what the owner has processed.
LEMMA AutoCommitKeepsInv ==
  ASSUME FeedInv, NEW p \in Partitions, AutoCommit(p)
  PROVE  FeedInv'
<1> USE DEF FeedInv
<1>1. UNCHANGED <<treasuryEvents, topic, owner, position, inHand, parked>>
  BY DEF AutoCommit, tables
<1>2. /\ committed' \in [Partitions -> Nat]
      /\ \A r \in Partitions : committed'[r] = committed[r] \/ committed'[r] = position[r]
  BY DEF AutoCommit, Offsets
<1>3. FeedTypes' /\ InHandNext'
  BY <1>1 DEF FeedTypes, InHandNext
<1>4. \A r \in Partitions : committed'[r] <= position[r] /\ position[r] <= Len(topic[r])
  <2> SUFFICES ASSUME NEW r \in Partitions
               PROVE  committed'[r] <= position[r] /\ position[r] <= Len(topic[r])
    OBVIOUS
  <2>1. /\ position[r] \in Nat /\ committed[r] <= position[r] /\ position[r] <= Len(topic[r])
        /\ committed'[r] = committed[r] \/ committed'[r] = position[r]
    BY <1>2 DEF Offsets
  <2>2. QED
    BY <2>1
<1>5. Offsets'
  BY <1>1, <1>2, <1>4 DEF Offsets
<1>6. PositionSettled'
  BY <1>1, QuietKeeps, PositionsBack DEF Offsets
<1>7. QED
  BY <1>3, <1>5, <1>6

\* The owner is handed the message after its position.
LEMMA DeliverKeepsInv ==
  ASSUME FeedInv, NEW p \in Partitions, NEW c \in Consumers, Deliver(p, c)
  PROVE  FeedInv'
<1> USE DEF FeedInv
<1>1. UNCHANGED <<treasuryEvents, topic, owner, committed, position, parked>>
      /\ owner[p] = c /\ position[p] < Len(topic[p])
  BY DEF Deliver, tables
<1>2. position[p] \in Nat /\ Len(topic[p]) \in Nat
  BY DEF Offsets, FeedTypes
<1> DEFINE InHand == [at : Partitions \X Nat, step : {"applying", "parking"}]
           next   == [at |-> <<p, position[p] + 1>>, step |-> "applying"]
<1>3. next \in InHand /\ next.at[1] = p /\ next.at[2] = position[p] + 1
  BY <1>2
<1>4. inHand' = [inHand EXCEPT ![c] = next]
  BY DEF Deliver
<1>5. inHand \in [Consumers -> InHand \union {None}]
  BY DEF FeedTypes
<1> HIDE DEF InHand, next
<1>6. /\ inHand' \in [Consumers -> InHand \union {None}] /\ inHand'[c] = next
      /\ \A d \in Consumers : d # c => inHand'[d] = inHand[d]
  BY <1>3, <1>4, <1>5
<1>7. FeedTypes'
  BY <1>1, <1>6 DEF FeedTypes, InHand
<1>8. InHandNext'
  <2> SUFFICES ASSUME NEW d \in Consumers, inHand'[d] # None
               PROVE  LET r == inHand'[d].at[1]
                          o == inHand'[d].at[2]
                      IN  o \in 1..Len(topic[r]) /\ (owner[r] = d => o = position[r] + 1)
    BY <1>1 DEF InHandNext
  <2>1. CASE d = c
    BY <2>1, <1>1, <1>2, <1>3, <1>6
  <2>2. CASE d # c
    BY <2>2, <1>6 DEF InHandNext
  <2>3. QED
    BY <2>1, <2>2
<1>9. Offsets'
  BY <1>1 DEF Offsets
<1>10. PositionSettled'
  BY <1>1, QuietKeeps, PositionsBack DEF Offsets
<1>11. QED
  BY <1>7, <1>8, <1>9, <1>10

\* Who stops or dies owns nothing afterwards; a position may fall back.
LEMMA LeavingKeepsInv ==
  ASSUME FeedInv, NEW c \in Consumers, Stop(c) \/ Crash(c)
  PROVE  FeedInv'
<1> USE DEF FeedInv
<1> DEFINE InHand == [at : Partitions \X Nat, step : {"applying", "parking"}]
<1>1. UNCHANGED <<treasuryEvents, topic, parked>>
  BY DEF Stop, Crash, tables
<1>2. owner' = [p \in Partitions |-> IF owner[p] = c THEN None ELSE owner[p]]
  BY DEF Stop, Crash
<1>3. /\ owner' \in [Partitions -> Consumers \union {None}]
      /\ \A p \in Partitions : \A d \in Consumers : owner'[p] = d => owner[p] = d /\ d # c
  BY <1>2, FeedAssumption DEF FeedTypes
<1>4. inHand \in [Consumers -> InHand \union {None}]
  BY DEF FeedTypes
<1> HIDE DEF InHand
<1>5. /\ inHand' \in [Consumers -> InHand \union {None}]
      /\ \A d \in Consumers : inHand'[d] # None => inHand'[d] = inHand[d]
  BY <1>4 DEF Stop, Crash
<1>6. FeedTypes'
  BY <1>1, <1>3, <1>5 DEF FeedTypes, InHand
<1>7. /\ position' \in [Partitions -> Nat] /\ committed' \in [Partitions -> Nat]
      /\ \A p \in Partitions : owner[p] # c => position'[p] = position[p]
  BY DEF Stop, Crash, Offsets
<1>8. \A p \in Partitions : /\ position'[p] <= position[p] /\ committed'[p] <= position'[p]
                            /\ position'[p] <= Len(topic[p])
  <2> SUFFICES ASSUME NEW p \in Partitions
               PROVE  /\ position'[p] <= position[p] /\ committed'[p] <= position'[p]
                      /\ position'[p] <= Len(topic[p])
    OBVIOUS
  <2>1. /\ committed[p] \in Nat /\ position[p] \in Nat /\ Len(topic[p]) \in Nat
        /\ committed[p] <= position[p] /\ position[p] <= Len(topic[p])
    BY DEF Offsets, FeedTypes
  <2>2. \/ position'[p] = position[p] /\ committed'[p] = committed[p]
        \/ position'[p] = position[p] /\ committed'[p] = position[p]
        \/ position'[p] = committed[p] /\ committed'[p] = committed[p]
    BY DEF Stop, Crash, Offsets
  <2>3. QED
    BY <2>1, <2>2
<1>9. Offsets'
  BY <1>1, <1>7, <1>8 DEF Offsets
<1>10. InHandNext'
  <2> SUFFICES ASSUME NEW d \in Consumers, inHand'[d] # None
               PROVE  LET r == inHand'[d].at[1]
                          o == inHand'[d].at[2]
                      IN  o \in 1..Len(topic[r]) /\ (owner'[r] = d => o = position'[r] + 1)
    BY <1>1 DEF InHandNext
  <2>1. inHand'[d] = inHand[d] /\ inHand[d] # None
    BY <1>5
  <2>2. inHand[d].at[1] \in Partitions
    BY <2>1, InHandIsMessage
  <2>3. owner'[inHand[d].at[1]] = d => /\ owner[inHand[d].at[1]] = d
                                       /\ position'[inHand[d].at[1]] = position[inHand[d].at[1]]
    BY <2>2, <1>3, <1>7
  <2>4. QED
    BY <2>1, <2>3 DEF InHandNext
<1>11. PositionSettled'
  BY <1>1, <1>7, <1>8, QuietKeeps, PositionsBack
<1>12. QED
  BY <1>6, <1>9, <1>10, <1>11

-----------------------------------------------------------------------------
\* Every step of the feed keeps the invariant.
LEMMA FeedStep == FeedInv /\ [Next]_vars => FeedInv'
<1> SUFFICES ASSUME FeedInv, [Next]_vars PROVE FeedInv'
  OBVIOUS
<1>1. CASE \E p \in Partitions : \E message \in Messages \union {Malformed} : Send(p, message)
  BY <1>1, SendKeepsInv
<1>2. CASE \E p \in Partitions : \E c \in Consumers : Assign(p, c) \/ Deliver(p, c)
  BY <1>2, AssignKeepsInv, DeliverKeepsInv
<1>3. CASE \E p \in Partitions : AutoCommit(p)
  BY <1>3, AutoCommitKeepsInv
<1>4. CASE \E c \in Consumers : Process(c) \/ Stop(c) \/ Crash(c)
  BY <1>4, ApplySettles, DuplicateSettles, ParkSettles, FailuresMoveNothing, LeavingKeepsInv
     DEF Process, Handle
<1>5. CASE UNCHANGED vars
  <2>1. UNCHANGED <<treasuryEvents, topic, owner, committed, position, inHand, parked>>
    BY <1>5 DEF vars
  <2>2. FeedTypes' /\ Offsets' /\ InHandNext'
    BY <2>1 DEF FeedInv, FeedTypes, Offsets, InHandNext
  <2>3. PositionSettled'
    BY <2>1, QuietKeeps, PositionsBack DEF FeedInv, Offsets
  <2>4. QED
    BY <2>2, <2>3 DEF FeedInv
<1>6. QED
  BY <1>1, <1>2, <1>3, <1>4, <1>5 DEF Next

\* No message of treasury is lost: whoever crashed, was evicted or met a failure,
\* the group's offset passes a message only once it is recorded or dead-lettered.
THEOREM NoMessageLost == Spec => []NothingLost
<1>1. Init => FeedInv
  BY InitFeed
<1>2. FeedInv /\ [Next]_vars => FeedInv'
  BY FeedStep
<1>3. FeedInv => NothingLost
  <2> SUFFICES ASSUME FeedInv, NEW p \in Partitions, NEW o \in 1..committed[p]
               PROVE  Settled(<<p, o>>)
    BY DEF NothingLost
  <2>1. committed[p] \in Nat /\ position[p] \in Nat /\ committed[p] <= position[p]
    BY DEF FeedInv, Offsets
  <2>2. o \in 1..position[p]
    BY <2>1
  <2>3. QED
    BY <2>2 DEF FeedInv, PositionSettled
<1>4. QED
  BY <1>1, <1>2, <1>3, PTL DEF Spec


-----------------------------------------------------------------------------
(* What the commands record.                                               *)

\* The assumptions made of the constants are those of Capacity.
LEMMA Assumed == C!MaxMinorUnitsAssumption /\ C!ConstantsAssumption /\ C!NullAssumption
<1>1. C!MaxMinorUnitsAssumption
  BY MaxMinorUnitsAssumption DEF C!MaxMinorUnitsAssumption
<1>2. /\ C!Money = Money /\ C!ExchangeRate = ExchangeRate
      /\ C!ProgramRow = ProgramRow /\ C!ProgramStatuses = ProgramStatuses
  BY DEF C!Money, Money, C!ExchangeRate, ExchangeRate, C!ProgramRow, ProgramRow,
         C!ProgramStatuses, ProgramStatuses
<1>3. C!ConstantsAssumption
  BY <1>2, ConstantsAssumption DEF C!ConstantsAssumption
<1>4. C!NullAssumption
  BY <1>2, NullAssumption DEF C!NullAssumption
<1>5. QED
  BY <1>1, <1>3, <1>4

\* The operators of the commands are the ones the feed uses.
LEMMA SameOperators ==
  /\ C!TreasuryMessage = TreasuryMessage
  /\ C!ProgramRow = ProgramRow
  /\ C!TreasuryRow = TreasuryRow
  /\ \A program, message : C!TreasuryAnswer(program, message) = TreasuryAnswer(program, message)
  /\ \A event : C!EventRecorded(event) <=> Service!EventRecorded(event)
  /\ C!TypeOK <=> Service!TypeOK
BY DEF C!TreasuryMessage, TreasuryMessage, C!ProgramRow, ProgramRow,
       C!ProgramStatuses, ProgramStatuses, C!TreasuryRow, TreasuryRow,
       C!TreasuryAnswer, TreasuryAnswer, C!TreasuryRefusal, TreasuryRefusal,
       C!EventRecorded, Service!EventRecorded, C!TypeOK, Service!TypeOK,
       Service!TreasuryMessage, Service!ProgramRow, Service!ProgramStatuses,
       Service!TreasuryRow, C!ReservationRow, Service!ReservationRow,
       C!ReservationStatuses, Service!ReservationStatuses,
       C!MovementRow, Service!MovementRow, C!OutboxEvent, Service!OutboxEvent,
       C!ExchangeRate, Service!ExchangeRate

\* The commands that the feed runs are Capacity's.
LEMMA SameCommands ==
  ASSUME NEW message
  PROVE  /\ Service!OpenFromTreasury(message) => C!OpenFromTreasury(message)
         /\ Service!UpdateFromTreasury(message) => C!UpdateFromTreasury(message)
         /\ Service!RecordStale(message) => C!RecordStale(message)
BY DEF C!OpenFromTreasury, Service!OpenFromTreasury,
       C!UpdateFromTreasury, Service!UpdateFromTreasury,
       C!RecordStale, Service!RecordStale,
       C!EventRecorded, Service!EventRecorded,
       C!RecordTreasuryEvent, Service!RecordTreasuryEvent,
       C!TreasuryAnswer, Service!TreasuryAnswer, C!TreasuryRefusal, Service!TreasuryRefusal,
       C!OpenedBy, Service!OpenedBy, C!OpenProgram, Service!OpenProgram,
       C!ProgramOpened, Service!ProgramOpened,
       C!ApplyTreasuryState, Service!ApplyTreasuryState, C!Saved, Service!Saved,
       C!TreasuryUpdateEvents, Service!TreasuryUpdateEvents

\* What a step has done that recorded a message, applied or ignored.
Records(message, applied) ==
  LET q == message.program
  IN  /\ q \in ProgramIds
      /\ ~ Service!EventRecorded(message.event)
      /\ treasuryEvents'[q] =
           Append(treasuryEvents[q], [message |-> message, applied |-> applied])
      /\ \A r \in ProgramIds : r # q =>
           programs'[r] = programs[r] /\ treasuryEvents'[r] = treasuryEvents[r]
      /\ programs[q] # None =>
           programs'[q] # None /\ programs'[q].currency = programs[q].currency
      /\ applied =>
           /\ TreasuryAnswer(programs[q], message) \in {"CREATED", "APPLIED"}
           /\ programs'[q] # None /\ programs'[q].treasurySequence = message.sequence
           /\ message.limit # None => /\ programs'[q].currency = message.limit.currency
                                      /\ ~ (message.limit.minor <= 0)
      /\ ~ applied =>
           /\ TreasuryAnswer(programs[q], message) = "STALE"
           /\ programs[q] # None /\ message.sequence <= programs[q].treasurySequence
           /\ programs'[q] = programs[q]


\* A message that opened its program.
LEMMA OpenRecords ==
  ASSUME C!TypeInv, NEW message \in TreasuryMessage, Service!OpenFromTreasury(message)
  PROVE  Records(message, TRUE)
<1> DEFINE q == message.program
           after == C!OpenedBy(message)
<1>1. message \in C!TreasuryMessage /\ C!OpenFromTreasury(message)
  BY SameOperators, SameCommands
<1>2. after = C!OpenedBy(message) /\ q = message.program
  OBVIOUS
<1> HIDE DEF after, q
<1>3. C!OpenedWith(message, q, after)
  BY <1>1, <1>2, Assumed, C!OpenEffects
<1>4. /\ q \in ProgramIds /\ programs[q] = None /\ programs'[q] = after
      /\ after \in C!ProgramRow /\ after.treasurySequence = message.sequence
      /\ treasuryEvents'[q] =
           Append(treasuryEvents[q], [message |-> message, applied |-> TRUE])
      /\ C!OthersKept(q)
  BY <1>3 DEF C!OpenedWith
<1>5. after # None
  BY <1>4, SameOperators, NullAssumption
<1>6. after.currency = message.limit.currency
  BY <1>2 DEF C!OpenedBy, C!OpenProgram
<1>7. /\ ~ Service!EventRecorded(message.event)
      /\ C!TreasuryAnswer(programs[q], message) = "CREATED"
  BY <1>1, <1>2, SameOperators DEF C!OpenFromTreasury
<1>8. ~ (message.limit.minor <= 0)
  BY <1>7, Assumed, C!TreasuryCreated
<1>9. TreasuryAnswer(programs[q], message) = "CREATED"
  BY <1>7, SameOperators
<1>10. \A r \in ProgramIds : r # q =>
         programs'[r] = programs[r] /\ treasuryEvents'[r] = treasuryEvents[r]
  BY <1>4 DEF C!OthersKept
<1>11. QED
  BY <1>2, <1>4, <1>5, <1>6, <1>7, <1>8, <1>9, <1>10 DEF Records

\* A message that updated it.
LEMMA UpdateRecords ==
  ASSUME C!TypeInv, NEW message \in TreasuryMessage, Service!UpdateFromTreasury(message)
  PROVE  Records(message, TRUE)
<1> DEFINE q == message.program
           before == programs[q]
           after == C!ApplyTreasuryState(before, message)
<1>1. message \in C!TreasuryMessage /\ C!UpdateFromTreasury(message)
  BY SameOperators, SameCommands
<1>2. after = C!ApplyTreasuryState(before, message) /\ q = message.program
      /\ before = programs[q]
  OBVIOUS
<1> HIDE DEF after, before, q
<1>3. C!UpdatedWith(message, q, before, after)
  BY <1>1, <1>2, Assumed, C!UpdateEffects
<1>4. /\ q \in ProgramIds /\ programs'[q] \in C!ProgramRow
      /\ programs'[q].currency = before.currency
      /\ programs'[q].treasurySequence = message.sequence
      /\ treasuryEvents'[q] =
           Append(treasuryEvents[q], [message |-> message, applied |-> TRUE])
      /\ C!OthersKept(q)
  BY <1>3 DEF C!UpdatedWith
<1>5. programs'[q] # None
  BY <1>4, SameOperators, NullAssumption
<1>6. /\ ~ Service!EventRecorded(message.event)
      /\ C!TreasuryAnswer(before, message) = "APPLIED"
  BY <1>1, <1>2, SameOperators DEF C!UpdateFromTreasury
<1>7. message.limit # None => /\ message.limit.currency = before.currency
                              /\ ~ (message.limit.minor <= 0)
  BY <1>6, Assumed, C!TreasuryApplied
<1>8. TreasuryAnswer(before, message) = "APPLIED"
  BY <1>6, SameOperators
<1>9. \A r \in ProgramIds : r # q =>
         programs'[r] = programs[r] /\ treasuryEvents'[r] = treasuryEvents[r]
  BY <1>4 DEF C!OthersKept
<1>10. QED
  BY <1>2, <1>4, <1>5, <1>6, <1>7, <1>8, <1>9 DEF Records

\* A message that it ignored.
LEMMA StaleRecords ==
  ASSUME C!TypeInv, NEW message \in TreasuryMessage, Service!RecordStale(message)
  PROVE  Records(message, FALSE)
<1> DEFINE q == message.program
<1>1. message \in C!TreasuryMessage /\ C!RecordStale(message)
  BY SameOperators, SameCommands
<1>2. q = message.program
  OBVIOUS
<1> HIDE DEF q
<1>3. C!IgnoredStale(message, q)
  BY <1>1, <1>2, Assumed, C!StaleEffects
<1>4. /\ q \in ProgramIds /\ programs[q] \in C!ProgramRow
      /\ message.sequence <= programs[q].treasurySequence
      /\ treasuryEvents'[q] =
           Append(treasuryEvents[q], [message |-> message, applied |-> FALSE])
      /\ programs'[q] = programs[q] /\ C!OthersKept(q)
  BY <1>3 DEF C!IgnoredStale
<1>5. programs[q] # None
  BY <1>4, SameOperators, NullAssumption
<1>6. /\ ~ Service!EventRecorded(message.event)
      /\ C!TreasuryAnswer(programs[q], message) = "STALE"
  BY <1>1, <1>2, SameOperators DEF C!RecordStale
<1>7. TreasuryAnswer(programs[q], message) = "STALE"
  BY <1>6, SameOperators
<1>8. \A r \in ProgramIds : r # q =>
         programs'[r] = programs[r] /\ treasuryEvents'[r] = treasuryEvents[r]
  BY <1>4 DEF C!OthersKept
<1>9. QED
  BY <1>2, <1>4, <1>5, <1>6, <1>7, <1>8 DEF Records

\* A command that changes the tables is one of Capacity, and records its message.
LEMMA ChangesAre ==
  ASSUME C!TypeInv, NEW message \in TreasuryMessage, Changes(message)
  PROVE  C!Next /\ \E applied \in BOOLEAN : Records(message, applied)
<1>1. C!Next
  <2>1. message \in C!TreasuryMessage
    BY SameOperators
  <2>2. \/ C!OpenFromTreasury(message)
        \/ C!UpdateFromTreasury(message)
        \/ C!RecordStale(message)
    BY SameCommands DEF Changes
  <2>3. C!Treasury
    BY <2>1, <2>2 DEF C!Treasury
  <2>4. QED
    BY <2>3 DEF C!Next
<1>2. \E applied \in BOOLEAN : Records(message, applied)
  BY OpenRecords, UpdateRecords, StaleRecords DEF Changes
<1>3. QED
  BY <1>1, <1>2


-----------------------------------------------------------------------------
(* The four kinds of step.                                                 *)

\* Treasury sends a message.
Sends == \E p \in Partitions : \E message \in Messages \union {Malformed} : Send(p, message)

\* A consumer records the message it has in hand.
RecordsHeld(c) ==
  /\ inHand[c] # None /\ At(inHand[c].at) \in TreasuryMessage
  /\ Readable(At(inHand[c].at))
  /\ C!Next /\ \E applied \in BOOLEAN : Records(At(inHand[c].at), applied)
  /\ UNCHANGED <<topic, parked>>
  /\ \A d \in Consumers : inHand'[d] # None => inHand'[d] = inHand[d]

\* A consumer gives the message it has in hand up for the dead-letter topic.
RefusesHeld(c) ==
  /\ inHand[c] # None
  /\ ~ Readable(At(inHand[c].at)) \/ IsPermanent(Outcome(At(inHand[c].at)))
  /\ UNCHANGED <<programs, reservations, movements, treasuryEvents, outbox, topic, parked>>
  /\ inHand'[c].at = inHand[c].at
  /\ \A d \in Consumers : d # c => inHand'[d] = inHand[d]

\* Messages, offsets and partitions change hands: a consumer takes only the message
\* after an owner's position, and only a message given up is dead-lettered.
MovesOnly ==
  /\ UNCHANGED <<programs, reservations, movements, treasuryEvents, outbox, topic>>
  /\ parked \subseteq parked'
  /\ \A a \in parked' \ parked :
       \E c \in Consumers : Working(c, "parking") /\ inHand[c].at = a
  /\ \A c \in Consumers : inHand'[c] # None =>
       \/ inHand'[c] = inHand[c]
       \/ /\ inHand'[c].step = "applying"
          /\ \E p \in Partitions :
               position[p] < Len(topic[p]) /\ inHand'[c].at = <<p, position[p] + 1>>

\* A message that is taken out of hand leaves the others where they are.
LEMMA HandEmptied ==
  ASSUME FeedTypes, NEW c \in Consumers, inHand' = [inHand EXCEPT ![c] = None]
  PROVE  \A d \in Consumers : inHand'[d] # None => inHand'[d] = inHand[d]
BY DEF FeedTypes

\* A command that changes the tables, whether or not its answer arrives.
LEMMA ApplyRecords ==
  ASSUME FeedInv, C!TypeInv, NEW c \in Consumers, Apply(c) \/ ApplyUnacknowledged(c)
  PROVE  RecordsHeld(c)
<1>1. /\ inHand[c] # None /\ Readable(At(inHand[c].at)) /\ Changes(At(inHand[c].at))
      /\ UNCHANGED <<topic, parked>>
      /\ inHand' = [inHand EXCEPT ![c] = None]
  BY DEF Apply, ApplyUnacknowledged, Working, Finish, RetryLater
<1>2. At(inHand[c].at) \in TreasuryMessage
  BY <1>1, InHandIsMessage DEF FeedInv
<1>3. C!Next /\ \E applied \in BOOLEAN : Records(At(inHand[c].at), applied)
  BY <1>1, <1>2, ChangesAre
<1>4. \A d \in Consumers : inHand'[d] # None => inHand'[d] = inHand[d]
  BY <1>1, HandEmptied DEF FeedInv
<1>5. QED
  BY <1>1, <1>2, <1>3, <1>4 DEF RecordsHeld

\* A message that cannot be read, or that the command refuses.
LEMMA RefuseGivesUp ==
  ASSUME FeedInv, NEW c \in Consumers, Refuse(c)
  PROVE  RefusesHeld(c)
<1> DEFINE InHand == [at : Partitions \X Nat, step : {"applying", "parking"}]
<1>1. /\ inHand[c] # None
      /\ ~ Readable(At(inHand[c].at)) \/ IsPermanent(Outcome(At(inHand[c].at)))
      /\ UNCHANGED <<programs, reservations, movements, treasuryEvents, outbox, topic, parked>>
      /\ inHand' = [inHand EXCEPT ![c] = [inHand[c] EXCEPT !.step = "parking"]]
  BY DEF Refuse, Working, tables
<1>2. inHand[c] \in InHand
  BY <1>1 DEF FeedInv, FeedTypes
<1>3. /\ [inHand[c] EXCEPT !.step = "parking"] \in InHand
      /\ [inHand[c] EXCEPT !.step = "parking"].at = inHand[c].at
  BY <1>2
<1> HIDE DEF InHand
<1>4. inHand \in [Consumers -> InHand \union {None}]
  BY DEF FeedInv, FeedTypes, InHand
<1>5. /\ inHand'[c] = [inHand[c] EXCEPT !.step = "parking"]
      /\ \A d \in Consumers : d # c => inHand'[d] = inHand[d]
  BY <1>1, <1>4
<1>6. QED
  BY <1>1, <1>3, <1>5 DEF RefusesHeld


\* A message dropped, parked or tried again, and whatever the group does.
LEMMA HandlingMoves ==
  ASSUME FeedInv, NEW c \in Consumers,
         IgnoreDuplicate(c) \/ FailTemporarily(c) \/ Park(c) \/ ParkFails(c)
  PROVE  MovesOnly
<1>1. /\ UNCHANGED <<programs, reservations, movements, treasuryEvents, outbox, topic>>
      /\ inHand' = [inHand EXCEPT ![c] = None]
  BY DEF IgnoreDuplicate, FailTemporarily, Park, ParkFails, Finish, RetryLater, tables
<1>2. \/ parked' = parked
      \/ Working(c, "parking") /\ parked' = parked \union {inHand[c].at}
  BY DEF IgnoreDuplicate, FailTemporarily, Park, ParkFails
<1>3. \A d \in Consumers : inHand'[d] # None => inHand'[d] = inHand[d]
  BY <1>1, HandEmptied DEF FeedInv
<1>4. parked \subseteq parked'
      /\ \A a \in parked' \ parked :
           \E d \in Consumers : Working(d, "parking") /\ inHand[d].at = a
  BY <1>2
<1>5. QED
  BY <1>1, <1>3, <1>4 DEF MovesOnly

\* A message is handed over.
LEMMA DeliverMoves ==
  ASSUME FeedInv, NEW p \in Partitions, NEW c \in Consumers, Deliver(p, c)
  PROVE  MovesOnly
<1> DEFINE next == [at |-> <<p, position[p] + 1>>, step |-> "applying"]
<1>1. next.at = <<p, position[p] + 1>> /\ next.step = "applying"
  OBVIOUS
<1>2. /\ UNCHANGED <<programs, reservations, movements, treasuryEvents, outbox, topic, parked>>
      /\ position[p] < Len(topic[p])
      /\ inHand' = [inHand EXCEPT ![c] = next]
  BY DEF Deliver, tables
<1> HIDE DEF next
<1>3. inHand'[c] = next /\ \A d \in Consumers : d # c => inHand'[d] = inHand[d]
  BY <1>2 DEF FeedInv, FeedTypes
<1>4. \A d \in Consumers : inHand'[d] # None =>
        \/ inHand'[d] = inHand[d]
        \/ /\ inHand'[d].step = "applying"
           /\ \E r \in Partitions :
                position[r] < Len(topic[r]) /\ inHand'[d].at = <<r, position[r] + 1>>
  BY <1>1, <1>2, <1>3
<1>5. QED
  BY <1>2, <1>4 DEF MovesOnly

\* A partition is assigned, an offset committed, a consumer leaves.
LEMMA GroupMoves ==
  ASSUME FeedInv,
         \/ \E p \in Partitions : \E c \in Consumers : Assign(p, c)
         \/ \E p \in Partitions : AutoCommit(p)
         \/ \E c \in Consumers : Stop(c) \/ Crash(c)
         \/ UNCHANGED vars
  PROVE  MovesOnly
<1>1. /\ UNCHANGED <<programs, reservations, movements, treasuryEvents, outbox, topic, parked>>
      /\ inHand' = inHand \/ \E c \in Consumers : inHand' = [inHand EXCEPT ![c] = None]
  BY DEF Assign, AutoCommit, Stop, Crash, vars, tables
<1>2. \A d \in Consumers : inHand'[d] # None => inHand'[d] = inHand[d]
  BY <1>1, HandEmptied DEF FeedInv
<1>3. QED
  BY <1>1, <1>2 DEF MovesOnly

\* Every step is of one of the four kinds.
LEMMA StepKinds ==
  ASSUME FeedInv, C!TypeInv, [Next]_vars
  PROVE  \/ Sends
         \/ \E c \in Consumers : RecordsHeld(c)
         \/ \E c \in Consumers : RefusesHeld(c)
         \/ MovesOnly
<1>1. CASE Sends
  BY <1>1
<1>2. CASE \E p \in Partitions : \E c \in Consumers : Assign(p, c) \/ Deliver(p, c)
  BY <1>2, GroupMoves, DeliverMoves
<1>3. CASE \E p \in Partitions : AutoCommit(p)
  BY <1>3, GroupMoves
<1>4. CASE \E c \in Consumers : Process(c) \/ Stop(c) \/ Crash(c)
  BY <1>4, GroupMoves, ApplyRecords, RefuseGivesUp, HandlingMoves DEF Process, Handle
<1>5. CASE UNCHANGED vars
  BY <1>5, GroupMoves
<1>6. QED
  BY <1>1, <1>2, <1>3, <1>4, <1>5 DEF Next, Sends


-----------------------------------------------------------------------------
(* What every step keeps.                                                  *)

\* A message sent lengthens its partition, behind the messages that are there.
LEMMA SendAdds ==
  ASSUME FeedTypes, NEW p \in Partitions, NEW message \in Messages \union {Malformed},
         Send(p, message)
  PROVE  /\ UNCHANGED <<programs, reservations, movements, treasuryEvents, outbox, inHand, parked>>
         /\ \A r \in Partitions :
              /\ Len(topic[r]) \in Nat
              /\ Len(topic'[r]) = IF r = p THEN Len(topic[r]) + 1 ELSE Len(topic[r])
              /\ \A o \in 1..Len(topic[r]) : topic'[r][o] = topic[r][o]
<1> DEFINE Topic == Seq(Messages \union {Malformed})
<1>1. topic[p] \in Topic /\ topic \in [Partitions -> Topic]
  BY DEF FeedTypes
<1>2. topic' = [topic EXCEPT ![p] = Append(topic[p], message)]
  BY DEF Send
<1>3. /\ Len(Append(topic[p], message)) = Len(topic[p]) + 1 /\ Len(topic[p]) \in Nat
      /\ \A o \in 1..Len(topic[p]) : Append(topic[p], message)[o] = topic[p][o]
  BY <1>1
<1>4. ASSUME NEW r \in Partitions
      PROVE  /\ Len(topic[r]) \in Nat
             /\ Len(topic'[r]) = IF r = p THEN Len(topic[r]) + 1 ELSE Len(topic[r])
             /\ \A o \in 1..Len(topic[r]) : topic'[r][o] = topic[r][o]
  <2>1. CASE r = p
    <3>1. topic'[p] = Append(topic[p], message)
      BY <1>1, <1>2
    <3>2. QED
      BY <2>1, <1>3, <3>1
  <2>2. CASE r # p
    <3>1. topic'[r] = topic[r] /\ Len(topic[r]) \in Nat
      BY <2>2, <1>1, <1>2
    <3>2. QED
      BY <2>2, <3>1
  <2>3. QED
    BY <2>1, <2>2
<1>5. QED
  BY <1>4 DEF Send, tables

\* A recorded message is one more row of its program, behind the others.
LEMMA RowsRecorded ==
  ASSUME FeedTypes, NEW message, NEW applied \in BOOLEAN, Records(message, applied)
  PROVE  /\ \A r \in ProgramIds : \A i \in DOMAIN treasuryEvents[r] :
              i \in DOMAIN treasuryEvents'[r] /\ treasuryEvents'[r][i] = treasuryEvents[r][i]
         /\ \A r \in ProgramIds : \A i \in DOMAIN treasuryEvents'[r] :
              \/ i \in DOMAIN treasuryEvents[r] /\ treasuryEvents'[r][i] = treasuryEvents[r][i]
              \/ /\ r = message.program
                 /\ treasuryEvents'[r][i].message = message
                 /\ treasuryEvents'[r][i].applied = applied
<1> DEFINE q   == message.program
           row == [message |-> message, applied |-> applied]
           old == treasuryEvents[q]
<1>1. /\ q \in ProgramIds /\ old \in Seq(TreasuryRow)
      /\ treasuryEvents'[q] = Append(old, row)
      /\ \A r \in ProgramIds : r # q => treasuryEvents'[r] = treasuryEvents[r]
      /\ row.message = message /\ row.applied = applied
  BY DEF Records, FeedTypes
<1> HIDE DEF row
<1>2. /\ DOMAIN Append(old, row) = 1..(Len(old) + 1) /\ DOMAIN old = 1..Len(old)
      /\ Append(old, row)[Len(old) + 1] = row
      /\ \A i \in 1..Len(old) : Append(old, row)[i] = old[i]
      /\ Len(old) \in Nat
  BY <1>1
<1>3. \A i \in DOMAIN old : i \in DOMAIN Append(old, row) /\ Append(old, row)[i] = old[i]
  BY <1>2
<1>4. \A i \in DOMAIN Append(old, row) :
        \/ i \in DOMAIN old /\ Append(old, row)[i] = old[i]
        \/ Append(old, row)[i] = row
  BY <1>2
<1>5. ASSUME NEW r \in ProgramIds
      PROVE  /\ \A i \in DOMAIN treasuryEvents[r] :
                  i \in DOMAIN treasuryEvents'[r] /\ treasuryEvents'[r][i] = treasuryEvents[r][i]
             /\ \A i \in DOMAIN treasuryEvents'[r] :
                  \/ /\ i \in DOMAIN treasuryEvents[r]
                     /\ treasuryEvents'[r][i] = treasuryEvents[r][i]
                  \/ r = q /\ treasuryEvents'[r][i] = row
  <2>1. CASE r = q
    BY <2>1, <1>1, <1>3, <1>4
  <2>2. CASE r # q
    BY <2>2, <1>1
  <2>3. QED
    BY <2>1, <2>2
<1>6. QED
  BY <1>1, <1>5

\* No step takes back a message, a dead letter or a recorded event id.
LEMMA StepKeeps ==
  ASSUME FeedInv, C!TypeInv, [Next]_vars
  PROVE  Keeps
<1>1. CASE Sends
  <2>1. PICK p \in Partitions, message \in Messages \union {Malformed} : Send(p, message)
    BY <1>1 DEF Sends
  <2>2. /\ UNCHANGED <<treasuryEvents, parked>>
        /\ \A r \in Partitions :
              /\ Len(topic[r]) \in Nat
              /\ Len(topic'[r]) = IF r = p THEN Len(topic[r]) + 1 ELSE Len(topic[r])
              /\ \A o \in 1..Len(topic[r]) : topic'[r][o] = topic[r][o]
    BY <2>1, SendAdds DEF FeedInv
  <2>3. \A r \in Partitions : Len(topic[r]) <= Len(topic'[r])
    BY <2>2
  <2>4. QED
    BY <2>2, <2>3, SameRecords DEF Keeps
<1>2. CASE \E c \in Consumers : RecordsHeld(c)
  <2>1. PICK message \in TreasuryMessage, applied \in BOOLEAN : Records(message, applied)
    BY <1>2 DEF RecordsHeld
  <2>2. UNCHANGED <<topic, parked>>
    BY <1>2 DEF RecordsHeld
  <2>3. \A r \in ProgramIds : \A i \in DOMAIN treasuryEvents[r] :
          i \in DOMAIN treasuryEvents'[r] /\ treasuryEvents'[r][i] = treasuryEvents[r][i]
    BY <2>1, RowsRecorded DEF FeedInv
  <2>4. \A event : Service!EventRecorded(event) => Service!EventRecorded(event)'
    BY <2>3 DEF Service!EventRecorded
  <2>5. \A r \in Partitions : Len(topic[r]) \in Nat
    BY DEF FeedInv, FeedTypes
  <2>6. QED
    BY <2>2, <2>4, <2>5 DEF Keeps
<1>3. CASE \E c \in Consumers : RefusesHeld(c)
  <2>1. UNCHANGED <<treasuryEvents, topic>> /\ parked \subseteq parked'
    BY <1>3 DEF RefusesHeld
  <2>2. QED
    BY <2>1, QuietKeeps DEF FeedInv
<1>4. CASE MovesOnly
  BY <1>4, QuietKeeps DEF FeedInv, MovesOnly
<1>5. QED
  BY <1>1, <1>2, <1>3, <1>4, StepKinds


-----------------------------------------------------------------------------
(* The places of the messages sent.                                        *)

\* The bound on the messages sent is one on each partition, too: every offset in
\* use is one of Sent.
SentInv ==
  /\ IsFiniteSet(Sent) /\ Cardinality(Sent) <= MaxSent
  /\ \A p \in Partitions : Len(topic[p]) <= Cardinality(Sent)

\* The places of Sent are the offsets in use, and each has its message.
LEMMA PlacesAre ==
  ASSUME FeedTypes, SentInv
  PROVE  /\ \A p \in Partitions : Len(topic[p]) \in Nat
         /\ \A p \in Partitions : \A o \in 1..Len(topic[p]) : <<p, o>> \in Sent
         /\ \A place \in Sent :
              /\ place[1] \in Partitions /\ place[2] \in 1..Len(topic[place[1]])
              /\ place[2] \in Nat /\ place = <<place[1], place[2]>>
              /\ At(place) \in Messages \union {Malformed}
              /\ Readable(At(place)) => At(place) \in TreasuryMessage
<1>1. \A p \in Partitions : Len(topic[p]) \in Nat
  BY DEF FeedTypes
<1>2. Cardinality(Sent) \in Nat
  BY FS_CardinalityType DEF SentInv
<1>3. ASSUME NEW p \in Partitions, NEW o \in 1..Len(topic[p])
      PROVE  <<p, o>> \in Sent
  <2>1. Len(topic[p]) <= Cardinality(Sent) /\ Cardinality(Sent) <= MaxSent
    BY DEF SentInv
  <2>2. o \in 1..MaxSent /\ o <= Len(topic[p])
    BY <1>1, <1>2, <2>1, FeedAssumption
  <2>3. QED
    BY <2>2 DEF Sent
<1>4. ASSUME NEW place \in Sent
      PROVE  /\ place[1] \in Partitions /\ place[2] \in 1..Len(topic[place[1]])
             /\ place[2] \in Nat /\ place = <<place[1], place[2]>>
             /\ At(place) \in Messages \union {Malformed}
             /\ Readable(At(place)) => At(place) \in TreasuryMessage
  <2>1. place \in Partitions \X (1..MaxSent) /\ place[2] <= Len(topic[place[1]])
    BY DEF Sent
  <2>2. /\ place[1] \in Partitions /\ place[2] \in 1..Len(topic[place[1]])
        /\ place[2] \in Nat /\ place = <<place[1], place[2]>>
    BY <1>1, <2>1, FeedAssumption
  <2>3. topic[place[1]] \in Seq(Messages \union {Malformed})
    BY <2>2 DEF FeedTypes
  <2>4. At(place) \in Messages \union {Malformed}
    BY <2>2, <2>3 DEF At
  <2>5. QED
    BY <2>2, <2>4, FeedAssumption DEF Readable
<1>5. QED
  BY <1>1, <1>3, <1>4

\* One more message is one more place.
LEMMA SendKeepsSent ==
  ASSUME FeedTypes, SentInv, NEW p \in Partitions, NEW message \in Messages \union {Malformed},
         Send(p, message)
  PROVE  SentInv'
<1> DEFINE place == <<p, Len(topic[p]) + 1>>
           total == Cardinality(Sent)
<1>1. /\ Len(topic[p]) \in Nat
      /\ \A r \in Partitions :
           /\ Len(topic[r]) \in Nat
           /\ Len(topic'[r]) = IF r = p THEN Len(topic[r]) + 1 ELSE Len(topic[r])
  BY SendAdds
<1>2. total \in Nat /\ total < MaxSent /\ IsFiniteSet(Sent)
  BY FS_CardinalityType DEF SentInv, Send
<1>3. \A r \in Partitions : Len(topic[r]) <= total
  BY DEF SentInv
<1>4. Len(topic[p]) + 1 \in 1..MaxSent
  BY <1>1, <1>2, <1>3, FeedAssumption
<1>5. Sent' = Sent \union {place}
  <2>1. ASSUME NEW r \in Partitions, NEW o \in 1..MaxSent
        PROVE  o <= Len(topic'[r]) <=> o <= Len(topic[r]) \/ (r = p /\ o = Len(topic[p]) + 1)
    <3>1. /\ Len(topic[r]) \in Nat /\ o \in Nat
          /\ Len(topic'[r]) = IF r = p THEN Len(topic[r]) + 1 ELSE Len(topic[r])
      BY <1>1, FeedAssumption
    <3>2. QED
      BY <3>1
  <2>2. ASSUME NEW a
        PROVE  a \in Sent' <=> a \in Sent \/ a = place
    <3>1. a \in Sent' <=> a \in Partitions \X (1..MaxSent) /\ a[2] <= Len(topic'[a[1]])
      BY DEF Sent
    <3>2. a \in Sent <=> a \in Partitions \X (1..MaxSent) /\ a[2] <= Len(topic[a[1]])
      BY DEF Sent
    <3>3. a \in Partitions \X (1..MaxSent) =>
            (a = place <=> a[1] = p /\ a[2] = Len(topic[p]) + 1)
      OBVIOUS
    <3>4. place \in Partitions \X (1..MaxSent)
      BY <1>4
    <3> HIDE DEF place
    <3>5. a \in Partitions \X (1..MaxSent) => a[1] \in Partitions /\ a[2] \in 1..MaxSent
      OBVIOUS
    <3>6. QED
      BY <3>1, <3>2, <3>3, <3>4, <3>5, <2>1
  <2>3. QED
    BY <2>2
<1>6. place \notin Sent
  BY <1>1 DEF Sent
<1> HIDE DEF place
<1>7. IsFiniteSet(Sent') /\ Cardinality(Sent') = total + 1
  BY <1>2, <1>5, <1>6, FS_AddElement
<1> HIDE DEF total
<1>8. \A r \in Partitions : Len(topic'[r]) <= total + 1
  BY <1>1, <1>2, <1>3
<1>9. total + 1 <= MaxSent
  BY <1>2, FeedAssumption
<1>10. QED
  BY <1>7, <1>8, <1>9 DEF SentInv

\* Only treasury adds to what was sent.
LEMMA StepSent ==
  ASSUME FeedInv, C!TypeInv, SentInv, [Next]_vars
  PROVE  SentInv'
<1>1. CASE Sends
  BY <1>1, SendKeepsSent DEF Sends, FeedInv
<1>2. CASE UNCHANGED topic
  BY <1>2 DEF SentInv, Sent
<1>3. QED
  BY <1>1, <1>2, StepKinds DEF RecordsHeld, RefusesHeld, MovesOnly


\* The place of a message all the messages before which are settled.
Cleared(place) ==
  place \in Sent /\ \A o \in 1..(place[2] - 1) : Settled(<<place[1], o>>)

\* A message keeps its place, and what was so of it stays so.
LEMMA PlaceStays ==
  ASSUME FeedTypes, SentInv, FeedTypes', SentInv', Keeps, NEW place \in Sent
  PROVE  /\ place \in Sent' /\ At(place)' = At(place)
         /\ Settled(place) => Settled(place)'
         /\ Cleared(place) => Cleared(place)'
         /\ \A q : place \in Of(q) <=> place \in Of(q)'
<1>1. /\ place[1] \in Partitions /\ place[2] \in 1..Len(topic[place[1]])
      /\ place = <<place[1], place[2]>>
      /\ \A p \in Partitions : Len(topic[p]) \in Nat
  BY PlacesAre
<1>2. /\ \A p \in Partitions : Len(topic'[p]) \in Nat
      /\ \A p \in Partitions : \A o \in 1..Len(topic'[p]) : <<p, o>> \in Sent'
  <2>1. (FeedTypes /\ SentInv =>
           /\ \A p \in Partitions : Len(topic[p]) \in Nat
           /\ \A p \in Partitions : \A o \in 1..Len(topic[p]) : <<p, o>> \in Sent)'
    BY PlacesAre, PTL
  <2>2. QED
    BY <2>1
<1>3. place \in Sent'
  <2>1. Len(topic[place[1]]) <= Len(topic'[place[1]])
    BY <1>1 DEF Keeps
  <2>2. place[2] \in 1..Len(topic'[place[1]])
    BY <1>1, <1>2, <2>1
  <2>3. QED
    BY <1>1, <1>2, <2>2
<1>4. At(place)' = At(place)
  BY <1>1 DEF At, Keeps
<1>5. Settled(place) => Settled(place)'
  BY <1>1, SettledStays
<1>6. Cleared(place) => Cleared(place)'
  <2> SUFFICES ASSUME Cleared(place), NEW o \in 1..(place[2] - 1)
               PROVE  Settled(<<place[1], o>>)'
    BY <1>3 DEF Cleared
  <2>1. Settled(<<place[1], o>>)
    BY DEF Cleared
  <2>2. o \in 1..Len(topic[place[1]])
    BY <1>1
  <2>3. QED
    BY <1>1, <2>1, <2>2, SettledStays
<1>7. \A q : place \in Of(q) <=> place \in Of(q)'
  BY <1>3, <1>4 DEF Of, Readable
<1>8. QED
  BY <1>3, <1>4, <1>5, <1>6, <1>7

\* A program whose messages are in order had its messages in order.
LEMMA WasInOrder ==
  ASSUME FeedTypes, SentInv, FeedTypes', SentInv', Keeps, NEW q, InOrder(q)'
  PROVE  InOrder(q)
<1> SUFFICES ASSUME NEW a \in Of(q), NEW b \in Of(q)
             PROVE  /\ a[1] = b[1]
                    /\ a[2] < b[2] => /\ At(a).sequence < At(b).sequence
                                      /\ At(a).event # At(b).event
  BY DEF InOrder
<1>1. a \in Sent /\ b \in Sent
  BY DEF Of
<1>2. /\ a \in Of(q)' /\ b \in Of(q)'
      /\ At(a)' = At(a) /\ At(b)' = At(b)
  BY <1>1, PlaceStays
<1>3. QED
  BY <1>2 DEF InOrder


-----------------------------------------------------------------------------
(* Nothing overtakes.                                                      *)

\* Whatever is in hand, dead-lettered or recorded had nothing unsettled before it
\* in its partition; and what is recorded is a message that treasury sent.
HeldCleared == \A c \in Consumers : inHand[c] # None => Cleared(inHand[c].at)

ParkedCleared == \A place \in parked : Cleared(place)

RowsCleared ==
  \A q \in ProgramIds : \A i \in DOMAIN treasuryEvents[q] :
    \E place \in Of(q) : At(place) = treasuryEvents[q][i].message /\ Cleared(place)

ClearedInv == HeldCleared /\ ParkedCleared /\ RowsCleared

\* The facts about a step that every proof below begins with.
Stepped ==
  /\ FeedInv /\ SentInv /\ C!TypeInv /\ [Next]_vars
  /\ FeedInv' /\ SentInv' /\ Keeps

\* A message keeps its place and what is so of it, in any step.
LEMMA StepsAre ==
  ASSUME Stepped
  PROVE  /\ \A place \in Sent :
              /\ place \in Sent' /\ At(place)' = At(place)
              /\ Settled(place) => Settled(place)'
              /\ Cleared(place) => Cleared(place)'
              /\ \A q : place \in Of(q) <=> place \in Of(q)'
         /\ \A q : InOrder(q)' => InOrder(q)
BY PlaceStays, WasInOrder DEF Stepped, FeedInv

\* An owner's next message has nothing unsettled before it.
LEMMA NextIsCleared ==
  ASSUME FeedInv, SentInv, NEW p \in Partitions, position[p] < Len(topic[p])
  PROVE  Cleared(<<p, position[p] + 1>>)
<1>1. position[p] \in Nat /\ Len(topic[p]) \in Nat
  BY PlacesAre DEF FeedInv, Offsets
<1>2. position[p] + 1 \in 1..Len(topic[p])
  BY <1>1
<1>3. <<p, position[p] + 1>> \in Sent
  BY <1>2, PlacesAre DEF FeedInv
<1>4. \A o \in 1..position[p] : Settled(<<p, o>>)
  BY DEF FeedInv, PositionSettled
<1>5. (position[p] + 1) - 1 = position[p]
  BY <1>1
<1>6. QED
  BY <1>3, <1>4, <1>5 DEF Cleared

\* What a consumer has in hand after a step was cleared before it.
LEMMA HandsAre ==
  ASSUME Stepped, HeldCleared, NEW c \in Consumers, inHand'[c] # None
  PROVE  Cleared(inHand'[c].at)
<1>1. CASE inHand'[c].at = inHand[c].at /\ inHand[c] # None
  BY <1>1 DEF HeldCleared
<1>2. CASE \E p \in Partitions :
             position[p] < Len(topic[p]) /\ inHand'[c].at = <<p, position[p] + 1>>
  BY <1>2, NextIsCleared DEF Stepped
<1>3. CASE Sends
  <2>1. inHand' = inHand
    BY <1>3 DEF Sends, Send
  <2>2. QED
    BY <1>1, <2>1
<1>4. CASE \E d \in Consumers : RecordsHeld(d)
  BY <1>1, <1>4 DEF RecordsHeld
<1>5. CASE \E d \in Consumers : RefusesHeld(d)
  BY <1>1, <1>5 DEF RefusesHeld
<1>6. CASE MovesOnly
  BY <1>1, <1>2, <1>6 DEF MovesOnly
<1>7. QED
  BY <1>3, <1>4, <1>5, <1>6, StepKinds DEF Stepped

\* No step takes, dead-letters or records a message before those in front of it.
LEMMA StepCleared ==
  ASSUME Stepped, ClearedInv
  PROVE  ClearedInv'
<1>1. \A place \in Sent : Cleared(place) => Cleared(place)'
  BY StepsAre
<1>2. \A place : Cleared(place) => place \in Sent
  BY DEF Cleared
<1>3. HeldCleared'
  <2> SUFFICES ASSUME NEW c \in Consumers, inHand'[c] # None
               PROVE  Cleared(inHand[c].at)'
    BY DEF HeldCleared
  <2>1. Cleared(inHand'[c].at)
    BY HandsAre DEF ClearedInv
  <2>2. PICK place : place = inHand'[c].at
    OBVIOUS
  <2>3. place \in Sent /\ Cleared(place)
    BY <2>1, <2>2, <1>2
  <2>4. Cleared(place)'
    BY <2>3, <1>1
  <2>5. QED
    BY <2>2, <2>4 DEF Cleared
<1>4. ParkedCleared'
  <2> SUFFICES ASSUME NEW place \in parked' PROVE Cleared(place)'
    BY DEF ParkedCleared
  <2>1. place \in parked \/ \E c \in Consumers : Working(c, "parking") /\ inHand[c].at = place
    BY StepKinds DEF Stepped, Sends, Send, RecordsHeld, RefusesHeld, MovesOnly
  <2>2. Cleared(place)
    BY <2>1 DEF ClearedInv, ParkedCleared, HeldCleared, Working
  <2>3. QED
    BY <2>2, <1>1, <1>2
<1>5. RowsCleared'
  <2> SUFFICES ASSUME NEW q \in ProgramIds, NEW i \in DOMAIN treasuryEvents'[q]
               PROVE  \E place \in Of(q)' : /\ At(place)' = treasuryEvents'[q][i].message
                                            /\ Cleared(place)'
    BY DEF RowsCleared
  <2>1. ASSUME NEW place \in Of(q), At(place) = treasuryEvents'[q][i].message, Cleared(place)
        PROVE  \E a \in Of(q)' : At(a)' = treasuryEvents'[q][i].message /\ Cleared(a)'
    BY <2>1, <1>1, <1>2, StepsAre
  <2>2. CASE i \in DOMAIN treasuryEvents[q] /\ treasuryEvents'[q][i] = treasuryEvents[q][i]
    <3>1. PICK place \in Of(q) : At(place) = treasuryEvents[q][i].message /\ Cleared(place)
      BY <2>2 DEF ClearedInv, RowsCleared
    <3>2. QED
      BY <2>1, <2>2, <3>1
  <2>3. CASE \E c \in Consumers : RecordsHeld(c)
    <3>1. PICK c \in Consumers : RecordsHeld(c)
      BY <2>3
    <3>2. PICK applied \in BOOLEAN : Records(At(inHand[c].at), applied)
      BY <3>1 DEF RecordsHeld
    <3>3. Cleared(inHand[c].at)
      BY <3>1 DEF RecordsHeld, ClearedInv, HeldCleared
    <3>4. \/ i \in DOMAIN treasuryEvents[q] /\ treasuryEvents'[q][i] = treasuryEvents[q][i]
          \/ /\ q = At(inHand[c].at).program
             /\ treasuryEvents'[q][i].message = At(inHand[c].at)
      BY <3>2, RowsRecorded DEF Stepped, FeedInv
    <3>5. CASE /\ q = At(inHand[c].at).program
               /\ treasuryEvents'[q][i].message = At(inHand[c].at)
      <4>1. inHand[c].at \in Of(q)
        BY <3>1, <3>3, <3>5, <1>2 DEF RecordsHeld, Of
      <4>2. QED
        BY <2>1, <3>3, <3>5, <4>1
    <3>6. QED
      BY <2>2, <3>4, <3>5
  <2>4. CASE UNCHANGED treasuryEvents
    BY <2>2, <2>4
  <2>5. QED
    BY <2>3, <2>4, StepKinds DEF Stepped, Sends, Send, tables, RefusesHeld, MovesOnly
<1>6. QED
  BY <1>3, <1>4, <1>5 DEF ClearedInv


\* A message whose event id is recorded and used once is the one recorded, in its
\* own program's rows.
LEMMA RecordedItself ==
  ASSUME SentInv, RowsCleared, NEW place \in Sent, Recorded(At(place)), SentOnce(At(place))
  PROVE  /\ Cleared(place)
         /\ \E q \in ProgramIds : \E i \in DOMAIN treasuryEvents[q] :
              place \in Of(q) /\ At(place) = treasuryEvents[q][i].message
<1> DEFINE Copies == {a \in Sent : Readable(At(a)) /\ At(a).event = At(place).event}
<1>1. Copies \in SUBSET Sent /\ IsFiniteSet(Sent) /\ Cardinality(Copies) = 1
  BY DEF SentInv, SentOnce
<1>2. IsFiniteSet(Copies)
  BY <1>1, FS_Subset
<1>3. PICK only : Copies = {only}
  BY <1>1, <1>2, FS_Singleton
<1>4. PICK q \in ProgramIds : \E i \in DOMAIN treasuryEvents[q] :
        treasuryEvents[q][i].message.event = At(place).event
  BY DEF Recorded, Service!EventRecorded
<1> PICK i \in DOMAIN treasuryEvents[q] :
      treasuryEvents[q][i].message.event = At(place).event
  BY <1>4
<1>5. PICK a \in Of(q) : At(a) = treasuryEvents[q][i].message /\ Cleared(a)
  BY DEF RowsCleared
<1>6. a \in Copies
  BY <1>4, <1>5 DEF Of
<1>7. place \in Copies
  BY DEF Recorded
<1>8. a = place
  BY <1>3, <1>6, <1>7
<1>9. QED
  BY <1>5, <1>8

\* So nothing overtakes: what is settled was cleared.
LEMMA ClearedImplies == SentInv /\ ClearedInv => NothingOvertakes
<1> SUFFICES ASSUME SentInv, ClearedInv, NEW behind \in Sent, Settled(behind),
                    behind \in parked \/ SentOnce(At(behind)),
                    NEW o \in 1..behind[2]
             PROVE  Settled(<<behind[1], o>>)
  BY DEF NothingOvertakes
<1>1. Cleared(behind)
  <2>1. CASE behind \in parked
    BY <2>1 DEF ClearedInv, ParkedCleared
  <2>2. CASE behind \notin parked
    BY <2>2, RecordedItself DEF ClearedInv, Settled
  <2>3. QED
    BY <2>1, <2>2
<1>2. behind \in Partitions \X (1..MaxSent)
  BY DEF Sent
<1>3. behind = <<behind[1], behind[2]>> /\ behind[2] \in Nat
  BY <1>2, FeedAssumption
<1>4. CASE o = behind[2]
  BY <1>3, <1>4
<1>5. CASE o # behind[2]
  <2>1. o \in 1..(behind[2] - 1)
    BY <1>3, <1>5
  <2>2. QED
    BY <1>1, <2>1 DEF Cleared
<1>6. QED
  BY <1>4, <1>5

-----------------------------------------------------------------------------
(* Messages in order.                                                      *)

\* Of the messages of a program in order, one no newer than another is not behind
\* it, and one that shares its event id is itself.
LEMMA OrderIs ==
  ASSUME FeedTypes, SentInv, NEW q, InOrder(q), NEW a \in Of(q), NEW b \in Of(q)
  PROVE  /\ a[1] = b[1] /\ a[2] \in Nat /\ b[2] \in Nat
         /\ At(a) \in TreasuryMessage /\ At(b) \in TreasuryMessage
         /\ At(a).sequence \in Nat /\ At(b).sequence \in Nat
         /\ At(a).sequence <= At(b).sequence => a[2] <= b[2]
         /\ a[2] < b[2] => At(a).sequence < At(b).sequence
         /\ a[2] = b[2] => a = b
         /\ At(a).event = At(b).event => a = b
<1>1. a \in Sent /\ b \in Sent /\ Readable(At(a)) /\ Readable(At(b))
  BY DEF Of
<1>2. /\ a[2] \in Nat /\ b[2] \in Nat
      /\ a = <<a[1], a[2]>> /\ b = <<b[1], b[2]>>
      /\ At(a) \in TreasuryMessage /\ At(b) \in TreasuryMessage
  BY <1>1, PlacesAre
<1>3. \A message \in TreasuryMessage : message.sequence \in Nat
  BY ConstantsAssumption DEF TreasuryMessage
<1>4. /\ a[1] = b[1]
      /\ a[2] < b[2] => At(a).sequence < At(b).sequence /\ At(a).event # At(b).event
      /\ b[2] < a[2] => At(b).sequence < At(a).sequence /\ At(b).event # At(a).event
  BY DEF InOrder
<1>5. a[2] < b[2] \/ a[2] = b[2] \/ b[2] < a[2]
  BY <1>2
<1>6. a[2] = b[2] => a = b
  BY <1>2, <1>4
<1>7. At(a).event = At(b).event => a = b
  BY <1>4, <1>5, <1>6
<1>8. At(a).sequence \in Nat /\ At(b).sequence \in Nat
  BY <1>2, <1>3
<1>9. At(a).sequence <= At(b).sequence => a[2] <= b[2]
  BY <1>2, <1>4, <1>5, <1>8
<1>10. QED
  BY <1>2, <1>4, <1>6, <1>7, <1>8, <1>9

\* A message before one that is cleared is dead-lettered or recorded.
LEMMA BeforeCleared ==
  ASSUME FeedTypes, SentInv, NEW q, InOrder(q), NEW a \in Of(q), NEW b \in Of(q),
         Cleared(b), a[2] < b[2]
  PROVE  a \in parked \/ Service!EventRecorded(At(a).event)
<1>1. a \in Sent
  BY DEF Of
<1>2. /\ a = <<a[1], a[2]>> /\ a[1] \in Partitions /\ a[2] \in 1..Len(topic[a[1]])
      /\ \A p \in Partitions : Len(topic[p]) \in Nat
  BY <1>1, PlacesAre
<1>3. a[1] = b[1] /\ a[2] \in Nat /\ b[2] \in Nat
  BY OrderIs
<1>4. a[2] \in 1..(b[2] - 1)
  BY <1>2, <1>3
<1>5. Settled(a)
  BY <1>2, <1>3, <1>4 DEF Cleared
<1>6. QED
  BY <1>5 DEF Settled, Recorded


-----------------------------------------------------------------------------
(* Messages that are given up.                                             *)

\* A consumer has given the message at this place up, or it was dead-lettered.
Rejected(place) ==
  place \in parked \/ \E c \in Consumers : Working(c, "parking") /\ inHand[c].at = place

\* The program takes nothing from the message: it would be refused, or ignored.
Powerless(program, message) == TreasuryAnswer(program, message) \notin {"CREATED", "APPLIED"}

\* A message of a program in order that was given up has no effect later.
RejectedInv ==
  \A q \in ProgramIds : InOrder(q) =>
    \A a \in Of(q) : Rejected(a) => Powerless(programs[q], At(a))

\* Nor had it any before.
AppliedNotRejected ==
  \A q \in ProgramIds : InOrder(q) =>
    \A i \in DOMAIN treasuryEvents[q] : treasuryEvents[q][i].applied =>
      \A a \in Of(q) : Rejected(a) => At(a) # treasuryEvents[q][i].message

\* What is given up after a step was so before it, or is given up by it.
LEMMA RejectedAre ==
  ASSUME Stepped, ClearedInv, NEW a, Rejected(a)'
  PROVE  /\ Cleared(a)
         /\ \/ Rejected(a)
            \/ \E c \in Consumers : RefusesHeld(c) /\ inHand[c].at = a
<1>1. \/ Rejected(a)
      \/ \E c \in Consumers : RefusesHeld(c) /\ inHand[c].at = a
  <2>1. CASE a \in parked'
    BY <2>1, StepKinds
       DEF Stepped, Rejected, Sends, Send, RecordsHeld, RefusesHeld, MovesOnly
  <2>2. CASE a \notin parked'
    <3>1. PICK c \in Consumers :
            inHand'[c] # None /\ inHand'[c].step = "parking" /\ inHand'[c].at = a
      BY <2>2 DEF Rejected, Working
    <3>2. CASE inHand'[c] = inHand[c]
      BY <3>1, <3>2 DEF Rejected, Working
    <3>3. CASE Sends
      BY <3>2, <3>3 DEF Sends, Send
    <3>4. CASE \E d \in Consumers : RecordsHeld(d)
      BY <3>1, <3>2, <3>4 DEF RecordsHeld
    <3>5. CASE \E d \in Consumers : RefusesHeld(d)
      <4>1. PICK d \in Consumers : RefusesHeld(d)
        BY <3>5
      <4>2. CASE c = d
        BY <3>1, <4>1, <4>2 DEF RefusesHeld
      <4>3. CASE c # d
        BY <3>2, <4>1, <4>3 DEF RefusesHeld
      <4>4. QED
        BY <4>2, <4>3
    <3>6. CASE MovesOnly
      BY <3>1, <3>2, <3>6 DEF MovesOnly
    <3>7. QED
      BY <3>3, <3>4, <3>5, <3>6, StepKinds DEF Stepped
  <2>3. QED
    BY <2>1, <2>2
<1>2. Cleared(a)
  BY <1>1 DEF Rejected, Working, RefusesHeld, ClearedInv, ParkedCleared, HeldCleared
<1>3. QED
  BY <1>1, <1>2

\* A step leaves a program's row and messages, or records one of its messages.
LEMMA ProgramSteps ==
  ASSUME Stepped, ClearedInv, NEW q \in ProgramIds
  PROVE  \/ programs'[q] = programs[q] /\ treasuryEvents'[q] = treasuryEvents[q]
         \/ \E b \in Of(q) : \E applied \in BOOLEAN : Cleared(b) /\ Records(At(b), applied)
<1>1. CASE UNCHANGED <<programs, treasuryEvents>>
  BY <1>1
<1>2. CASE \E c \in Consumers : RecordsHeld(c)
  <2>1. PICK c \in Consumers : RecordsHeld(c)
    BY <1>2
  <2>2. PICK applied \in BOOLEAN : Records(At(inHand[c].at), applied)
    BY <2>1 DEF RecordsHeld
  <2>3. Cleared(inHand[c].at) /\ Readable(At(inHand[c].at))
    BY <2>1 DEF RecordsHeld, ClearedInv, HeldCleared
  <2>4. CASE q = At(inHand[c].at).program
    <3>1. inHand[c].at \in Of(q)
      BY <2>3, <2>4 DEF Of, Cleared
    <3>2. QED
      BY <2>2, <2>3, <3>1
  <2>5. CASE q # At(inHand[c].at).program
    BY <2>2, <2>5 DEF Records
  <2>6. QED
    BY <2>4, <2>5
<1>3. QED
  BY <1>1, <1>2, StepKinds DEF Stepped, Sends, Send, tables, RefusesHeld, MovesOnly

\* A message that is refused for good has no effect as things are.
LEMMA RefusedIsPowerless ==
  ASSUME NEW c \in Consumers, RefusesHeld(c), Readable(At(inHand[c].at))
  PROVE  IsPermanent(TreasuryAnswer(programs[At(inHand[c].at).program], At(inHand[c].at)))
BY DEF RefusesHeld, IsPermanent, Outcome


\* The program's row has the newest sequence of the messages applied.
LEMMA NewestApplied ==
  ASSUME FeedTypes, C!DecidedInv, NEW q \in ProgramIds
  PROVE  LET log == treasuryEvents[q]
         IN  /\ \A i \in DOMAIN log : log[i].applied =>
                  /\ programs[q] # None
                  /\ log[i].message.sequence <= programs[q].treasurySequence
             /\ programs[q] # None =>
                  \E k \in DOMAIN log : /\ log[k].applied
                                        /\ programs[q].treasurySequence = log[k].message.sequence
<1> DEFINE log == treasuryEvents[q]
<1>1. log \in Seq(TreasuryRow) /\ DOMAIN log = 1..Len(log)
  BY DEF FeedTypes
<1>2. \A i \in DOMAIN log : i \in Nat /\ log[i].message \in TreasuryMessage
  <2> HIDE DEF log
  <2>1. \A i \in DOMAIN log : i \in Nat /\ log[i] \in TreasuryRow
    BY <1>1
  <2>2. \A row \in TreasuryRow : row.message \in TreasuryMessage
    BY DEF TreasuryRow
  <2>3. QED
    BY <2>1, <2>2
<1>3. \A i \in DOMAIN log : log[i].message.sequence \in Nat
  BY <1>2, ConstantsAssumption DEF TreasuryMessage
<1>4. C!TreasuryDecides(programs[q], log)
  BY DEF C!DecidedInv
<1> HIDE DEF log
<1>5. programs[q] = None => DOMAIN log = {}
  BY <1>4 DEF C!TreasuryDecides
<1>6. programs[q] # None =>
        \E k : /\ C!LastOf(k, C!AppliedIn(log))
               /\ programs[q].treasurySequence = log[k].message.sequence
  BY <1>4 DEF C!TreasuryDecides
<1>7. \A i, j \in C!AppliedIn(log) : i < j => log[i].message.sequence < log[j].message.sequence
  BY <1>4 DEF C!TreasuryDecides, C!AppliedInOrder
<1>8. ASSUME NEW k, C!LastOf(k, C!AppliedIn(log))
      PROVE  /\ k \in DOMAIN log /\ log[k].applied
             /\ \A i \in DOMAIN log : log[i].applied =>
                  log[i].message.sequence <= log[k].message.sequence
  <2>1. k \in C!AppliedIn(log) /\ \A j \in C!AppliedIn(log) : j <= k
    BY <1>8 DEF C!LastOf
  <2>2. k \in DOMAIN log /\ log[k].applied
    BY <2>1 DEF C!AppliedIn
  <2>3. ASSUME NEW i \in DOMAIN log, log[i].applied
        PROVE  log[i].message.sequence <= log[k].message.sequence
    <3>1. i \in C!AppliedIn(log)
      BY <2>3 DEF C!AppliedIn
    <3>2. i <= k /\ i \in Nat /\ k \in Nat
      BY <1>2, <2>1, <2>2, <3>1
    <3>3. CASE i = k
      BY <1>3, <2>2, <3>3
    <3>4. CASE i < k
      BY <1>3, <1>7, <2>1, <2>2, <3>1, <3>4
    <3>5. QED
      BY <3>2, <3>3, <3>4
  <2>4. QED
    BY <2>2, <2>3
<1>9. \A i \in DOMAIN log : log[i].applied =>
        programs[q] # None /\ log[i].message.sequence <= programs[q].treasurySequence
  BY <1>5, <1>6, <1>8
<1>10. programs[q] # None =>
         \E k \in DOMAIN log : /\ log[k].applied
                              /\ programs[q].treasurySequence = log[k].message.sequence
  BY <1>6, <1>8
<1>11. QED
  BY <1>9, <1>10 DEF log

\* A program ignores a message no newer than the last it applied.
LEMMA OldIsStale ==
  ASSUME NEW program, program # None, NEW message,
         message.sequence <= program.treasurySequence
  PROVE  TreasuryAnswer(program, message) = "STALE"
BY DEF TreasuryAnswer, TreasuryRefusal

\* A message given up stays without effect: to have one, the program would have to
\* be changed by a message in front of it, and those are settled; a message behind
\* it leaves it out of date.
LEMMA StepRejected ==
  ASSUME Stepped, ClearedInv, RejectedInv
  PROVE  RejectedInv'
<1> SUFFICES ASSUME NEW q \in ProgramIds, InOrder(q)', NEW a \in Of(q)', Rejected(a)'
             PROVE  Powerless(programs'[q], At(a)')
  BY DEF RejectedInv
<1>1. Cleared(a) /\ a \in Sent
  BY RejectedAre DEF Cleared
<1>2. a \in Of(q) /\ At(a)' = At(a) /\ InOrder(q)
  BY <1>1, StepsAre
<1>3. FeedTypes /\ SentInv
  BY DEF Stepped, FeedInv
<1>4. CASE \E c \in Consumers : RefusesHeld(c) /\ inHand[c].at = a
  <2>1. PICK c \in Consumers : RefusesHeld(c) /\ inHand[c].at = a
    BY <1>4
  <2>2. programs' = programs /\ Readable(At(a)) /\ At(a).program = q
    BY <1>2, <2>1 DEF RefusesHeld, Of
  <2>3. IsPermanent(TreasuryAnswer(programs[q], At(a)))
    BY <2>1, <2>2, RefusedIsPowerless
  <2>4. QED
    BY <1>2, <2>2, <2>3 DEF Powerless, IsPermanent
<1>5. CASE Rejected(a)
  <2>1. Powerless(programs[q], At(a))
    BY <1>2, <1>5 DEF RejectedInv
  <2>2. CASE programs'[q] = programs[q]
    BY <1>2, <2>1, <2>2
  <2>3. CASE \E b \in Of(q) : \E applied \in BOOLEAN : Cleared(b) /\ Records(At(b), applied)
    <3>1. PICK b \in Of(q) : \E applied \in BOOLEAN : Cleared(b) /\ Records(At(b), applied)
      BY <2>3
    <3>2. PICK applied \in BOOLEAN : Records(At(b), applied)
      BY <3>1
    <3>3. At(b).program = q
      BY DEF Of
    <3>4. CASE applied = FALSE
      <4>1. programs'[q] = programs[q]
        BY <3>2, <3>3, <3>4 DEF Records
      <4>2. QED
        BY <2>2, <4>1
    <3>5. CASE applied = TRUE
      <4>1. /\ ~ Service!EventRecorded(At(b).event)
            /\ ~ Powerless(programs[q], At(b))
            /\ programs'[q] # None /\ programs'[q].treasurySequence = At(b).sequence
        BY <3>2, <3>3, <3>5 DEF Records, Powerless
      <4>2. ~ Rejected(b)
        BY <1>2, <4>1 DEF RejectedInv
      <4>3. b \notin parked
        BY <4>2 DEF Rejected
      <4>4. ~ (b[2] < a[2])
        BY <1>1, <1>2, <1>3, <4>1, <4>3, BeforeCleared
      <4>5. a # b
        BY <1>5, <4>2
      <4>6. a[2] < b[2]
        BY <1>2, <1>3, <4>4, <4>5, OrderIs
      <4>7. At(a).sequence <= programs'[q].treasurySequence
        BY <1>2, <1>3, <4>1, <4>6, OrderIs
      <4>8. TreasuryAnswer(programs'[q], At(a)) = "STALE"
        BY <4>1, <4>7, OldIsStale
      <4>9. QED
        BY <1>2, <4>8 DEF Powerless
    <3>6. QED
      BY <3>4, <3>5
  <2>4. QED
    BY <2>2, <2>3, ProgramSteps
<1>6. QED
  BY <1>4, <1>5, RejectedAre


\* A message applied is not given up when it is delivered again: it is out of date,
\* or its event id is known.
LEMMA StepAppliedNotRejected ==
  ASSUME Stepped, C!DecidedInv, ClearedInv, RejectedInv, AppliedNotRejected
  PROVE  AppliedNotRejected'
<1> SUFFICES ASSUME NEW q \in ProgramIds, InOrder(q)',
                    NEW i \in DOMAIN treasuryEvents'[q], treasuryEvents'[q][i].applied,
                    NEW a \in Of(q)', Rejected(a)'
             PROVE  At(a)' # treasuryEvents'[q][i].message
  BY DEF AppliedNotRejected
<1>1. Cleared(a) /\ a \in Sent
  BY RejectedAre DEF Cleared
<1>2. a \in Of(q) /\ At(a)' = At(a) /\ InOrder(q)
  BY <1>1, StepsAre
<1>3. FeedTypes
  BY DEF Stepped, FeedInv
<1>4. CASE Rejected(a)
  <2>1. CASE i \in DOMAIN treasuryEvents[q] /\ treasuryEvents'[q][i] = treasuryEvents[q][i]
    BY <1>2, <1>4, <2>1 DEF AppliedNotRejected
  <2>2. CASE \E b \in Of(q) : \E applied \in BOOLEAN : Cleared(b) /\ Records(At(b), applied)
    <3>1. PICK b \in Of(q) : \E applied \in BOOLEAN : Cleared(b) /\ Records(At(b), applied)
      BY <2>2
    <3>2. PICK applied \in BOOLEAN : Records(At(b), applied)
      BY <3>1
    <3>3. CASE treasuryEvents'[q][i].message = At(b) /\ treasuryEvents'[q][i].applied = applied
      <4>1. At(b).program = q /\ applied
        BY <3>3 DEF Of
      <4>2. ~ Powerless(programs[q], At(b))
        BY <3>2, <4>1 DEF Records, Powerless
      <4>3. Powerless(programs[q], At(a))
        BY <1>2, <1>4 DEF RejectedInv
      <4>4. QED
        BY <1>2, <3>3, <4>2, <4>3
    <3>4. \A r \in ProgramIds : \A j \in DOMAIN treasuryEvents'[r] :
              \/ j \in DOMAIN treasuryEvents[r] /\ treasuryEvents'[r][j] = treasuryEvents[r][j]
              \/ /\ r = At(b).program
                 /\ treasuryEvents'[r][j].message = At(b)
                 /\ treasuryEvents'[r][j].applied = applied
      BY <1>3, <3>2, RowsRecorded
    <3>5. \/ i \in DOMAIN treasuryEvents[q] /\ treasuryEvents'[q][i] = treasuryEvents[q][i]
          \/ treasuryEvents'[q][i].message = At(b) /\ treasuryEvents'[q][i].applied = applied
      BY <3>4
    <3>6. QED
      BY <2>1, <3>3, <3>5
  <2>3. QED
    BY <2>1, <2>2, ProgramSteps
<1>5. CASE \E c \in Consumers : RefusesHeld(c) /\ inHand[c].at = a
  <2>1. PICK c \in Consumers : RefusesHeld(c) /\ inHand[c].at = a
    BY <1>5
  <2>2. /\ UNCHANGED <<programs, treasuryEvents>>
        /\ Readable(At(a)) /\ At(a).program = q
    BY <1>2, <2>1 DEF RefusesHeld, Of
  <2>3. IsPermanent(TreasuryAnswer(programs[q], At(a)))
    BY <2>1, <2>2, RefusedIsPowerless
  <2>4. /\ programs[q] # None
        /\ treasuryEvents[q][i].message.sequence <= programs[q].treasurySequence
    BY <1>3, <2>2, NewestApplied
  <2>5. TreasuryAnswer(programs[q], treasuryEvents[q][i].message) = "STALE"
    BY <2>4, OldIsStale
  <2>6. QED
    BY <1>2, <2>2, <2>3, <2>5 DEF IsPermanent
<1>6. QED
  BY <1>4, <1>5, RejectedAre

\* What is dead-lettered was given up.
LEMMA RejectedImplies == AppliedNotRejected => ParkedNeverApplied
BY DEF AppliedNotRejected, ParkedNeverApplied, Rejected

-----------------------------------------------------------------------------
(* Messages that are ignored.                                              *)

\* A message is ignored for a newer one that was recorded; in order, that one is
\* behind it, so that it was settled before, and not by being recorded.
LEMMA StepNothingIgnored ==
  ASSUME Stepped, C!DecidedInv, ClearedInv, InOrderNothingIgnored
  PROVE  InOrderNothingIgnored'
<1> SUFFICES ASSUME NEW q \in ProgramIds, InOrder(q)',
                    NEW i \in DOMAIN treasuryEvents'[q], NEW a \in Of(q)',
                    At(a)' = treasuryEvents'[q][i].message, ~ treasuryEvents'[q][i].applied
             PROVE  a \in parked'
  BY DEF InOrderNothingIgnored
<1>1. FeedTypes /\ SentInv /\ FeedTypes' /\ SentInv' /\ parked \subseteq parked'
  BY DEF Stepped, FeedInv, Keeps
<1>2. InOrder(q)
  BY StepsAre
<1>3. ASSUME NEW d \in Of(q), At(d) = treasuryEvents'[q][i].message
      PROVE  a = d
  <2>1. d \in Of(q)' /\ At(d)' = At(a)'
    BY <1>3, StepsAre DEF Of
  <2>2. a \in Partitions \X (1..MaxSent) /\ d \in Partitions \X (1..MaxSent)
    BY <2>1 DEF Of, Sent
  <2>3. /\ a[2] \in Nat /\ a = <<a[1], a[2]>>
        /\ d[2] \in Nat /\ d = <<d[1], d[2]>>
    BY <2>2, FeedAssumption
  <2>4. a[1] = d[1] /\ ~ (a[2] < d[2]) /\ ~ (d[2] < a[2])
    BY <2>1 DEF InOrder
  <2>5. a[2] = d[2]
    BY <2>3, <2>4
  <2>6. QED
    BY <2>3, <2>4, <2>5
<1>4. CASE i \in DOMAIN treasuryEvents[q] /\ treasuryEvents'[q][i] = treasuryEvents[q][i]
  <2>1. PICK d \in Of(q) : At(d) = treasuryEvents[q][i].message
    BY <1>4 DEF ClearedInv, RowsCleared
  <2>2. a \in Of(q) /\ At(a) = treasuryEvents[q][i].message
    BY <1>3, <1>4, <2>1
  <2>3. a \in parked
    BY <1>2, <1>4, <2>2 DEF InOrderNothingIgnored
  <2>4. QED
    BY <1>1, <2>3
<1>5. CASE \E b \in Of(q) : \E applied \in BOOLEAN : Cleared(b) /\ Records(At(b), applied)
  <2>1. PICK b \in Of(q) : \E applied \in BOOLEAN : Cleared(b) /\ Records(At(b), applied)
    BY <1>5
  <2>2. PICK applied \in BOOLEAN : Records(At(b), applied)
    BY <2>1
  <2>3. CASE treasuryEvents'[q][i].message = At(b) /\ treasuryEvents'[q][i].applied = applied
    <3>1. a = b /\ At(b).program = q /\ ~ applied
      BY <1>3, <2>3 DEF Of
    <3>2. /\ ~ Service!EventRecorded(At(b).event)
          /\ programs[q] # None /\ At(b).sequence <= programs[q].treasurySequence
      BY <2>2, <3>1 DEF Records
    <3>3. PICK k \in DOMAIN treasuryEvents[q] :
            programs[q].treasurySequence = treasuryEvents[q][k].message.sequence
      BY <1>1, <3>2, NewestApplied
    <3>4. PICK d \in Of(q) : At(d) = treasuryEvents[q][k].message /\ Cleared(d)
      BY DEF ClearedInv, RowsCleared
    <3>5. Service!EventRecorded(At(d).event)
      BY <3>4 DEF Service!EventRecorded
    <3>6. b[2] <= d[2] /\ b[2] # d[2]
      BY <1>1, <1>2, <3>2, <3>3, <3>4, <3>5, OrderIs
    <3>7. b[2] < d[2]
      BY <1>1, <1>2, <3>6, OrderIs
    <3>8. b \in parked
      BY <1>1, <1>2, <3>2, <3>4, <3>7, BeforeCleared
    <3>9. QED
      BY <1>1, <3>1, <3>8
  <2>4. QED
    BY <1>1, <1>4, <2>2, <2>3, RowsRecorded
<1>6. QED
  BY <1>4, <1>5, ProgramSteps


-----------------------------------------------------------------------------
(* The limits that treasury sends.                                         *)

\* A limit is given up only if the program cannot have it.
LimitsRejected ==
  \A q \in ProgramIds : \A a \in Of(q) :
    Rejected(a) /\ At(a).limit # None =>
      \/ At(a).limit.minor <= 0
      \/ programs[q] # None /\ At(a).limit.currency # programs[q].currency

\* A limit applied is positive, and in the program's currency.
LimitsTaken ==
  \A q \in ProgramIds : \A i \in DOMAIN treasuryEvents[q] :
    LET row == treasuryEvents[q][i]
    IN  row.applied /\ row.message.limit # None =>
          /\ programs[q] # None
          /\ row.message.limit.currency = programs[q].currency
          /\ ~ (row.message.limit.minor <= 0)

\* A program, once open, stays open in its currency.
LEMMA CurrencyStays ==
  ASSUME Stepped, ClearedInv, NEW q \in ProgramIds, programs[q] # None
  PROVE  programs'[q] # None /\ programs'[q].currency = programs[q].currency
<1>1. CASE programs'[q] = programs[q]
  BY <1>1
<1>2. ASSUME NEW b \in Of(q), NEW applied \in BOOLEAN, Records(At(b), applied)
      PROVE  programs'[q] # None /\ programs'[q].currency = programs[q].currency
  <2>1. At(b).program = q
    BY DEF Of
  <2>2. QED
    BY <1>2, <2>1 DEF Records
<1>3. QED
  BY <1>1, <1>2, ProgramSteps

\* A limit refused for good is not positive, or not in the program's currency.
LEMMA PermanentRefusals ==
  ASSUME NEW program, NEW message, IsPermanent(TreasuryAnswer(program, message)),
         message.limit # None
  PROVE  \/ message.limit.minor <= 0
         \/ program # None /\ message.limit.currency # program.currency
BY DEF IsPermanent, TreasuryAnswer, TreasuryRefusal

\* What a program cannot have when it is refused, it cannot have later.
LEMMA StepLimitsRejected ==
  ASSUME Stepped, ClearedInv, LimitsRejected
  PROVE  LimitsRejected'
<1> SUFFICES ASSUME NEW q \in ProgramIds, NEW a \in Of(q)', Rejected(a)', At(a)'.limit # None
             PROVE  \/ At(a)'.limit.minor <= 0
                    \/ programs'[q] # None /\ At(a)'.limit.currency # programs'[q].currency
  BY DEF LimitsRejected
<1>1. Cleared(a) /\ a \in Sent
  BY RejectedAre DEF Cleared
<1>2. a \in Of(q) /\ At(a)' = At(a)
  BY <1>1, StepsAre
<1>3. CASE Rejected(a)
  <2>1. \/ At(a).limit.minor <= 0
        \/ programs[q] # None /\ At(a).limit.currency # programs[q].currency
    BY <1>2, <1>3 DEF LimitsRejected
  <2>2. QED
    BY <1>2, <2>1, CurrencyStays
<1>4. CASE \E c \in Consumers : RefusesHeld(c) /\ inHand[c].at = a
  <2>1. PICK c \in Consumers : RefusesHeld(c) /\ inHand[c].at = a
    BY <1>4
  <2>2. programs' = programs /\ Readable(At(a)) /\ At(a).program = q
    BY <1>2, <2>1 DEF RefusesHeld, Of
  <2>3. IsPermanent(TreasuryAnswer(programs[q], At(a)))
    BY <2>1, <2>2, RefusedIsPowerless
  <2>4. QED
    BY <1>2, <2>2, <2>3, PermanentRefusals
<1>5. QED
  BY <1>3, <1>4, RejectedAre

\* What it took stays in its currency.
LEMMA StepLimitsTaken ==
  ASSUME Stepped, ClearedInv, LimitsTaken
  PROVE  LimitsTaken'
<1> SUFFICES ASSUME NEW q \in ProgramIds, NEW i \in DOMAIN treasuryEvents'[q],
                    NEW message, message = treasuryEvents'[q][i].message,
                    treasuryEvents'[q][i].applied, message.limit # None
             PROVE  /\ programs'[q] # None
                    /\ message.limit.currency = programs'[q].currency
                    /\ ~ (message.limit.minor <= 0)
  BY DEF LimitsTaken
<1>1. CASE i \in DOMAIN treasuryEvents[q] /\ treasuryEvents'[q][i] = treasuryEvents[q][i]
  <2>1. /\ programs[q] # None
        /\ message.limit.currency = programs[q].currency
        /\ ~ (message.limit.minor <= 0)
    BY <1>1 DEF LimitsTaken
  <2>2. QED
    BY <2>1, CurrencyStays
<1>2. ASSUME NEW b \in Of(q), NEW applied \in BOOLEAN, Records(At(b), applied)
      PROVE  /\ programs'[q] # None
             /\ message.limit.currency = programs'[q].currency
             /\ ~ (message.limit.minor <= 0)
  <2>1. \A r \in ProgramIds : \A j \in DOMAIN treasuryEvents'[r] :
          \/ j \in DOMAIN treasuryEvents[r] /\ treasuryEvents'[r][j] = treasuryEvents[r][j]
          \/ /\ r = At(b).program
             /\ treasuryEvents'[r][j].message = At(b)
             /\ treasuryEvents'[r][j].applied = applied
    BY <1>2, RowsRecorded DEF Stepped, FeedInv
  <2>2. CASE message = At(b) /\ treasuryEvents'[q][i].applied = applied
    <3>1. At(b).program = q /\ applied = TRUE
      BY <2>2 DEF Of
    <3>2. QED
      BY <1>2, <2>2, <3>1 DEF Records
  <2>3. \/ i \in DOMAIN treasuryEvents[q] /\ treasuryEvents'[q][i] = treasuryEvents[q][i]
        \/ message = At(b) /\ treasuryEvents'[q][i].applied = applied
    BY <2>1
  <2>4. QED
    BY <1>1, <2>2, <2>3
<1>3. QED
  BY <1>1, <1>2, ProgramSteps


\* When every message of a program in order is settled, its last limit that the
\* program can have is the one it has.
LEMMA LimitsImply ==
  FeedInv /\ SentInv /\ C!DecidedInv /\ ClearedInv /\ NothingLost /\ InOrderNothingIgnored
    /\ LimitsRejected /\ LimitsTaken => FollowsTreasury
<1> SUFFICES ASSUME FeedInv, SentInv, C!DecidedInv, ClearedInv, NothingLost,
                    InOrderNothingIgnored, LimitsRejected, LimitsTaken,
                    NEW q \in ProgramIds, InOrder(q), programs[q] # None,
                    \A place \in Of(q) :
                      SentOnce(At(place)) /\ place[2] <= committed[place[1]]
             PROVE  programs[q].creditLimit =
                      At(Latest(LimitsFor(q, programs[q].currency))).limit.minor
  BY DEF FollowsTreasury
<1> DEFINE log == treasuryEvents[q]
           limits == LimitsFor(q, programs[q].currency)
<1>1. FeedTypes
  BY DEF FeedInv
<1>2. /\ log \in Seq(TreasuryRow) /\ DOMAIN log = 1..Len(log)
      /\ \A i \in DOMAIN log : i \in Nat
  BY <1>1 DEF FeedTypes
<1>3. C!TreasuryDecides(programs[q], log)
  BY DEF C!DecidedInv
<1>4. PICK k : /\ C!LastOf(k, C!NamingLimit(log))
               /\ programs[q].creditLimit = log[k].message.limit.minor
  BY <1>3 DEF C!TreasuryDecides
<1>5. /\ k \in DOMAIN log /\ log[k].applied /\ log[k].message.limit # None
      /\ \A i \in DOMAIN log : log[i].applied /\ log[i].message.limit # None => i <= k
  BY <1>4 DEF C!LastOf, C!NamingLimit, C!AppliedIn
<1>6. PICK d \in Of(q) : At(d) = log[k].message /\ Cleared(d)
  BY <1>5 DEF ClearedInv, RowsCleared
<1>7. ASSUME NEW b \in limits
      PROVE  b \in Of(q) /\ b[2] <= d[2]
  <2>1. /\ b \in Of(q) /\ At(b).limit # None
        /\ At(b).limit.currency = programs[q].currency /\ At(b).limit.minor > 0
    BY DEF LimitsFor
  <2>2. b \in Sent
    BY <2>1 DEF Of
  <2>3. /\ b[1] \in Partitions /\ b[2] \in Nat /\ b[2] \in 1..Len(topic[b[1]])
        /\ b = <<b[1], b[2]>> /\ At(b) \in TreasuryMessage
    BY <1>1, <2>1, <2>2, PlacesAre DEF Of
  <2>4. Settled(b)
    <3>1. committed[b[1]] \in Nat /\ b[2] <= committed[b[1]]
      BY <2>1, <2>3 DEF FeedInv, Offsets
    <3>2. b[2] \in 1..committed[b[1]]
      BY <1>1, <2>2, <2>3, <3>1, PlacesAre
    <3>3. QED
      BY <2>3, <3>2 DEF NothingLost
  <2>5. ~ (At(b).limit.minor <= 0)
    <3>1. At(b).limit \in Money
      BY <2>1, <2>3, ConstantsAssumption DEF TreasuryMessage
    <3>2. At(b).limit.minor \in Int
      BY <3>1, MaxMinorUnitsAssumption DEF Money
    <3>3. QED
      BY <2>1, <3>2
  <2>6. b \notin parked
    BY <2>1, <2>5 DEF LimitsRejected, Rejected
  <2>7. Recorded(At(b)) /\ SentOnce(At(b))
    BY <2>1, <2>4, <2>6 DEF Settled
  <2>8. PICK r \in ProgramIds : \E i \in DOMAIN treasuryEvents[r] :
          b \in Of(r) /\ At(b) = treasuryEvents[r][i].message
    BY <2>2, <2>7, RecordedItself DEF ClearedInv
  <2>9. r = q
    BY <2>1, <2>8 DEF Of
  <2>10. PICK i \in DOMAIN log : At(b) = log[i].message
    BY <2>8, <2>9
  <2>11. log[i].applied
    BY <2>1, <2>6, <2>10 DEF InOrderNothingIgnored
  <2>12. i <= k /\ i \in Nat /\ k \in Nat
    BY <1>2, <1>5, <2>1, <2>10, <2>11
  <2>13. At(b).sequence <= At(d).sequence
    <3>1. At(b).sequence \in Nat
      BY <1>1, <2>1, OrderIs
    <3>2. CASE i = k
      BY <1>6, <2>10, <3>1, <3>2
    <3>3. CASE i < k
      <4>1. i \in C!AppliedIn(log) /\ k \in C!AppliedIn(log)
        BY <1>5, <2>10, <2>11 DEF C!AppliedIn
      <4>2. log[i].message.sequence < log[k].message.sequence
        BY <1>3, <3>3, <4>1 DEF C!TreasuryDecides, C!AppliedInOrder
      <4>3. At(d).sequence \in Nat
        BY <1>1, <2>1, OrderIs
      <4>4. QED
        BY <1>6, <2>10, <3>1, <4>2, <4>3
    <3>4. QED
      BY <2>12, <3>2, <3>3
  <2>14. QED
    BY <1>1, <2>1, <2>13, OrderIs
<1>8. d \in limits
  <2>1. /\ log[k].message.limit.currency = programs[q].currency
        /\ ~ (log[k].message.limit.minor <= 0)
    BY <1>5 DEF LimitsTaken
  <2>2. At(d) \in TreasuryMessage
    BY <1>1, OrderIs
  <2>3. At(d).limit \in Money
    BY <1>5, <1>6, <2>2, ConstantsAssumption DEF TreasuryMessage
  <2>4. At(d).limit.minor \in Int
    BY <2>3, MaxMinorUnitsAssumption DEF Money
  <2>5. QED
    BY <1>5, <1>6, <2>1, <2>4 DEF LimitsFor
<1> HIDE DEF limits
<1>9. Latest(limits) \in limits /\ d[2] <= Latest(limits)[2]
  BY <1>7, <1>8 DEF Latest
<1>10. Latest(limits) = d
  <2>1. Latest(limits) \in Of(q) /\ Latest(limits)[2] <= d[2]
    BY <1>7, <1>9
  <2>2. Latest(limits)[2] = d[2]
    BY <1>1, <1>9, <2>1, OrderIs
  <2>3. QED
    BY <1>1, <2>1, <2>2, OrderIs
<1>11. QED
  BY <1>4, <1>6, <1>10 DEF limits


-----------------------------------------------------------------------------
(* The theorems.                                                           *)

\* What every step keeps, all together.
WholeInv ==
  /\ FeedInv /\ SentInv /\ C!TypeInv /\ C!DecidedInv
  /\ ClearedInv /\ RejectedInv /\ AppliedNotRejected /\ InOrderNothingIgnored
  /\ LimitsRejected /\ LimitsTaken

\* At the start nothing was sent.
LEMMA InitWhole == Init => WholeInv
<1> SUFFICES ASSUME Init PROVE WholeInv
  OBVIOUS
<1>1. FeedInv
  BY InitFeed
<1>2. \A p \in Partitions : Len(topic[p]) = 0
  BY DEF Init
<1>3. Sent = {}
  BY <1>2 DEF Sent
<1>4. SentInv
  BY <1>2, <1>3, FS_EmptySet, FeedAssumption DEF SentInv
<1>5. C!Init
  BY DEF Init, Service!Init, C!Init
<1>6. C!TypeInv
  BY <1>5, Assumed, C!InitTypes
<1>7. C!DecidedInv
  BY <1>5 DEF C!Init, C!DecidedInv, C!TreasuryDecides, C!AppliedInOrder, C!IgnoredForNewer,
              C!AppliedIn
<1>8. \A q \in ProgramIds : DOMAIN treasuryEvents[q] = {}
  BY DEF Init, Service!Init
<1>9. \A c \in Consumers : inHand[c] = None
  BY DEF Init
<1>10. ClearedInv
  BY <1>8, <1>9 DEF Init, ClearedInv, HeldCleared, ParkedCleared, RowsCleared
<1>11. RejectedInv /\ AppliedNotRejected /\ InOrderNothingIgnored /\ LimitsRejected /\ LimitsTaken
  BY <1>3, <1>8 DEF RejectedInv, AppliedNotRejected, InOrderNothingIgnored,
                    LimitsRejected, LimitsTaken, Of
<1>12. QED
  BY <1>1, <1>4, <1>6, <1>7, <1>10, <1>11 DEF WholeInv

\* Every step keeps the invariant.
LEMMA StepWhole == WholeInv /\ [Next]_vars => WholeInv'
<1> SUFFICES ASSUME WholeInv, [Next]_vars PROVE WholeInv'
  OBVIOUS
<1>1. FeedInv' /\ SentInv' /\ Keeps
  BY FeedStep, StepSent, StepKeeps DEF WholeInv
<1>2. Stepped
  BY <1>1 DEF WholeInv, Stepped
<1>3. C!Next \/ UNCHANGED C!vars
  BY StepKinds DEF WholeInv, Sends, Send, tables, RecordsHeld, RefusesHeld, MovesOnly, C!vars
<1>4. C!TypeInv'
  BY <1>3, Assumed, C!NextTypes DEF WholeInv
<1>5. C!DecidedInv'
  <2>1. UNCHANGED C!vars => C!DecidedInv'
    BY DEF WholeInv, C!vars, C!DecidedInv
  <2>2. C!Next => C!DecidedInv'
    BY Assumed, C!NextDecided DEF WholeInv
  <2>3. QED
    BY <1>3, <2>1, <2>2
<1>6. ClearedInv' /\ RejectedInv' /\ AppliedNotRejected' /\ InOrderNothingIgnored'
  BY <1>2, StepCleared, StepRejected, StepAppliedNotRejected, StepNothingIgnored DEF WholeInv
<1>7. LimitsRejected' /\ LimitsTaken'
  BY <1>2, StepLimitsRejected, StepLimitsTaken DEF WholeInv
<1>8. QED
  BY <1>1, <1>4, <1>5, <1>6, <1>7 DEF WholeInv

\* The invariant.
LEMMA WholeInvariant == Spec => []WholeInv
<1>1. Init => WholeInv
  BY InitWhole
<1>2. WholeInv /\ [Next]_vars => WholeInv'
  BY StepWhole
<1>3. QED
  BY <1>1, <1>2, PTL DEF Spec

\* The tables, the topic, the offsets and what the consumers have in hand keep their
\* types: among them that no offset passes the end of its partition, and that nothing
\* is in hand or dead-lettered that treasury did not send.
THEOREM FeedTypesKept == Spec => []TypeOK
<1>1. WholeInv => TypeOK
  <2> SUFFICES ASSUME WholeInv PROVE TypeOK
    OBVIOUS
  <2>1. Service!TypeOK
    BY SameOperators DEF WholeInv, C!TypeInv
  <2>2. FeedTypes /\ Offsets
    BY DEF WholeInv, FeedInv
  <2>3. \A p \in Partitions : committed[p] \in 0..position[p] /\ position[p] \in 0..Len(topic[p])
    <3> SUFFICES ASSUME NEW p \in Partitions
                 PROVE  committed[p] \in 0..position[p] /\ position[p] \in 0..Len(topic[p])
      OBVIOUS
    <3>1. /\ committed[p] \in Nat /\ position[p] \in Nat /\ Len(topic[p]) \in Nat
          /\ committed[p] <= position[p] /\ position[p] <= Len(topic[p])
      BY <2>2 DEF Offsets, FeedTypes
    <3>2. QED
      BY <3>1
  <2>4. inHand \in [Consumers -> [at : Sent, step : {"applying", "parking"}] \union {None}]
    <3> SUFFICES ASSUME NEW c \in Consumers, inHand[c] # None
                 PROVE  inHand[c] \in [at : Sent, step : {"applying", "parking"}]
      BY <2>2 DEF FeedTypes
    <3>1. inHand[c].at \in Sent
      BY DEF WholeInv, ClearedInv, HeldCleared, Cleared
    <3>2. inHand[c] \in [at : Partitions \X Nat, step : {"applying", "parking"}]
      BY <2>2 DEF FeedTypes
    <3>3. QED
      BY <3>1, <3>2
  <2>5. parked \subseteq Sent
    BY DEF WholeInv, ClearedInv, ParkedCleared, Cleared
  <2>6. QED
    BY <2>1, <2>2, <2>3, <2>4, <2>5 DEF TypeOK, FeedTypes
<1>2. QED
  BY <1>1, WholeInvariant, PTL

\* No message is processed before the ones in front of it are settled.
THEOREM OrderKept == Spec => []NothingOvertakes
<1>1. WholeInv => NothingOvertakes
  BY ClearedImplies DEF WholeInv
<1>2. QED
  BY <1>1, WholeInvariant, PTL

\* No redelivery makes a message that was sent in order look out of date.
THEOREM NothingIgnored == Spec => []InOrderNothingIgnored
<1>1. WholeInv => InOrderNothingIgnored
  BY DEF WholeInv
<1>2. QED
  BY <1>1, WholeInvariant, PTL

\* A message that was sent in order and dead-lettered takes no effect, ever.
THEOREM ParkedForGood == Spec => []ParkedNeverApplied
<1>1. WholeInv => ParkedNeverApplied
  BY RejectedImplies DEF WholeInv
<1>2. QED
  BY <1>1, WholeInvariant, PTL

\* Once treasury's messages for a program are all passed, the program has the last
\* limit sent that it can have.
THEOREM LimitsFollow == Spec => []FollowsTreasury
<1>1. WholeInv /\ NothingLost => FollowsTreasury
  BY LimitsImply DEF WholeInv
<1>2. QED
  BY <1>1, WholeInvariant, NoMessageLost, PTL

\* Whatever the feed does, it changes the tables by the commands of Capacity only.
THEOREM FeedRunsCommands == Spec => Service!Spec
<1>1. Init => Service!Init
  BY DEF Init
<1>2. WholeInv /\ [Next]_vars => [Service!Next]_(Service!vars)
  <2> SUFFICES ASSUME WholeInv, [Next]_vars, ~ UNCHANGED Service!vars PROVE Service!Next
    OBVIOUS
  <2>1. PICK c \in Consumers : Apply(c) \/ ApplyUnacknowledged(c)
    BY DEF Service!vars, vars, tables, Next, Send, Assign, Deliver, AutoCommit, Stop, Crash,
           Process, Handle, IgnoreDuplicate, Refuse, FailTemporarily, Park, ParkFails
  <2>2. /\ inHand[c] # None /\ Readable(At(inHand[c].at)) /\ Changes(At(inHand[c].at))
    BY <2>1 DEF Apply, ApplyUnacknowledged, Working
  <2>3. At(inHand[c].at) \in TreasuryMessage
    BY <2>2, InHandIsMessage DEF WholeInv, FeedInv
  <2>4. At(inHand[c].at) \in Service!TreasuryMessage
    BY <2>3 DEF TreasuryMessage, Service!TreasuryMessage, ProgramStatuses, Service!ProgramStatuses
  <2>5. QED
    BY <2>2, <2>4 DEF Changes, Service!Treasury, Service!Next
<1>3. QED
  BY <1>1, <1>2, WholeInvariant, PTL DEF Spec, Service!Spec
=============================================================================
