-------------------- MODULE CapacityTransactionsProofs --------------------
(***************************************************************************)
(* Proofs about CapacityTransactions, for every set of workers and of      *)
(* commands, in every interleaving and with every failure.                 *)
(*                                                                         *)
(* Each transaction is shown to change the tables as one command of        *)
(* Capacity does, when it commits.  What is proved of Capacity then holds  *)
(* of the tables while any number of transactions run.                     *)
(***************************************************************************)
EXTENDS CapacityTransactions, TLAPS

\* The theorems about the commands, one at a time, over the same tables.
P == INSTANCE CapacityHistoryProofs

-----------------------------------------------------------------------------
(* What is so between any two statements of the transactions.              *)

\* A worker's state, and that of all of them.
WorkerStates ==
  [step : Steps, command : Commands \union {None},
   rate : ExchangeRate \union {None, Unavailable},
   seen : ProgramRow \union {None}, writes : Writes \union {None},
   retried : BOOLEAN, answer : Answers \union {None}]

WorkTyped == work \in [Workers -> WorkerStates]

\* A handler that has decided: its answer and what it writes follow from the rows
\* given.
ReserveDecided(s, program, rows) ==
  LET request == s.command.request
  IN  /\ s.command.kind = "RESERVE" /\ s.step \notin {"inserting", "recording"}
      /\ s.answer = "CREATED"
      /\ ReserveAnswer(program, rows, request, s.rate) = "CREATED"
      /\ s.writes = ReserveWrites(program, rows, request, s.rate)

RepayDecided(s, program, rows, ledger) ==
  LET request == s.command.request
  IN  /\ s.command.kind = "REPAY" /\ s.step \notin {"inserting", "recording"}
      /\ s.answer = "APPLIED"
      /\ RepayAnswer(program, rows, ledger, request) = "APPLIED"
      /\ s.writes = RepayWrites(program, rows, request)

TreasuryDecided(s, program) ==
  LET message == s.command.request
  IN  /\ s.command.kind = "TREASURY"
      /\ TreasuryAnswer(program, message) = s.answer
      /\ \/ /\ s.answer = "CREATED" /\ s.step # "saving"
            /\ s.writes = OpenWrites(message)
         \/ /\ s.answer = "APPLIED" /\ s.step # "inserting"
            /\ s.writes = UpdateWrites(program, message)
         \/ /\ s.answer = "STALE" /\ s.step \notin {"inserting", "saving"}
            /\ s.writes = StaleWrites(message)

\* Whether a worker's transaction holds its program's row.
Holds(s) ==
  /\ s.step # "idle"
  /\ s.seen # None \/ s.step \in {"recording", "committing"}

\* What a worker knows, given its program's rows as they are: the row it holds is
\* the row it has seen, and what it decided still follows.
Sound(s, program, rows, ledger) ==
  s.step # "idle" =>
    /\ s.command \in Commands
    /\ s.command.kind = "RESERVE" =>
         program # None /\ s.rate \in RatesInto(program.currency, s.command.request.amount)
    /\ s.retried => program # None
    /\ s.step = "locking" => s.seen = None
    /\ s.step # "locking" /\ (s.command.kind = "RESERVE" \/ s.retried) => s.seen # None
    /\ s.step = "inserting" => s.seen = None /\ TreasuryDecided(s, None)
    /\ s.step = "saving" => s.seen # None
    /\ Holds(s) => s.seen = program
    /\ s.step \in {"saving", "recording", "committing"} =>
         \/ ReserveDecided(s, program, rows)
         \/ RepayDecided(s, program, rows, ledger)
         \/ TreasuryDecided(s, program)

SoundAt(s, p) == Sound(s, programs[p], reservations[p], movements[p])

WorkersSound == \A w \in Workers : SoundAt(work[w], Program(w))

\* A program's row is held by one transaction at a time.
RowsApart ==
  \A v, w \in Workers : Holds(work[v]) /\ Holds(work[w]) /\ Program(v) = Program(w) => v = w

\* Of the transactions about to commit, one records an event id, and none an id
\* that is recorded already.
Records(s) == s.step = "committing" /\ s.command.kind = "TREASURY"

\* The event id of a worker's message, and whether the record has one.
EventOf(s) == s.command.request.event

EventsApart ==
  \A v, w \in Workers :
    Records(work[v]) /\ Records(work[w]) /\ EventOf(work[v]) = EventOf(work[w]) => v = w

RecordedIn(log, event) ==
  \E p \in ProgramIds : \E i \in DOMAIN log[p] : log[p][i].message.event = event

EventsNew ==
  \A w \in Workers : Records(work[w]) => ~ RecordedIn(treasuryEvents, EventOf(work[w]))

\* Rows and workers are typed; what each worker decided holds of the rows it
\* locked; neither a row nor an event id is held twice.
TransactionInv ==
  P!TypeInv /\ WorkTyped /\ WorkersSound /\ RowsApart /\ EventsApart /\ EventsNew

-----------------------------------------------------------------------------
(* The operators of Capacity are the ones the transactions use.            *)

\* The assumptions made of the constants are those of Capacity.
LEMMA Assumed == P!MaxMinorUnitsAssumption /\ P!ConstantsAssumption /\ P!NullAssumption
<1>1. P!MaxMinorUnitsAssumption
  BY MaxMinorUnitsAssumption DEF P!MaxMinorUnitsAssumption
<1>2. /\ P!Money = Money /\ P!ExchangeRate = ExchangeRate
      /\ P!ProgramRow = ProgramRow /\ P!ProgramStatuses = ProgramStatuses
  BY DEF P!Money, Money, P!ExchangeRate, ExchangeRate, P!ProgramRow, ProgramRow,
         P!ProgramStatuses, ProgramStatuses
<1>3. P!ConstantsAssumption
  BY <1>2, ConstantsAssumption DEF P!ConstantsAssumption
<1>4. P!NullAssumption
  BY <1>2, NullAssumption DEF P!NullAssumption
<1>5. QED
  BY <1>1, <1>3, <1>4

\* Requests and rows.
LEMMA SameTypes ==
  /\ P!ReserveRequest = ReserveRequest
  /\ P!RepaymentRequest = RepaymentRequest
  /\ P!TreasuryMessage = TreasuryMessage
  /\ P!ProgramRow = ProgramRow
  /\ P!ProgramStatuses = ProgramStatuses
  /\ P!ReservationRow = ReservationRow
  /\ P!ReservationStatuses = ReservationStatuses
  /\ P!MovementRow = MovementRow
  /\ P!TreasuryRow = TreasuryRow
  /\ P!OutboxEvent = OutboxEvent
  /\ P!ExchangeRate = ExchangeRate
BY DEF P!ReserveRequest, ReserveRequest, P!RepaymentRequest, RepaymentRequest,
       P!TreasuryMessage, TreasuryMessage, P!ProgramRow, ProgramRow,
       P!ProgramStatuses, ProgramStatuses, P!ReservationRow, ReservationRow,
       P!ReservationStatuses, ReservationStatuses, P!MovementRow, MovementRow,
       P!TreasuryRow, TreasuryRow, P!OutboxEvent, OutboxEvent, P!ExchangeRate, ExchangeRate

\* Reserving.
LEMMA SameReserving ==
  /\ \A program, rows, request, rate :
       P!ReserveAnswer(program, rows, request, rate) = ReserveAnswer(program, rows, request, rate)
  /\ \A currency, amount : P!RatesInto(currency, amount) = RatesInto(currency, amount)
  /\ \A amount, rate : P!ToProgramCurrency(amount, rate) = ToProgramCurrency(amount, rate)
  /\ \A invoice, key, amount, rate, toHold :
       P!OpenReservation(invoice, key, amount, rate, toHold) =
         OpenReservation(invoice, key, amount, rate, toHold)
  /\ \A program, reserved : P!WithReserved(program, reserved) = WithReserved(program, reserved)
  /\ \A program : P!Available(program) = Available(program)
  /\ \A id, toHold, program :
       P!ReserveMovement(id, toHold, program) = ReserveMovement(id, toHold, program)
  /\ \A id, program : P!CapacityReserved(id, program) = CapacityReserved(id, program)
BY DEF P!ReserveAnswer, ReserveAnswer, P!Repeated, Repeated, P!ByKey, ByKey,
       P!ActiveFor, ActiveFor, P!ReleasedFor, ReleasedFor, P!SameAmount, SameAmount,
       P!ReserveRefusal, ReserveRefusal, P!RateUsable, RateUsable,
       P!ToProgramCurrency, ToProgramCurrency, P!Convert, Convert,
       P!DivideWithRounding, DivideWithRounding, P!Quotient, Quotient,
       P!RatesInto, RatesInto, P!OpenReservation, OpenReservation,
       P!WithReserved, WithReserved, P!Saved, Saved, P!Available, Available,
       P!ReserveMovement, ReserveMovement, P!CapacityReserved, CapacityReserved

\* Repaying.
LEMMA SameRepaying ==
  /\ \A program, rows, ledger, request :
       P!RepayAnswer(program, rows, ledger, request) = RepayAnswer(program, rows, ledger, request)
  /\ \A rows, invoice : P!ActiveFor(rows, invoice) = ActiveFor(rows, invoice)
  /\ \A rows, invoice : P!ActiveId(rows, invoice) = ActiveId(rows, invoice)
  /\ \A row, request : P!RepaidAmount(row, request) = RepaidAmount(row, request)
  /\ \A row, minor : P!RecordRepayment(row, minor) = RecordRepayment(row, minor)
  /\ \A row : P!Held(row) = Held(row)
  /\ \A program, before, after :
       P!ReleaseFrom(program, before, after) = ReleaseFrom(program, before, after)
  /\ \A id, before, after, program, repayment :
       P!ReleaseMovement(id, before, after, program, repayment) =
         ReleaseMovement(id, before, after, program, repayment)
  /\ \A id, after, program :
       P!CapacityReleased(id, after, program) = CapacityReleased(id, after, program)
  /\ \A before, after : P!SameTerms(before, after) <=> Atomic!SameTerms(before, after)
BY DEF P!RepayAnswer, RepayAnswer, P!RepaymentsRecorded, RepaymentsRecorded,
       P!SameRepayment, SameRepayment, P!ActiveFor, ActiveFor, P!ActiveId, ActiveId,
       P!RepaidAmount, RepaidAmount, P!ReleaseRefusal, ReleaseRefusal,
       P!RepaymentRefusal, RepaymentRefusal, P!Held, Held, P!Outstanding, Outstanding,
       P!RecordRepayment, RecordRepayment, P!ReleasedOnceRepaid, ReleasedOnceRepaid,
       P!Convert, Convert, P!DivideWithRounding, DivideWithRounding, P!Quotient, Quotient,
       P!ReleaseFrom, ReleaseFrom, P!WithReserved, WithReserved, P!Saved, Saved,
       P!ReleaseMovement, ReleaseMovement, P!Available, Available,
       P!CapacityReleased, CapacityReleased, P!SameTerms, Atomic!SameTerms

\* Treasury's messages.
LEMMA SameTreasury ==
  /\ \A program, message : P!TreasuryAnswer(program, message) = TreasuryAnswer(program, message)
  /\ \A message : P!OpenedBy(message) = OpenedBy(message)
  /\ \A program : P!ProgramOpened(program) = ProgramOpened(program)
  /\ \A program, message :
       P!ApplyTreasuryState(program, message) = ApplyTreasuryState(program, message)
  /\ \A program : P!Saved(program) = Saved(program)
  /\ \A before, after : P!TreasuryUpdateEvents(before, after) = TreasuryUpdateEvents(before, after)
  /\ \A event : P!EventRecorded(event) <=> RecordedIn(treasuryEvents, event)
  /\ \A event : Atomic!EventRecorded(event) <=> RecordedIn(treasuryEvents, event)
BY DEF P!TreasuryAnswer, TreasuryAnswer, P!TreasuryRefusal, TreasuryRefusal,
       P!OpenedBy, OpenedBy, P!OpenProgram, OpenProgram, P!ProgramOpened, ProgramOpened,
       P!ApplyTreasuryState, ApplyTreasuryState, P!Saved, Saved,
       P!TreasuryUpdateEvents, TreasuryUpdateEvents,
       P!EventRecorded, Atomic!EventRecorded, RecordedIn

\* The commands of Capacity, one at a time, are the ones that
\* ImplementsAtomicCommands names.
LEMMA SameNext == P!Next => Atomic!Next
BY DEF P!Next, P!Reserve, P!Repay, P!Treasury,
       Atomic!Next, Atomic!Reserve, Atomic!Repay, Atomic!Treasury,
       P!ReserveCapacity, Atomic!ReserveCapacity,
       P!RecordRepaymentFor, Atomic!RecordRepaymentFor,
       P!OpenFromTreasury, Atomic!OpenFromTreasury,
       P!UpdateFromTreasury, Atomic!UpdateFromTreasury,
       P!RecordStale, Atomic!RecordStale,
       P!RecordTreasuryEvent, Atomic!RecordTreasuryEvent,
       P!EventRecorded, Atomic!EventRecorded,
       P!ReserveRequest, Atomic!ReserveRequest,
       P!RepaymentRequest, Atomic!RepaymentRequest,
       P!TreasuryMessage, Atomic!TreasuryMessage,
       P!ProgramStatuses, Atomic!ProgramStatuses,
       P!ReserveAnswer, Atomic!ReserveAnswer, P!Repeated, Atomic!Repeated,
       P!ByKey, Atomic!ByKey, P!ActiveFor, Atomic!ActiveFor,
       P!ReleasedFor, Atomic!ReleasedFor, P!SameAmount, Atomic!SameAmount,
       P!ReserveRefusal, Atomic!ReserveRefusal, P!RateUsable, Atomic!RateUsable,
       P!ToProgramCurrency, Atomic!ToProgramCurrency, P!Convert, Atomic!Convert,
       P!DivideWithRounding, Atomic!DivideWithRounding, P!Quotient, Atomic!Quotient,
       P!RatesInto, Atomic!RatesInto, P!OpenReservation, Atomic!OpenReservation,
       P!WithReserved, Atomic!WithReserved, P!Saved, Atomic!Saved,
       P!Available, Atomic!Available, P!ReserveMovement, Atomic!ReserveMovement,
       P!CapacityReserved, Atomic!CapacityReserved,
       P!RepayAnswer, Atomic!RepayAnswer, P!RepaymentsRecorded, Atomic!RepaymentsRecorded,
       P!SameRepayment, Atomic!SameRepayment, P!ActiveId, Atomic!ActiveId,
       P!RepaidAmount, Atomic!RepaidAmount, P!ReleaseRefusal, Atomic!ReleaseRefusal,
       P!RepaymentRefusal, Atomic!RepaymentRefusal, P!Held, Atomic!Held,
       P!Outstanding, Atomic!Outstanding, P!RecordRepayment, Atomic!RecordRepayment,
       P!ReleasedOnceRepaid, Atomic!ReleasedOnceRepaid, P!ReleaseFrom, Atomic!ReleaseFrom,
       P!ReleaseMovement, Atomic!ReleaseMovement, P!CapacityReleased, Atomic!CapacityReleased,
       P!TreasuryAnswer, Atomic!TreasuryAnswer, P!TreasuryRefusal, Atomic!TreasuryRefusal,
       P!OpenedBy, Atomic!OpenedBy, P!OpenProgram, Atomic!OpenProgram,
       P!ProgramOpened, Atomic!ProgramOpened,
       P!ApplyTreasuryState, Atomic!ApplyTreasuryState,
       P!TreasuryUpdateEvents, Atomic!TreasuryUpdateEvents

\* Both begin with empty tables.
LEMMA SameInit == P!Init <=> Atomic!Init
BY DEF P!Init, Atomic!Init

-----------------------------------------------------------------------------
(* What is written, field by field.                                        *)

\* The rows a transaction writes.
Written(program, id, reservation, added, recorded, events) ==
  [program |-> program, id |-> id, reservation |-> reservation,
   movements |-> added, recorded |-> recorded, events |-> events]

\* Writing the fields of a reservation or a repayment, and those of a message.
WithHold(program, id, reservation, added, events) ==
  [Nothing EXCEPT !.program = program, !.id = id, !.reservation = reservation,
                  !.movements = added, !.events = events]

WithMessage(program, recorded, events) ==
  [Nothing EXCEPT !.program = program, !.recorded = recorded, !.events = events]

\* Nothing else is written, whichever the fields are assigned first.
LEMMA HoldWritten ==
  ASSUME NEW program, NEW id, NEW reservation, NEW added, NEW events
  PROVE  WithHold(program, id, reservation, added, events) =
           Written(program, id, reservation, added, <<>>, events)
<1> DEFINE none == <<>>
<1>1. Nothing = Written(None, 0, None, none, none, none)
  BY DEF Nothing, Written
<1> HIDE DEF none
<1> DEFINE r1 == [Nothing EXCEPT !.program = program]
           r2 == [r1 EXCEPT !.id = id]
           r3 == [r2 EXCEPT !.reservation = reservation]
           r4 == [r3 EXCEPT !.movements = added]
           r5 == [r4 EXCEPT !.events = events]
<1>2. WithHold(program, id, reservation, added, events) = r5
  BY DEF WithHold
<1>3. r1 = Written(program, 0, None, none, none, none)
  BY <1>1 DEF Written
<1> HIDE DEF r1
<1>4. r2 = Written(program, id, None, none, none, none)
  BY <1>3 DEF Written
<1> HIDE DEF r2
<1>5. r3 = Written(program, id, reservation, none, none, none)
  BY <1>4 DEF Written
<1> HIDE DEF r3
<1>6. r4 = Written(program, id, reservation, added, none, none)
  BY <1>5 DEF Written
<1> HIDE DEF r4
<1>7. r5 = Written(program, id, reservation, added, none, events)
  BY <1>6 DEF Written
<1> HIDE DEF r5
<1>8. QED
  BY <1>2, <1>7 DEF none

\* The same of what a message writes.
LEMMA MessageWritten ==
  ASSUME NEW program, NEW recorded, NEW events
  PROVE  WithMessage(program, recorded, events) =
           Written(program, 0, None, <<>>, recorded, events)
<1> DEFINE none == <<>>
<1>1. Nothing = Written(None, 0, None, none, none, none)
  BY DEF Nothing, Written
<1> HIDE DEF none
<1> DEFINE r1 == [Nothing EXCEPT !.program = program]
           r2 == [r1 EXCEPT !.recorded = recorded]
           r3 == [r2 EXCEPT !.events = events]
<1>2. WithMessage(program, recorded, events) = r3
  BY DEF WithMessage
<1>3. r1 = Written(program, 0, None, none, none, none)
  BY <1>1 DEF Written
<1> HIDE DEF r1
<1>4. r2 = Written(program, 0, None, none, recorded, none)
  BY <1>3 DEF Written
<1> HIDE DEF r2
<1>5. r3 = Written(program, 0, None, none, recorded, events)
  BY <1>4 DEF Written
<1> HIDE DEF r3
<1>6. QED
  BY <1>2, <1>5 DEF none

\* A reservation, the ledger row and the event that come with it.
LEMMA ReserveWritten ==
  ASSUME NEW seen, NEW rows, NEW request, NEW rate,
         NEW toHold, toHold = ToProgramCurrency(request.amount, rate),
         NEW program, program = WithReserved(seen, seen.reserved + toHold),
         NEW id, id = Len(rows) + 1
  PROVE  ReserveWrites(seen, rows, request, rate) =
           Written(program, id,
                   OpenReservation(request.invoice, request.key, request.amount, rate, toHold),
                   <<ReserveMovement(id, toHold, program)>>, <<>>,
                   <<CapacityReserved(id, program)>>)
<1>1. ReserveWrites(seen, rows, request, rate) =
        WithHold(program, id,
                 OpenReservation(request.invoice, request.key, request.amount, rate, toHold),
                 <<ReserveMovement(id, toHold, program)>>,
                 <<CapacityReserved(id, program)>>)
  BY DEF ReserveWrites, WithHold
<1>2. QED
  BY <1>1, HoldWritten

\* A repayment, its ledger row and its event.
LEMMA RepayWritten ==
  ASSUME NEW seen, NEW rows, NEW request,
         NEW id, id = ActiveId(rows, request.invoice),
         NEW before, before = rows[id],
         NEW after, after = RecordRepayment(before, RepaidAmount(before, request).minor),
         NEW program, program = ReleaseFrom(seen, before, after)
  PROVE  RepayWrites(seen, rows, request) =
           Written(program, id, after,
                   <<ReleaseMovement(id, before, after, program, request.repayment)>>, <<>>,
                   <<CapacityReleased(id, after, program)>>)
<1>1. RepayWrites(seen, rows, request) =
        WithHold(program, id, after,
                 <<ReleaseMovement(id, before, after, program, request.repayment)>>,
                 <<CapacityReleased(id, after, program)>>)
  BY DEF RepayWrites, WithHold
<1>2. QED
  BY <1>1, HoldWritten

\* A program opened or updated, or neither, and the record of the message.
LEMMA TreasuryWritten ==
  ASSUME NEW seen, NEW message
  PROVE  /\ OpenWrites(message) =
              Written(OpenedBy(message), 0, None, <<>>,
                      <<[message |-> message, applied |-> TRUE]>>,
                      <<ProgramOpened(OpenedBy(message))>>)
         /\ UpdateWrites(seen, message) =
              Written(Saved(ApplyTreasuryState(seen, message)), 0, None, <<>>,
                      <<[message |-> message, applied |-> TRUE]>>,
                      TreasuryUpdateEvents(seen, ApplyTreasuryState(seen, message)))
         /\ StaleWrites(message) =
              Written(None, 0, None, <<>>, <<[message |-> message, applied |-> FALSE]>>, <<>>)
<1>1. OpenWrites(message) =
        WithMessage(OpenedBy(message), <<[message |-> message, applied |-> TRUE]>>,
                    <<ProgramOpened(OpenedBy(message))>>)
  BY DEF OpenWrites, WithMessage
<1>2. UpdateWrites(seen, message) =
        WithMessage(Saved(ApplyTreasuryState(seen, message)),
                    <<[message |-> message, applied |-> TRUE]>>,
                    TreasuryUpdateEvents(seen, ApplyTreasuryState(seen, message)))
  BY DEF UpdateWrites, WithMessage
<1>3. StaleWrites(message) =
        Written(None, 0, None, <<>>, <<[message |-> message, applied |-> FALSE]>>, <<>>)
  <2> DEFINE none == <<>>
             recorded == <<[message |-> message, applied |-> FALSE]>>
  <2>1. /\ Nothing = Written(None, 0, None, none, none, none)
        /\ StaleWrites(message) = [Nothing EXCEPT !.recorded = recorded]
    BY DEF Nothing, Written, StaleWrites
  <2> HIDE DEF none, recorded
  <2>2. StaleWrites(message) = Written(None, 0, None, none, recorded, none)
    BY <2>1 DEF Written
  <2>3. QED
    BY <2>2 DEF none, recorded
<1>4. QED
  BY <1>1, <1>2, <1>3, MessageWritten

\* Rows of the right types are rows that a transaction may write.
LEMMA WrittenTypes ==
  ASSUME NEW program \in ProgramRow \union {None}, NEW id \in Nat,
         NEW reservation \in ReservationRow \union {None},
         NEW added \in Seq(MovementRow), NEW recorded \in Seq(TreasuryRow),
         NEW events \in Seq(OutboxEvent)
  PROVE  Written(program, id, reservation, added, recorded, events) \in Writes
BY DEF Written, Writes

\* What a handler that answers CREATED writes has the types of the tables.
LEMMA ReserveWritesTypes ==
  ASSUME P!TypeInv, NEW request \in ReserveRequest, NEW p, p = request.program,
         programs[p] # None,
         NEW rate \in RatesInto(programs[p].currency, request.amount),
         ReserveAnswer(programs[p], reservations[p], request, rate) = "CREATED"
  PROVE  /\ ReserveWrites(programs[p], reservations[p], request, rate) \in Writes
         /\ ReserveWrites(programs[p], reservations[p], request, rate).program \in ProgramRow
         /\ reservations[p] \in Seq(ReservationRow) /\ p \in ProgramIds
<1> DEFINE toHold == ToProgramCurrency(request.amount, rate)
           row == OpenReservation(request.invoice, request.key, request.amount, rate, toHold)
           reserved == programs[p].reserved + toHold
           program == WithReserved(programs[p], reserved)
           id == Len(reservations[p]) + 1
           movement == ReserveMovement(id, toHold, program)
           event == CapacityReserved(id, program)
<1>1. /\ p \in ProgramIds /\ programs[p] \in ProgramRow
      /\ toHold \in Nat \ {0} /\ row \in ReservationRow
  <2>1. /\ request \in P!ReserveRequest
        /\ rate \in P!RatesInto(programs[p].currency, request.amount)
        /\ P!ReserveAnswer(programs[p], reservations[p], request, rate) = "CREATED"
        /\ toHold = P!ToProgramCurrency(request.amount, rate)
        /\ row = P!OpenReservation(request.invoice, request.key, request.amount, rate, toHold)
    BY SameTypes, SameReserving
  <2> HIDE DEF toHold, row
  <2>2. /\ p \in ProgramIds /\ programs[p] \in P!ProgramRow
        /\ toHold \in Nat \ {0} /\ row \in P!ReservationRow
    BY <2>1, Assumed, P!ReserveDecides
  <2>3. QED
    BY <2>2, SameTypes
<1>2. reservations[p] \in Seq(ReservationRow)
  BY <1>1, SameTypes DEF P!TypeInv, P!TypeOK
<1>3. id \in Nat \ {0}
  BY <1>2
<1> HIDE DEF toHold, row, id
<1>4. reserved \in Nat
  BY <1>1 DEF ProgramRow
<1> HIDE DEF reserved
<1>5. program \in ProgramRow /\ Available(program) \in Int
  <2>1. /\ program = P!WithReserved(programs[p], reserved)
        /\ Available(program) = P!Available(program)
        /\ programs[p] \in P!ProgramRow
    BY <1>1, SameTypes, SameReserving
  <2> HIDE DEF program
  <2>2. program \in P!ProgramRow /\ P!Available(program) \in Int
    BY <1>4, <2>1, Assumed, P!CounterWritten
  <2>3. QED
    BY <2>1, <2>2, SameTypes
<1> HIDE DEF program
<1>6. movement \in MovementRow /\ event \in OutboxEvent
  BY <1>1, <1>3, <1>5 DEF ReserveMovement, CapacityReserved, MovementRow, OutboxEvent
<1>7. ReserveWrites(programs[p], reservations[p], request, rate) =
        Written(program, id, row, <<movement>>, <<>>, <<event>>)
  BY ReserveWritten DEF toHold, row, program, reserved, id
<1> HIDE DEF movement, event
<1>8. Written(program, id, row, <<movement>>, <<>>, <<event>>) \in Writes
  <2> DEFINE added == <<movement>>
             none == <<>>
             events == <<event>>
  <2>1. /\ added \in Seq(MovementRow) /\ none \in Seq(TreasuryRow)
        /\ events \in Seq(OutboxEvent)
    BY <1>6
  <2> HIDE DEF added, none, events
  <2>2. Written(program, id, row, added, none, events) \in Writes
    BY <1>1, <1>3, <1>5, <2>1, WrittenTypes
  <2>3. QED
    BY <2>2 DEF added, none, events
<1>9. Written(program, id, row, <<movement>>, <<>>, <<event>>).program = program
  BY DEF Written
<1>10. QED
  BY <1>1, <1>2, <1>5, <1>7, <1>8, <1>9

\* What a handler that answers APPLIED writes has the types of the tables.
LEMMA RepayWritesTypes ==
  ASSUME P!TypeInv, NEW request \in RepaymentRequest, NEW p, p = request.program,
         RepayAnswer(programs[p], reservations[p], movements[p], request) = "APPLIED"
  PROVE  /\ RepayWrites(programs[p], reservations[p], request) \in Writes
         /\ RepayWrites(programs[p], reservations[p], request).program \in ProgramRow
         /\ reservations[p] \in Seq(ReservationRow) /\ p \in ProgramIds
         /\ ActiveId(reservations[p], request.invoice) \in DOMAIN reservations[p]
<1> DEFINE id == ActiveId(reservations[p], request.invoice)
           before == reservations[p][id]
           after == RecordRepayment(before, RepaidAmount(before, request).minor)
           reserved == programs[p].reserved - (after.released - before.released)
           program == WithReserved(programs[p], reserved)
           movement == ReleaseMovement(id, before, after, program, request.repayment)
           event == CapacityReleased(id, after, program)
<1>1. /\ p \in ProgramIds /\ programs[p] \in ProgramRow
      /\ id \in DOMAIN reservations[p]
      /\ before \in ReservationRow /\ after \in ReservationRow
      /\ after.repaid - before.repaid \in Nat \ {0}
      /\ after.released - before.released \in Nat
      /\ after.released - before.released <= programs[p].reserved
  <2>1. /\ request \in P!RepaymentRequest
        /\ P!RepayAnswer(programs[p], reservations[p], movements[p], request) = "APPLIED"
        /\ id = P!ActiveId(reservations[p], request.invoice)
        /\ after = P!RecordRepayment(before, P!RepaidAmount(before, request).minor)
    BY SameTypes, SameRepaying
  <2>2. before = reservations[p][id]
    OBVIOUS
  <2> HIDE DEF id, before, after, reserved, program
  <2>3. /\ p \in ProgramIds /\ programs[p] \in P!ProgramRow
        /\ id \in DOMAIN reservations[p]
        /\ before \in P!ReservationRow /\ after \in P!ReservationRow
        /\ after.repaid - before.repaid \in Nat \ {0}
        /\ after.released - before.released \in Nat
        /\ after.released - before.released <= programs[p].reserved
    BY <2>1, <2>2, Assumed, P!RepayDecides
  <2>4. QED
    BY <2>3, SameTypes
<1>2. reservations[p] \in Seq(ReservationRow)
  BY <1>1, SameTypes DEF P!TypeInv, P!TypeOK
<1> HIDE DEF after
<1>3. id \in Nat \ {0}
  BY <1>1, <1>2
<1> HIDE DEF before, id
<1>4. reserved \in Nat
  <2> DEFINE freed == after.released - before.released
  <2>1. freed \in Nat /\ freed <= programs[p].reserved /\ programs[p].reserved \in Nat
    BY <1>1 DEF ProgramRow
  <2> HIDE DEF freed
  <2>2. programs[p].reserved - freed \in Nat
    BY <2>1
  <2>3. QED
    BY <2>2 DEF freed
<1>5. program = ReleaseFrom(programs[p], before, after)
  BY DEF ReleaseFrom
<1> HIDE DEF reserved
<1>6. program \in ProgramRow /\ Available(program) \in Int
  <2>1. /\ program = P!WithReserved(programs[p], reserved)
        /\ Available(program) = P!Available(program)
        /\ programs[p] \in P!ProgramRow
    BY <1>1, SameTypes, SameReserving
  <2> HIDE DEF program
  <2>2. program \in P!ProgramRow /\ P!Available(program) \in Int
    BY <1>4, <2>1, Assumed, P!CounterWritten
  <2>3. QED
    BY <2>1, <2>2, SameTypes
<1> HIDE DEF program
<1>7. movement \in MovementRow
  <2>1. request.repayment \in RepaymentIds /\ after.invoiceCurrency \in Currencies
    BY <1>1 DEF RepaymentRequest, ReservationRow
  <2>2. QED
    BY <1>1, <1>3, <1>6, <2>1 DEF ReleaseMovement, MovementRow
<1>8. event \in OutboxEvent
  BY <1>3, <1>6 DEF CapacityReleased, OutboxEvent
<1>9. RepayWrites(programs[p], reservations[p], request) =
        Written(program, id, after, <<movement>>, <<>>, <<event>>)
  BY <1>5, RepayWritten DEF after, before, id
<1> HIDE DEF movement, event
<1>10. Written(program, id, after, <<movement>>, <<>>, <<event>>) \in Writes
  <2> DEFINE added == <<movement>>
             none == <<>>
             events == <<event>>
  <2>1. /\ added \in Seq(MovementRow) /\ none \in Seq(TreasuryRow)
        /\ events \in Seq(OutboxEvent)
    BY <1>7, <1>8
  <2> HIDE DEF added, none, events
  <2>2. Written(program, id, after, added, none, events) \in Writes
    BY <1>1, <1>3, <1>6, <2>1, WrittenTypes
  <2>3. QED
    BY <2>2 DEF added, none, events
<1>11. Written(program, id, after, <<movement>>, <<>>, <<event>>).program = program
  BY DEF Written
<1>12. QED
  BY <1>1, <1>2, <1>6, <1>9, <1>10, <1>11 DEF id

\* A message has a program, and an event id.
LEMMA MessagesTyped ==
  ASSUME NEW message \in TreasuryMessage
  PROVE  message.program \in ProgramIds /\ message.event \in EventIds
BY DEF TreasuryMessage

\* What the handler of treasury's messages writes has the types of the tables: of
\* the program it opens or updates, of the record and of the events.
LEMMA TreasuryWritesTypes ==
  ASSUME NEW seen \in ProgramRow \union {None}, NEW message \in TreasuryMessage
  PROVE  /\ TreasuryAnswer(seen, message) = "CREATED" =>
              OpenedBy(message) \in ProgramRow /\ OpenWrites(message) \in Writes
         /\ TreasuryAnswer(seen, message) = "APPLIED" =>
              /\ Saved(ApplyTreasuryState(seen, message)) \in ProgramRow
              /\ UpdateWrites(seen, message) \in Writes
         /\ StaleWrites(message) \in Writes
<1> DEFINE recorded == <<[message |-> message, applied |-> TRUE]>>
           ignored == <<[message |-> message, applied |-> FALSE]>>
           none == <<>>
<1>1. /\ recorded \in Seq(TreasuryRow) /\ ignored \in Seq(TreasuryRow)
      /\ none \in Seq(MovementRow) /\ none \in Seq(OutboxEvent)
  BY DEF TreasuryRow
<1>2. ASSUME TreasuryAnswer(seen, message) = "CREATED"
      PROVE  OpenedBy(message) \in ProgramRow /\ OpenWrites(message) \in Writes
  <2> DEFINE program == OpenedBy(message)
             events == <<ProgramOpened(program)>>
  <2>1. program \in ProgramRow
    <3>1. /\ message \in P!TreasuryMessage /\ P!TreasuryAnswer(seen, message) = "CREATED"
          /\ program = P!OpenedBy(message)
      BY <1>2, SameTypes, SameTreasury
    <3> HIDE DEF program
    <3>2. program \in P!ProgramRow
      BY <3>1, Assumed, P!OpenDecides DEF P!OpenedBy
    <3>3. QED
      BY <3>2, SameTypes
  <2>2. OpenWrites(message) = Written(program, 0, None, none, recorded, events)
    BY TreasuryWritten
  <2> HIDE DEF program
  <2>3. ProgramOpened(program) \in OutboxEvent
    BY <2>1 DEF ProgramOpened, ProgramRow, OutboxEvent
  <2>4. events \in Seq(OutboxEvent)
    BY <2>3
  <2> HIDE DEF events, recorded, none
  <2>5. Written(program, 0, None, none, recorded, events) \in Writes
    BY <1>1, <2>1, <2>4, WrittenTypes
  <2>6. QED
    BY <2>1, <2>2, <2>5 DEF program
<1>3. ASSUME TreasuryAnswer(seen, message) = "APPLIED"
      PROVE  /\ Saved(ApplyTreasuryState(seen, message)) \in ProgramRow
             /\ UpdateWrites(seen, message) \in Writes
  <2> DEFINE after == ApplyTreasuryState(seen, message)
             program == Saved(after)
             events == TreasuryUpdateEvents(seen, after)
  <2>1. seen \in P!ProgramRow /\ after \in P!ProgramRow /\ program \in P!ProgramRow
    <3>1. /\ message \in P!TreasuryMessage /\ P!TreasuryAnswer(seen, message) = "APPLIED"
          /\ after = P!ApplyTreasuryState(seen, message) /\ program = P!Saved(after)
          /\ seen \in P!ProgramRow \union {None}
      BY <1>3, SameTypes, SameTreasury
    <3> HIDE DEF after, program
    <3>2. QED
      BY <3>1, Assumed, P!UpdateComputes
  <2>2. UpdateWrites(seen, message) = Written(program, 0, None, none, recorded, events)
    BY TreasuryWritten
  <2> HIDE DEF after, program
  <2>3. events \in Seq(OutboxEvent)
    <3>1. events = P!TreasuryUpdateEvents(seen, after)
      BY SameTreasury
    <3> HIDE DEF events
    <3>2. QED
      BY <2>1, <3>1, Assumed, P!UpdateEventsTypes, SameTypes
  <2> HIDE DEF events, recorded, none
  <2>4. Written(program, 0, None, none, recorded, events) \in Writes
    BY <1>1, <2>1, <2>3, SameTypes, WrittenTypes
  <2>5. QED
    BY <2>1, <2>2, <2>4, SameTypes DEF program, after
<1>4. StaleWrites(message) \in Writes
  <2>1. StaleWrites(message) = Written(None, 0, None, none, ignored, none)
    BY TreasuryWritten
  <2> HIDE DEF ignored, none
  <2>2. Written(None, 0, None, none, ignored, none) \in Writes
    BY <1>1, WrittenTypes
  <2>3. QED
    BY <2>1, <2>2
<1>5. QED
  BY <1>2, <1>3, <1>4

-----------------------------------------------------------------------------
(* The statements that change one worker and no table.                     *)

\* A command is one of the three, for a program.
LEMMA CommandsTyped ==
  ASSUME NEW command \in Commands
  PROVE  /\ command.request.program \in ProgramIds
         /\ \/ command.kind = "RESERVE" /\ command.request \in ReserveRequest
            \/ command.kind = "REPAY" /\ command.request \in RepaymentRequest
            \/ command.kind = "TREASURY" /\ command.request \in TreasuryMessage
<1>1. \/ command.kind = "RESERVE" /\ command.request \in ReserveRequest
      \/ command.kind = "REPAY" /\ command.request \in RepaymentRequest
      \/ command.kind = "TREASURY" /\ command.request \in TreasuryMessage
  BY CommandsAssumption
<1>2. command.request.program \in ProgramIds
  BY <1>1, MessagesTyped DEF ReserveRequest, RepaymentRequest
<1>3. QED
  BY <1>1, <1>2

\* The tables are well typed.
LEMMA TablesOf ==
  ASSUME P!TypeInv
  PROVE  /\ programs \in [ProgramIds -> ProgramRow \union {None}]
         /\ reservations \in [ProgramIds -> Seq(ReservationRow)]
         /\ movements \in [ProgramIds -> Seq(MovementRow)]
         /\ treasuryEvents \in [ProgramIds -> Seq(TreasuryRow)]
         /\ outbox \in [ProgramIds -> Seq(OutboxEvent)]
BY SameTypes DEF P!TypeInv, P!TypeOK

\* A worker's step leaves everything sound when its new state is, when no other
\* holds the row it holds, and no other records the event it records.
LEMMA StepKeeps ==
  ASSUME TransactionInv, NEW w \in Workers, NEW s \in WorkerStates,
         UNCHANGED tables, work' = [work EXCEPT ![w] = s],
         SoundAt(s, s.command.request.program),
         \A v \in Workers :
           v # w /\ Holds(s) /\ Holds(work[v]) => Program(v) # s.command.request.program,
         Records(s) =>
           /\ ~ RecordedIn(treasuryEvents, EventOf(s))
           /\ \A v \in Workers : v # w /\ Records(work[v]) => EventOf(work[v]) # EventOf(s)
  PROVE  TransactionInv'
<1>1. /\ programs' = programs /\ reservations' = reservations /\ movements' = movements
      /\ treasuryEvents' = treasuryEvents /\ outbox' = outbox
  BY DEF tables
<1>2. work \in [Workers -> WorkerStates]
  BY DEF TransactionInv, WorkTyped
<1>3. work' \in [Workers -> WorkerStates]
  BY <1>2
<1>4. work'[w] = s /\ \A v \in Workers : v # w => work'[v] = work[v]
  BY <1>2
<1>5. P!TypeInv'
  BY <1>1 DEF TransactionInv, P!TypeInv, P!TypeOK, P!RowsAccount
<1>6. WorkersSound'
  <2> SUFFICES ASSUME NEW v \in Workers
               PROVE  Sound(work'[v], programs'[work'[v].command.request.program],
                            reservations'[work'[v].command.request.program],
                            movements'[work'[v].command.request.program])
    BY DEF WorkersSound, SoundAt, Program
  <2>1. CASE v = w
    BY <1>1, <1>4, <2>1 DEF SoundAt
  <2>2. CASE v # w
    BY <1>1, <1>4, <2>2 DEF TransactionInv, WorkersSound, SoundAt, Program
  <2>3. QED
    BY <2>1, <2>2
<1>7. RowsApart'
  <2> SUFFICES ASSUME NEW u \in Workers, NEW v \in Workers,
                      Holds(work'[u]), Holds(work'[v]),
                      work'[u].command.request.program = work'[v].command.request.program
               PROVE  u = v
    BY DEF RowsApart, Program
  <2>1. CASE u # w /\ v # w
    BY <1>4, <2>1 DEF TransactionInv, RowsApart, Program
  <2>2. CASE u = w /\ v # w
    BY <1>4, <2>2 DEF Program
  <2>3. CASE u # w /\ v = w
    BY <1>4, <2>3 DEF Program
  <2>4. QED
    BY <2>1, <2>2, <2>3
<1>8. EventsApart'
  <2> SUFFICES ASSUME NEW u \in Workers, NEW v \in Workers,
                      Records(work'[u]), Records(work'[v]),
                      EventOf(work'[u]) = EventOf(work'[v])
               PROVE  u = v
    BY DEF EventsApart
  <2>1. CASE u # w /\ v # w
    BY <1>4, <2>1 DEF TransactionInv, EventsApart
  <2>2. CASE u = w /\ v # w
    BY <1>4, <2>2
  <2>3. CASE u # w /\ v = w
    BY <1>4, <2>3
  <2>4. QED
    BY <2>1, <2>2, <2>3
<1>9. EventsNew'
  <2> SUFFICES ASSUME NEW v \in Workers, Records(work'[v])
               PROVE  ~ RecordedIn(treasuryEvents', EventOf(work'[v]))
    BY DEF EventsNew
  <2>1. QED
    BY <1>1, <1>4 DEF TransactionInv, EventsNew
<1>10. QED
  BY <1>3, <1>5, <1>6, <1>7, <1>8, <1>9 DEF TransactionInv, WorkTyped

\* A transaction that goes on with its command holds the row it held, alone.
LEMMA StillAlone ==
  ASSUME TransactionInv, NEW w \in Workers, NEW s,
         s.command = work[w].command, Holds(s) => Holds(work[w])
  PROVE  \A v \in Workers :
           v # w /\ Holds(s) /\ Holds(work[v]) => Program(v) # s.command.request.program
BY DEF TransactionInv, RowsApart, Program

\* A worker that has answered, or not begun, is sound whatever the rows are.
LEMMA IdleIsSound ==
  ASSUME NEW command \in Commands \union {None}, NEW answer \in Answers \union {None},
         NEW s, s = Idle(command, answer)
  PROVE  /\ s \in WorkerStates /\ s.step = "idle" /\ s.command = command
         /\ s.answer = answer /\ s.rate = None /\ s.seen = None /\ s.retried = FALSE
         /\ ~ Holds(s) /\ ~ Records(s)
         /\ \A p : SoundAt(s, p)
<1>1. /\ s \in WorkerStates /\ s.step = "idle" /\ s.command = command /\ s.answer = answer
      /\ s.rate = None /\ s.seen = None /\ s.retried = FALSE
  BY DEF Idle, WorkerStates, Steps
<1>2. QED
  BY <1>1 DEF Holds, Records, SoundAt, Sound

\* A transaction that ends without committing leaves everything sound.
LEMMA AnswerKeeps ==
  ASSUME TransactionInv, NEW w \in Workers, NEW answer \in Answers,
         Answer(w, answer), UNCHANGED tables
  PROVE  TransactionInv'
<1> DEFINE s == Idle(work[w].command, answer)
<1>1. work \in [Workers -> WorkerStates]
  BY DEF TransactionInv, WorkTyped
<1>2. work[w].command \in Commands \union {None}
  BY <1>1 DEF WorkerStates
<1>3. /\ s \in WorkerStates /\ ~ Holds(s) /\ ~ Records(s)
      /\ SoundAt(s, s.command.request.program)
  <2>1. s = Idle(work[w].command, answer) /\ answer \in Answers \union {None}
    OBVIOUS
  <2> HIDE DEF s
  <2>2. s \in WorkerStates /\ ~ Holds(s) /\ ~ Records(s) /\ \A p : SoundAt(s, p)
    BY <1>2, <2>1, IdleIsSound
  <2>3. QED
    BY <2>2
<1>4. work' = [work EXCEPT ![w] = s]
  BY DEF Answer
<1> HIDE DEF s
<1>5. QED
  BY <1>3, <1>4, StepKeeps

\* A command that begins its transaction, or looks up its program and its rate.
LEMMA StartKeeps ==
  ASSUME TransactionInv, NEW w \in Workers, NEW command \in Commands, Start(w, command)
  PROVE  TransactionInv'
<1> DEFINE p == command.request.program
           begun == [Idle(command, None) EXCEPT !.step = "locking"]
<1>1. UNCHANGED tables
  BY DEF Start
<1>2. /\ p \in ProgramIds
      /\ \/ command.kind = "RESERVE" /\ command.request \in ReserveRequest
         \/ command.kind = "REPAY" /\ command.request \in RepaymentRequest
         \/ command.kind = "TREASURY" /\ command.request \in TreasuryMessage
  BY CommandsTyped
<1>3. ASSUME NEW s \in WorkerStates,
             s.step = "locking", s.command = command, s.seen = None, s.retried = FALSE,
             command.kind = "RESERVE" =>
               /\ programs[p] # None
               /\ s.rate \in RatesInto(programs[p].currency, command.request.amount),
             work' = [work EXCEPT ![w] = s]
      PROVE  TransactionInv'
  <2>1. ~ Holds(s) /\ ~ Records(s)
    BY <1>3 DEF Holds, Records
  <2>2. SoundAt(s, p)
    BY <1>3, <2>1 DEF SoundAt, Sound
  <2>3. QED
    BY <1>1, <1>3, <2>1, <2>2, StepKeeps
<1> DEFINE idle == Idle(command, None)
<1>4. /\ idle \in WorkerStates /\ idle.command = command
      /\ idle.seen = None /\ idle.retried = FALSE
  <2>1. /\ idle.step = "idle" /\ idle.command = command /\ idle.rate = None
        /\ idle.seen = None /\ idle.retried = FALSE /\ idle.answer = None
    BY DEF Idle
  <2>2. idle \in WorkerStates
    BY DEF Idle, WorkerStates, Steps
  <2>3. QED
    BY <2>1, <2>2
<1>5. begun = [idle EXCEPT !.step = "locking"]
  OBVIOUS
<1> HIDE DEF idle, begun
<1>6. /\ begun \in WorkerStates /\ begun.step = "locking" /\ begun.command = command
      /\ begun.seen = None /\ begun.retried = FALSE
  BY <1>4, <1>5 DEF WorkerStates, Steps
<1>7. CASE command.kind # "RESERVE"
  <2>1. work' = [work EXCEPT ![w] = begun]
    BY <1>7 DEF Start, begun
  <2>2. QED
    BY <1>3, <1>6, <1>7, <2>1
<1>8. CASE command.kind = "RESERVE" /\ programs[p] = None
  <2> DEFINE s == Idle(command, "PROGRAM_NOT_FOUND")
  <2>1. work' = [work EXCEPT ![w] = s]
    BY <1>8 DEF Start
  <2>2. /\ s \in WorkerStates /\ ~ Holds(s) /\ ~ Records(s)
        /\ SoundAt(s, s.command.request.program)
    <3>1. "PROGRAM_NOT_FOUND" \in Answers
      BY DEF Answers
    <3>2. /\ s = Idle(command, "PROGRAM_NOT_FOUND")
          /\ command \in Commands \union {None}
          /\ "PROGRAM_NOT_FOUND" \in Answers \union {None}
      BY <3>1
    <3> HIDE DEF s
    <3>3. s \in WorkerStates /\ ~ Holds(s) /\ ~ Records(s) /\ \A q : SoundAt(s, q)
      BY <3>2, IdleIsSound
    <3>4. QED
      BY <3>3
  <2> HIDE DEF s
  <2>3. QED
    BY <1>1, <2>1, <2>2, StepKeeps
<1>9. CASE command.kind = "RESERVE" /\ programs[p] # None
  <2>1. PICK rate \in RatesInto(programs[p].currency, command.request.amount) :
          work' = [work EXCEPT ![w] = [begun EXCEPT !.rate = rate]]
    BY <1>9 DEF Start, begun
  <2>2. rate \in ExchangeRate \union {None, Unavailable}
    <3>1. command.request \in ReserveRequest
      BY <1>2, <1>9
    <3>2. p \in ProgramIds /\ command.request.amount \in Money
      BY <3>1, ConstantsAssumption DEF ReserveRequest
    <3>3. programs[p] \in ProgramRow
      BY <1>9, <3>2, TablesOf DEF TransactionInv
    <3>4. <<command.request.amount.currency, programs[p].currency>> \in Currencies \X Currencies
      BY <3>2, <3>3 DEF Money, ProgramRow
    <3>5. Quotes[<<command.request.amount.currency, programs[p].currency>>] \subseteq ExchangeRate
      BY <3>4, ConstantsAssumption
    <3>6. QED
      BY <2>1, <3>5 DEF RatesInto
  <2> DEFINE s == [begun EXCEPT !.rate = rate]
  <2>3. /\ s \in WorkerStates /\ s.step = "locking" /\ s.command = command
        /\ s.seen = None /\ s.retried = FALSE /\ s.rate = rate
    BY <1>6, <2>2 DEF WorkerStates
  <2>4. work' = [work EXCEPT ![w] = s]
    BY <2>1
  <2> HIDE DEF s
  <2>5. QED
    BY <1>3, <1>9, <2>1, <2>3, <2>4
<1>10. QED
  BY <1>7, <1>8, <1>9

\* A worker at work has a command, and its program's row is as typed.
LEMMA AtWork ==
  ASSUME TransactionInv, NEW w \in Workers, work[w].step # "idle",
         NEW p, p = Program(w)
  PROVE  /\ work \in [Workers -> WorkerStates] /\ work[w] \in WorkerStates
         /\ work[w].command \in Commands
         /\ \/ work[w].command.kind = "RESERVE" /\ work[w].command.request \in ReserveRequest
            \/ work[w].command.kind = "REPAY" /\ work[w].command.request \in RepaymentRequest
            \/ work[w].command.kind = "TREASURY" /\ work[w].command.request \in TreasuryMessage
         /\ p \in ProgramIds /\ p = work[w].command.request.program
         /\ programs[p] \in ProgramRow \union {None}
         /\ P!TypeInv
         /\ Sound(work[w], programs[p], reservations[p], movements[p])
<1>1. /\ work \in [Workers -> WorkerStates]
      /\ Sound(work[w], programs[p], reservations[p], movements[p])
      /\ P!TypeInv
  BY DEF TransactionInv, WorkTyped, WorkersSound, SoundAt
<1>2. work[w].command \in Commands
  BY <1>1 DEF Sound
<1>3. /\ \/ work[w].command.kind = "RESERVE" /\ work[w].command.request \in ReserveRequest
         \/ work[w].command.kind = "REPAY" /\ work[w].command.request \in RepaymentRequest
         \/ work[w].command.kind = "TREASURY" /\ work[w].command.request \in TreasuryMessage
  BY <1>2, CommandsTyped
<1>4. p \in ProgramIds
  BY <1>3, MessagesTyped DEF ReserveRequest, RepaymentRequest, Program
<1>5. QED
  BY <1>1, <1>2, <1>3, <1>4, TablesOf DEF Program

\* Locking the row, or finding none to lock.
LEMMA LockKeeps ==
  ASSUME TransactionInv, NEW w \in Workers, LockById(w)
  PROVE  TransactionInv'
<1> DEFINE p == Program(w)
           s == [work[w] EXCEPT !.step = "deciding", !.seen = programs[p]]
<1>1. /\ work[w].step = "locking" /\ ~ Waits(w) /\ UNCHANGED tables
      /\ work' = [work EXCEPT ![w].step = "deciding", ![w].seen = programs[p]]
  BY DEF LockById
<1>2. /\ work \in [Workers -> WorkerStates] /\ work[w] \in WorkerStates
      /\ p = work[w].command.request.program
      /\ programs[p] \in ProgramRow \union {None}
      /\ Sound(work[w], programs[p], reservations[p], movements[p])
  BY <1>1, AtWork
<1>3. work' = [work EXCEPT ![w] = s]
  BY <1>1, <1>2
<1>4. /\ s \in WorkerStates /\ s.step = "deciding" /\ s.seen = programs[p]
      /\ s.command = work[w].command /\ s.rate = work[w].rate
      /\ s.retried = work[w].retried
  BY <1>2 DEF WorkerStates, Steps
<1> HIDE DEF s
<1>5. SoundAt(s, p)
  BY <1>1, <1>2, <1>4 DEF SoundAt, Sound, Holds
<1>6. ASSUME NEW v \in Workers, v # w, Holds(s), Holds(work[v]) PROVE Program(v) # p
  <2>1. programs[p] # None
    BY <1>4, <1>6 DEF Holds
  <2>2. ~ RowHeld(p)
    BY <1>1, <2>1 DEF Waits
  <2>3. HoldsRow(v)
    BY <1>6 DEF Holds, HoldsRow
  <2>4. QED
    BY <2>2, <2>3 DEF RowHeld
<1>7. ~ Records(s)
  BY <1>4 DEF Records
<1> HIDE DEF p
<1>8. s.command.request.program = p
  BY <1>2, <1>4
<1>9. /\ SoundAt(s, s.command.request.program)
      /\ \A v \in Workers :
           v # w /\ Holds(s) /\ Holds(work[v]) => Program(v) # s.command.request.program
  BY <1>5, <1>6, <1>8
<1>10. QED
  BY <1>1, <1>3, <1>4, <1>7, <1>9, StepKeeps

\* Whatever a handler answers is one of the answers.
LEMMA AnswersTyped ==
  /\ \A program, rows, request, rate : ReserveAnswer(program, rows, request, rate) \in Answers
  /\ \A program, rows, ledger, request : RepayAnswer(program, rows, ledger, request) \in Answers
  /\ \A program, message : TreasuryAnswer(program, message) \in Answers
<1>1. \A program, rows, request, rate : ReserveAnswer(program, rows, request, rate) \in Answers
  BY DEF ReserveAnswer, ReserveRefusal, Answers
<1>2. \A program, rows, ledger, request : RepayAnswer(program, rows, ledger, request) \in Answers
  BY DEF RepayAnswer, ReleaseRefusal, RepaymentRefusal, Answers
<1>3. \A program, message : TreasuryAnswer(program, message) \in Answers
  BY DEF TreasuryAnswer, TreasuryRefusal, Answers
<1>4. QED
  BY <1>1, <1>2, <1>3

\* A handler that has decided to write keeps everything sound when what it stages
\* follows from its program's rows.
LEMMA StageKeeps ==
  ASSUME TransactionInv, NEW w \in Workers, work[w].step = "deciding",
         NEW p, p = Program(w),
         NEW step \in {"inserting", "saving", "recording"}, NEW answer \in Answers,
         NEW writes \in Writes, Stage(w, step, answer, writes), UNCHANGED tables,
         \A s \in WorkerStates :
           /\ s.step = step /\ s.answer = answer /\ s.writes = writes
           /\ s.command = work[w].command /\ s.rate = work[w].rate
           /\ s.seen = work[w].seen /\ s.retried = work[w].retried
           => SoundAt(s, p) /\ (Holds(s) => Holds(work[w]))
  PROVE  TransactionInv'
<1> DEFINE s1 == [work[w] EXCEPT !.step = step]
           s2 == [s1 EXCEPT !.answer = answer]
           s == [s2 EXCEPT !.writes = writes]
<1>1. /\ work \in [Workers -> WorkerStates] /\ work[w] \in WorkerStates
      /\ p = work[w].command.request.program
  BY AtWork
<1>2. work' = [work EXCEPT ![w] = s]
  BY <1>1 DEF Stage
<1>3. /\ s1 \in WorkerStates /\ s1.step = step /\ s1.answer = work[w].answer
      /\ s1.command = work[w].command /\ s1.rate = work[w].rate
      /\ s1.seen = work[w].seen /\ s1.retried = work[w].retried
  BY <1>1 DEF WorkerStates, Steps
<1> HIDE DEF s1
<1>4. /\ s2 \in WorkerStates /\ s2.step = step /\ s2.answer = answer
      /\ s2.command = work[w].command /\ s2.rate = work[w].rate
      /\ s2.seen = work[w].seen /\ s2.retried = work[w].retried
  BY <1>3 DEF WorkerStates
<1> HIDE DEF s2
<1>5. /\ s \in WorkerStates /\ s.step = step /\ s.answer = answer /\ s.writes = writes
      /\ s.command = work[w].command /\ s.rate = work[w].rate
      /\ s.seen = work[w].seen /\ s.retried = work[w].retried
  BY <1>4 DEF WorkerStates
<1> HIDE DEF s
<1>6. SoundAt(s, p) /\ (Holds(s) => Holds(work[w]))
  BY <1>5
<1>7. SoundAt(s, s.command.request.program)
  BY <1>1, <1>5, <1>6
<1>8. \A v \in Workers :
        v # w /\ Holds(s) /\ Holds(work[v]) => Program(v) # s.command.request.program
  BY <1>5, <1>6, StillAlone
<1>9. ~ Records(s)
  BY <1>5 DEF Records
<1>10. QED
  BY <1>2, <1>5, <1>7, <1>8, <1>9, StepKeeps

\* A handler that has locked the row has seen it as it is.
LEMMA SeenIsLocked ==
  ASSUME TransactionInv, NEW w \in Workers, work[w].step \notin {"idle", "locking"},
         work[w].seen # None, NEW p, p = Program(w)
  PROVE  work[w].seen = programs[p] /\ Holds(work[w])
BY AtWork DEF Sound, Holds

\* Deciding on a reservation.
LEMMA DecideReserveKeeps ==
  ASSUME TransactionInv, NEW w \in Workers, DecideReserve(w)
  PROVE  TransactionInv'
<1> DEFINE p == Program(w)
           request == work[w].command.request
           rate == work[w].rate
           answer == ReserveAnswer(work[w].seen, reservations[request.program], request, rate)
           writes == ReserveWrites(work[w].seen, reservations[request.program], request, rate)
<1>1. /\ work[w].step = "deciding" /\ work[w].command.kind = "RESERVE" /\ UNCHANGED tables
      /\ IF answer = "CREATED" THEN Stage(w, "saving", answer, writes) ELSE Answer(w, answer)
  BY DEF DecideReserve
<1>2. /\ work[w] \in WorkerStates /\ work[w].command \in Commands
      /\ request \in ReserveRequest /\ p \in ProgramIds /\ p = request.program
      /\ Sound(work[w], programs[p], reservations[p], movements[p])
      /\ P!TypeInv
  <2>1. /\ work[w] \in WorkerStates /\ work[w].command \in Commands
        /\ p \in ProgramIds /\ p = request.program
        /\ Sound(work[w], programs[p], reservations[p], movements[p])
        /\ P!TypeInv
    BY <1>1, AtWork
  <2>2. request \in ReserveRequest
    BY <1>1, <2>1, CommandsTyped
  <2>3. QED
    BY <2>1, <2>2
<1>3. work[w].seen # None
  BY <1>1, <1>2 DEF Sound
<1>4. work[w].seen = programs[p] /\ Holds(work[w])
  BY <1>1, <1>3, SeenIsLocked
<1>5. programs[p] # None /\ rate \in RatesInto(programs[p].currency, request.amount)
  BY <1>1, <1>2 DEF Sound
<1>6. answer \in Answers
  BY AnswersTyped
<1> HIDE DEF p, request, rate, answer, writes
<1>7. CASE answer # "CREATED"
  BY <1>1, <1>6, <1>7, AnswerKeeps
<1>8. CASE answer = "CREATED"
  <2>1. /\ ReserveAnswer(programs[p], reservations[p], request, rate) = "CREATED"
        /\ writes = ReserveWrites(programs[p], reservations[p], request, rate)
    BY <1>2, <1>4, <1>8 DEF answer, writes
  <2>2. writes \in Writes
    BY <1>2, <1>5, <2>1, ReserveWritesTypes
  <2>3. Stage(w, "saving", answer, writes)
    BY <1>1, <1>8
  <2>4. ASSUME NEW s \in WorkerStates,
               s.step = "saving", s.answer = answer, s.writes = writes,
               s.command = work[w].command, s.rate = work[w].rate,
               s.seen = work[w].seen, s.retried = work[w].retried
        PROVE  SoundAt(s, p) /\ (Holds(s) => Holds(work[w]))
    <3>1. ReserveDecided(s, programs[p], reservations[p])
      BY <1>1, <1>8, <2>1, <2>4 DEF ReserveDecided, request, rate
    <3>2. SoundAt(s, p)
      BY <1>1, <1>2, <1>3, <1>4, <2>4, <3>1 DEF SoundAt, Sound, Holds
    <3>3. QED
      BY <1>4, <3>2
  <2>5. p = Program(w)
    BY DEF p
  <2>6. QED
    BY <1>1, <1>6, <2>2, <2>3, <2>4, <2>5, StageKeeps
<1>9. QED
  BY <1>7, <1>8

\* Deciding on a repayment.
LEMMA DecideRepayKeeps ==
  ASSUME TransactionInv, NEW w \in Workers, DecideRepay(w)
  PROVE  TransactionInv'
<1> DEFINE p == Program(w)
           request == work[w].command.request
           answer == RepayAnswer(work[w].seen, reservations[request.program],
                                 movements[request.program], request)
           writes == RepayWrites(work[w].seen, reservations[request.program], request)
<1>1. /\ work[w].step = "deciding" /\ work[w].command.kind = "REPAY" /\ UNCHANGED tables
      /\ IF answer = "APPLIED" THEN Stage(w, "saving", answer, writes) ELSE Answer(w, answer)
  BY DEF DecideRepay
<1>2. /\ work[w] \in WorkerStates /\ work[w].command \in Commands
      /\ request \in RepaymentRequest /\ p \in ProgramIds /\ p = request.program
      /\ Sound(work[w], programs[p], reservations[p], movements[p])
      /\ P!TypeInv
  <2>1. /\ work[w] \in WorkerStates /\ work[w].command \in Commands
        /\ p \in ProgramIds /\ p = request.program
        /\ Sound(work[w], programs[p], reservations[p], movements[p])
        /\ P!TypeInv
    BY <1>1, AtWork
  <2>2. request \in RepaymentRequest
    BY <1>1, <2>1, CommandsTyped
  <2>3. QED
    BY <2>1, <2>2
<1>3. answer \in Answers
  BY AnswersTyped
<1>4. answer = "APPLIED" => work[w].seen # None
  BY DEF RepayAnswer
<1> HIDE DEF p, request, answer, writes
<1>5. CASE answer # "APPLIED"
  BY <1>1, <1>3, <1>5, AnswerKeeps
<1>6. CASE answer = "APPLIED"
  <2> DEFINE q == p
  <2>1. q = Program(w)
    BY DEF p
  <2> HIDE DEF q
  <2>2. work[w].seen = programs[p] /\ Holds(work[w])
    BY <1>1, <1>4, <1>6, SeenIsLocked DEF p
  <2>3. /\ RepayAnswer(programs[p], reservations[p], movements[p], request) = "APPLIED"
        /\ writes = RepayWrites(programs[p], reservations[p], request)
    BY <1>2, <1>6, <2>2 DEF answer, writes
  <2>4. writes \in Writes
    BY <1>2, <2>3, RepayWritesTypes
  <2>5. Stage(w, "saving", answer, writes)
    BY <1>1, <1>6
  <2>6. ASSUME NEW s \in WorkerStates,
               s.step = "saving", s.answer = answer, s.writes = writes,
               s.command = work[w].command, s.rate = work[w].rate,
               s.seen = work[w].seen, s.retried = work[w].retried
        PROVE  SoundAt(s, p) /\ (Holds(s) => Holds(work[w]))
    <3>1. RepayDecided(s, programs[p], reservations[p], movements[p])
      BY <1>1, <1>6, <2>3, <2>6 DEF RepayDecided, request
    <3>2. SoundAt(s, p)
      BY <1>1, <1>2, <1>4, <1>6, <2>2, <2>6, <3>1 DEF SoundAt, Sound, Holds
    <3>3. QED
      BY <2>2, <3>2
  <2>7. p = Program(w)
    BY DEF p
  <2>8. QED
    BY <1>1, <1>3, <2>4, <2>5, <2>6, <2>7, StageKeeps
<1>7. QED
  BY <1>5, <1>6

\* Deciding on a message of treasury's.
LEMMA DecideTreasuryKeeps ==
  ASSUME TransactionInv, NEW w \in Workers, DecideTreasury(w)
  PROVE  TransactionInv'
<1> DEFINE p == Program(w)
           message == work[w].command.request
           seen == work[w].seen
           answer == TreasuryAnswer(seen, message)
<1>1. /\ work[w].step = "deciding" /\ work[w].command.kind = "TREASURY" /\ UNCHANGED tables
      /\ CASE answer = "CREATED" -> Stage(w, "inserting", answer, OpenWrites(message))
           [] answer = "APPLIED" -> Stage(w, "saving", answer, UpdateWrites(seen, message))
           [] answer = "STALE"   -> Stage(w, "recording", answer, StaleWrites(message))
           [] OTHER              -> Answer(w, answer)
  BY DEF DecideTreasury, IsTreasury
<1>2. /\ work[w] \in WorkerStates /\ work[w].command \in Commands
      /\ message \in TreasuryMessage /\ p = Program(w)
      /\ seen \in ProgramRow \union {None}
      /\ Sound(work[w], programs[p], reservations[p], movements[p])
  <2>1. /\ work[w] \in WorkerStates /\ work[w].command \in Commands
        /\ Sound(work[w], programs[p], reservations[p], movements[p])
    BY <1>1, AtWork
  <2>2. message \in TreasuryMessage
    BY <1>1, <2>1, CommandsTyped
  <2>3. QED
    BY <2>1, <2>2 DEF WorkerStates
<1>3. answer \in Answers
  BY AnswersTyped
<1>4. /\ answer = "CREATED" => seen = None
      /\ answer \in {"APPLIED", "STALE"} => seen # None
  BY DEF TreasuryAnswer, TreasuryRefusal
<1>5. seen # None => seen = programs[p] /\ Holds(work[w])
  BY <1>1, <1>2, SeenIsLocked
<1>6. /\ answer = "CREATED" => OpenWrites(message) \in Writes
      /\ answer = "APPLIED" => UpdateWrites(seen, message) \in Writes
      /\ StaleWrites(message) \in Writes
  BY <1>2, TreasuryWritesTypes
<1>7. ASSUME NEW s \in WorkerStates,
             s.step \in {"inserting", "saving", "recording"}, s.answer = answer,
             s.command = work[w].command, s.rate = work[w].rate,
             s.seen = seen, s.retried = work[w].retried,
             s.step = "inserting" => seen = None,
             s.step # "inserting" => seen # None,
             TreasuryDecided(s, seen)
      PROVE  SoundAt(s, p) /\ (Holds(s) => Holds(work[w]))
  <2>1. CASE s.step = "inserting"
    <3>1. TreasuryDecided(s, None) /\ ~ Holds(s)
      BY <1>7, <2>1 DEF Holds
    <3> HIDE DEF answer
    <3>2. QED
      BY <1>1, <1>2, <1>7, <2>1, <3>1 DEF SoundAt, Sound
  <2>2. CASE s.step # "inserting"
    <3>1. seen = programs[p] /\ Holds(work[w]) /\ TreasuryDecided(s, programs[p])
      BY <1>5, <1>7, <2>2
    <3> HIDE DEF answer
    <3>2. QED
      BY <1>1, <1>2, <1>7, <2>2, <3>1 DEF SoundAt, Sound
  <2>3. QED
    BY <2>1, <2>2
<1> HIDE DEF p, seen, answer
<1>8. CASE answer = "CREATED"
  <2> DEFINE writes == OpenWrites(message)
  <2>1. Stage(w, "inserting", answer, writes) /\ writes \in Writes
    BY <1>1, <1>6, <1>8
  <2> HIDE DEF writes
  <2>2. ASSUME NEW s \in WorkerStates,
               s.step = "inserting", s.answer = answer, s.writes = writes,
               s.command = work[w].command, s.rate = work[w].rate,
               s.seen = work[w].seen, s.retried = work[w].retried
        PROVE  SoundAt(s, p) /\ (Holds(s) => Holds(work[w]))
    <3>1. TreasuryDecided(s, seen)
      BY <1>1, <1>8, <2>2 DEF TreasuryDecided, answer, writes
    <3>2. s.seen = seen
      BY <2>2 DEF seen
    <3>3. QED
      BY <1>4, <1>7, <1>8, <2>2, <3>1, <3>2
  <2>3. QED
    BY <1>1, <1>2, <1>3, <2>1, <2>2, StageKeeps
<1>9. CASE answer = "APPLIED"
  <2> DEFINE writes == UpdateWrites(seen, message)
  <2>1. Stage(w, "saving", answer, writes) /\ writes \in Writes
    BY <1>1, <1>6, <1>9
  <2> HIDE DEF writes
  <2>2. ASSUME NEW s \in WorkerStates,
               s.step = "saving", s.answer = answer, s.writes = writes,
               s.command = work[w].command, s.rate = work[w].rate,
               s.seen = work[w].seen, s.retried = work[w].retried
        PROVE  SoundAt(s, p) /\ (Holds(s) => Holds(work[w]))
    <3>1. TreasuryDecided(s, seen)
      BY <1>1, <1>9, <2>2 DEF TreasuryDecided, answer, writes
    <3>2. s.seen = seen
      BY <2>2 DEF seen
    <3>3. QED
      BY <1>4, <1>7, <1>9, <2>2, <3>1, <3>2
  <2>3. QED
    BY <1>1, <1>2, <1>3, <2>1, <2>2, StageKeeps
<1>10. CASE answer = "STALE"
  <2> DEFINE writes == StaleWrites(message)
  <2>1. Stage(w, "recording", answer, writes) /\ writes \in Writes
    BY <1>1, <1>6, <1>10
  <2> HIDE DEF writes
  <2>2. ASSUME NEW s \in WorkerStates,
               s.step = "recording", s.answer = answer, s.writes = writes,
               s.command = work[w].command, s.rate = work[w].rate,
               s.seen = work[w].seen, s.retried = work[w].retried
        PROVE  SoundAt(s, p) /\ (Holds(s) => Holds(work[w]))
    <3>1. TreasuryDecided(s, seen)
      BY <1>1, <1>10, <2>2 DEF TreasuryDecided, answer, writes
    <3>2. s.seen = seen
      BY <2>2 DEF seen
    <3>3. QED
      BY <1>4, <1>7, <1>10, <2>2, <3>1, <3>2
  <2>3. QED
    BY <1>1, <1>2, <1>3, <2>1, <2>2, StageKeeps
<1>11. CASE answer \notin {"CREATED", "APPLIED", "STALE"}
  <2>1. Answer(w, answer)
    BY <1>1, <1>11
  <2>2. QED
    BY <1>1, <1>3, <2>1, AnswerKeeps
<1>12. QED
  BY <1>8, <1>9, <1>10, <1>11

\* A transaction whose statement succeeds keeps everything sound when it holds the
\* row, or nobody does, and when it does not record an event id of another's.
LEMMA AdvanceKeeps ==
  ASSUME TransactionInv, NEW w \in Workers, work[w].step # "idle",
         NEW p, p = Program(w), NEW step \in {"recording", "committing"},
         work' = [work EXCEPT ![w].step = step], UNCHANGED tables,
         \A s \in WorkerStates :
           /\ s.step = step /\ s.answer = work[w].answer /\ s.writes = work[w].writes
           /\ s.command = work[w].command /\ s.rate = work[w].rate
           /\ s.seen = work[w].seen /\ s.retried = work[w].retried
           => SoundAt(s, p),
         Holds(work[w]) \/ ~ RowHeld(p),
         step = "committing" /\ work[w].command.kind = "TREASURY" =>
           /\ ~ RecordedIn(treasuryEvents, EventOf(work[w]))
           /\ \A v \in Workers :
                v # w /\ Records(work[v]) => EventOf(work[v]) # EventOf(work[w])
  PROVE  TransactionInv'
<1> DEFINE s == [work[w] EXCEPT !.step = step]
<1>1. /\ work \in [Workers -> WorkerStates] /\ work[w] \in WorkerStates
      /\ p = work[w].command.request.program
  BY AtWork
<1>2. work' = [work EXCEPT ![w] = s]
  BY <1>1
<1>3. /\ s \in WorkerStates /\ s.step = step /\ s.answer = work[w].answer
      /\ s.writes = work[w].writes /\ s.command = work[w].command
      /\ s.rate = work[w].rate /\ s.seen = work[w].seen /\ s.retried = work[w].retried
  BY <1>1 DEF WorkerStates, Steps
<1> HIDE DEF s
<1>4. SoundAt(s, s.command.request.program)
  BY <1>1, <1>3
<1>5. \A v \in Workers :
        v # w /\ Holds(s) /\ Holds(work[v]) => Program(v) # s.command.request.program
  <2>1. CASE Holds(work[w])
    BY <1>3, <2>1, StillAlone
  <2>2. CASE ~ RowHeld(p)
    BY <1>1, <1>3, <2>2 DEF RowHeld, HoldsRow, Holds
  <2>3. QED
    BY <2>1, <2>2
<1>6. Records(s) =>
        /\ ~ RecordedIn(treasuryEvents, EventOf(s))
        /\ \A v \in Workers : v # w /\ Records(work[v]) => EventOf(work[v]) # EventOf(s)
  BY <1>3 DEF Records, EventOf
<1>7. QED
  BY <1>2, <1>3, <1>4, <1>5, <1>6, StepKeeps

\* Running the command again, once.
LEMMA RetryKeeps ==
  ASSUME TransactionInv, NEW w \in Workers, work[w].step # "idle",
         programs[Program(w)] # None, work[w].command.kind # "RESERVE",
         ~ work[w].retried, RetryOnce(w), UNCHANGED tables
  PROVE  TransactionInv'
<1> DEFINE command == work[w].command
           idle == Idle(command, None)
           begun == [idle EXCEPT !.step = "locking"]
           s == [begun EXCEPT !.retried = TRUE]
<1>1. /\ work \in [Workers -> WorkerStates] /\ command \in Commands
  BY AtWork
<1>2. work' = [work EXCEPT ![w] = s]
  BY <1>1 DEF RetryOnce
<1>3. /\ idle.step = "idle" /\ idle.command = command /\ idle.rate = None
      /\ idle.seen = None /\ idle.retried = FALSE /\ idle.answer = None
      /\ idle \in WorkerStates
  <2>1. /\ idle.step = "idle" /\ idle.command = command /\ idle.rate = None
        /\ idle.seen = None /\ idle.retried = FALSE /\ idle.answer = None
    BY DEF Idle
  <2>2. idle \in WorkerStates
    BY <1>1 DEF Idle, WorkerStates, Steps
  <2>3. QED
    BY <2>1, <2>2
<1> HIDE DEF idle
<1>4. /\ begun \in WorkerStates /\ begun.step = "locking" /\ begun.command = command
      /\ begun.seen = None
  BY <1>3 DEF WorkerStates, Steps
<1> HIDE DEF begun
<1>5. s \in WorkerStates /\ s.step = "locking" /\ s.command = command /\ s.seen = None
  BY <1>4 DEF WorkerStates
<1> HIDE DEF s
<1>6. ~ Holds(s) /\ ~ Records(s)
  BY <1>5 DEF Holds, Records
<1>7. SoundAt(s, s.command.request.program)
  <2>1. s.command.kind # "RESERVE" /\ programs[s.command.request.program] # None
    BY <1>5 DEF Program
  <2>2. QED
    BY <1>1, <1>5, <1>6, <2>1 DEF SoundAt, Sound
<1>8. QED
  BY <1>2, <1>5, <1>6, <1>7, StepKeeps

\* Inserting the program, or finding that another transaction did.
LEMMA InsertKeeps ==
  ASSUME TransactionInv, NEW w \in Workers, InsertProgram(w)
  PROVE  TransactionInv'
<1> DEFINE p == Program(w)
<1>1. /\ work[w].step = "inserting" /\ ~ Waits(w) /\ UNCHANGED tables
      /\ IF programs[p] = None THEN work' = [work EXCEPT ![w].step = "recording"]
                               ELSE RetryOnce(w)
  BY DEF InsertProgram
<1>2. /\ work[w] \in WorkerStates /\ work[w].command \in Commands
      /\ Sound(work[w], programs[p], reservations[p], movements[p])
  BY <1>1, AtWork
<1>3. /\ work[w].seen = None /\ TreasuryDecided(work[w], None) /\ ~ work[w].retried
  BY <1>1, <1>2 DEF Sound, WorkerStates
<1>4. work[w].command.kind = "TREASURY"
  BY <1>3 DEF TreasuryDecided
<1> HIDE DEF p
<1>5. CASE programs[p] # None
  <2>1. RetryOnce(w) /\ programs[Program(w)] # None
    BY <1>1, <1>5 DEF p
  <2>2. QED
    BY <1>1, <1>3, <1>4, <2>1, RetryKeeps
<1>6. CASE programs[p] = None
  <2>1. ~ RowHeld(p)
    BY <1>1, <1>6 DEF Waits, p
  <2>2. ASSUME NEW s \in WorkerStates,
               s.step = "recording", s.answer = work[w].answer, s.writes = work[w].writes,
               s.command = work[w].command, s.rate = work[w].rate,
               s.seen = work[w].seen, s.retried = work[w].retried
        PROVE  SoundAt(s, p)
    <3>1. TreasuryDecided(s, programs[p])
      BY <1>1, <1>3, <1>6, <2>2 DEF TreasuryDecided
    <3>2. QED
      BY <1>2, <1>3, <1>4, <1>6, <2>2, <3>1 DEF SoundAt, Sound
  <2>3. p = Program(w) /\ work' = [work EXCEPT ![w].step = "recording"]
    BY <1>1, <1>6 DEF p
  <2>4. QED
    BY <1>1, <2>1, <2>2, <2>3, AdvanceKeeps
<1>7. QED
  BY <1>5, <1>6

\* Saving the program's row, whose version is the one seen.
LEMMA SaveKeeps ==
  ASSUME TransactionInv, NEW w \in Workers, SaveProgram(w)
  PROVE  TransactionInv'
<1> DEFINE p == Program(w)
           step == IF IsTreasury(w) THEN "recording" ELSE "committing"
<1>1. /\ work[w].step = "saving" /\ UNCHANGED tables
      /\ IF programs[p].version = work[w].seen.version
         THEN work' = [work EXCEPT ![w].step = step]
         ELSE Answer(w, "INVARIANT_VIOLATION")
  BY DEF SaveProgram
<1>2. /\ work[w] \in WorkerStates /\ work[w].command \in Commands
      /\ Sound(work[w], programs[p], reservations[p], movements[p])
  BY <1>1, AtWork
<1>3. /\ Holds(work[w]) /\ work[w].seen = programs[p] /\ work[w].seen # None
      /\ \/ ReserveDecided(work[w], programs[p], reservations[p])
         \/ RepayDecided(work[w], programs[p], reservations[p], movements[p])
         \/ TreasuryDecided(work[w], programs[p])
  BY <1>1, <1>2 DEF Sound, Holds
<1> HIDE DEF p, step
<1>4. work' = [work EXCEPT ![w].step = step]
  BY <1>1, <1>3
<1>5. /\ step = "recording" => work[w].command.kind = "TREASURY"
      /\ step = "committing" => work[w].command.kind # "TREASURY"
      /\ step \in {"recording", "committing"}
  BY DEF step, IsTreasury
<1>6. ASSUME NEW s \in WorkerStates,
             s.step = step, s.answer = work[w].answer, s.writes = work[w].writes,
             s.command = work[w].command, s.rate = work[w].rate,
             s.seen = work[w].seen, s.retried = work[w].retried
      PROVE  SoundAt(s, p)
  <2>1. /\ ReserveDecided(work[w], programs[p], reservations[p]) =>
             ReserveDecided(s, programs[p], reservations[p])
        /\ RepayDecided(work[w], programs[p], reservations[p], movements[p]) =>
             RepayDecided(s, programs[p], reservations[p], movements[p])
        /\ TreasuryDecided(work[w], programs[p]) => TreasuryDecided(s, programs[p])
    BY <1>1, <1>5, <1>6 DEF ReserveDecided, RepayDecided, TreasuryDecided
  <2>2. QED
    BY <1>1, <1>2, <1>3, <1>5, <1>6, <2>1 DEF SoundAt, Sound
<1>7. p = Program(w)
  BY DEF p
<1>8. QED
  BY <1>1, <1>3, <1>4, <1>5, <1>6, <1>7, AdvanceKeeps

\* Recording the message under its event id.
LEMMA RecordKeeps ==
  ASSUME TransactionInv, NEW w \in Workers, RecordEvent(w)
  PROVE  TransactionInv'
<1> DEFINE p == Program(w)
           event == EventOf(work[w])
<1>1. /\ work[w].step = "recording" /\ ~ Waits(w) /\ UNCHANGED tables
      /\ IF RecordedIn(treasuryEvents, event) THEN Answer(w, "DUPLICATE")
         ELSE work' = [work EXCEPT ![w].step = "committing"]
  BY SameTreasury DEF RecordEvent, EventOf
<1>2. /\ work[w] \in WorkerStates /\ work[w].command \in Commands
      /\ Sound(work[w], programs[p], reservations[p], movements[p])
  BY <1>1, AtWork
<1>3. /\ Holds(work[w]) /\ work[w].seen = programs[p]
      /\ TreasuryDecided(work[w], programs[p])
  BY <1>1, <1>2 DEF Sound, Holds, ReserveDecided, RepayDecided
<1>4. CASE RecordedIn(treasuryEvents, event)
  <2>1. Answer(w, "DUPLICATE") /\ "DUPLICATE" \in Answers
    BY <1>1, <1>4 DEF Answers
  <2>2. QED
    BY <1>1, <2>1, AnswerKeeps
<1>5. CASE ~ RecordedIn(treasuryEvents, event)
  <2>1. ~ EventPending(event)
    BY <1>1, <1>5, SameTreasury DEF Waits, EventOf
  <2>2. \A v \in Workers : v # w /\ Records(work[v]) => EventOf(work[v]) # event
    BY <2>1 DEF EventPending, Records, EventOf, IsTreasury
  <2>3. ASSUME NEW s \in WorkerStates,
               s.step = "committing", s.answer = work[w].answer, s.writes = work[w].writes,
               s.command = work[w].command, s.rate = work[w].rate,
               s.seen = work[w].seen, s.retried = work[w].retried
        PROVE  SoundAt(s, p)
    <3>1. TreasuryDecided(s, programs[p])
      BY <1>1, <1>3, <2>3 DEF TreasuryDecided
    <3>2. QED
      BY <1>1, <1>2, <1>3, <2>3, <3>1 DEF SoundAt, Sound
  <2>4. p = Program(w) /\ work' = [work EXCEPT ![w].step = "committing"]
    BY <1>1, <1>5
  <2> HIDE DEF p
  <2>5. QED
    BY <1>1, <1>3, <1>5, <2>2, <2>3, <2>4, AdvanceKeeps
<1>6. QED
  BY <1>4, <1>5

\* A transaction that times out, or loses its connection.
LEMMA FailKeeps ==
  ASSUME TransactionInv, NEW w \in Workers, Fail(w)
  PROVE  TransactionInv'
<1>1. "CAPACITY_BUSY" \in Answers /\ "DATABASE_UNAVAILABLE" \in Answers
  BY DEF Answers
<1>2. CASE LockTimeout(w)
  <2>1. Answer(w, "CAPACITY_BUSY") /\ UNCHANGED tables
    BY <1>2 DEF LockTimeout
  <2>2. QED
    BY <1>1, <2>1, AnswerKeeps
<1>3. CASE IdleTimeout(w) \/ Disconnect(w)
  <2>1. Answer(w, "DATABASE_UNAVAILABLE") /\ UNCHANGED tables
    BY <1>3 DEF IdleTimeout, Disconnect
  <2>2. QED
    BY <1>1, <2>1, AnswerKeeps
<1>4. QED
  BY <1>2, <1>3 DEF Fail


-----------------------------------------------------------------------------
(* Committing a transaction is one command of Capacity.                    *)

\* The rows of a table, the one of an id written.
WithRow(rows, id, row) ==
  [i \in DOMAIN rows \union {id} |-> IF i = id THEN row ELSE rows[i]]

\* With the next id, they are the rows and one more.
LEMMA RowPublished ==
  ASSUME NEW S, NEW rows \in Seq(S), NEW row \in S
  PROVE  WithRow(rows, Len(rows) + 1, row) = Append(rows, row)
<1> DEFINE f == [i \in DOMAIN rows \union {Len(rows) + 1} |->
                   IF i = Len(rows) + 1 THEN row ELSE rows[i]]
<1>1. DOMAIN rows = 1..Len(rows) /\ Len(rows) \in Nat
  OBVIOUS
<1>2. DOMAIN f = 1..(Len(rows) + 1)
  BY <1>1
<1>3. Append(rows, row) \in Seq(S) /\ Len(Append(rows, row)) = Len(rows) + 1
  BY <1>1
<1>4. \A i \in 1..(Len(rows) + 1) : f[i] = Append(rows, row)[i]
  BY <1>1, <1>2
<1>5. Append(rows, row) \in [1..(Len(rows) + 1) -> S]
  <2>1. \A t \in Seq(S) : t \in [1..Len(t) -> S]
    OBVIOUS
  <2>2. QED
    BY <1>3, <2>1
<1>6. f = [i \in 1..(Len(rows) + 1) |-> f[i]]
  BY <1>2
<1> HIDE DEF f
<1>7. Append(rows, row) = [i \in 1..(Len(rows) + 1) |-> Append(rows, row)[i]]
  BY <1>5
<1>8. f = Append(rows, row)
  BY <1>4, <1>6, <1>7
<1>9. QED
  BY <1>8 DEF f, WithRow

\* What a transaction publishes, table by table.
PublishedRows(p, program, id, reservation, added, recorded, events) ==
  /\ programs' = [programs EXCEPT ![p] =
                    IF program = None THEN programs[p] ELSE program]
  /\ reservations' = [reservations EXCEPT ![p] =
                        IF id = 0 THEN reservations[p]
                        ELSE WithRow(reservations[p], id, reservation)]
  /\ movements' = [movements EXCEPT ![p] = movements[p] \o added]
  /\ treasuryEvents' = [treasuryEvents EXCEPT ![p] = treasuryEvents[p] \o recorded]
  /\ outbox' = [outbox EXCEPT ![p] = outbox[p] \o events]

\* What becomes visible is what the transaction wrote.
LEMMA Published ==
  ASSUME NEW w \in Workers, Publish(w), NEW p, p = Program(w),
         NEW program, NEW id, NEW reservation, NEW added, NEW recorded, NEW events,
         work[w].writes = Written(program, id, reservation, added, recorded, events)
  PROVE  PublishedRows(p, program, id, reservation, added, recorded, events)
<1>1. /\ work[w].writes.program = program /\ work[w].writes.id = id
      /\ work[w].writes.reservation = reservation /\ work[w].writes.movements = added
      /\ work[w].writes.recorded = recorded /\ work[w].writes.events = events
  BY DEF Written
<1>2. QED
  BY <1>1 DEF Publish, PublishedRows, WithRow

\* The rows of the other programs stay as they are.
OthersUntouched(p) ==
  \A q \in ProgramIds : q # p =>
    /\ programs'[q] = programs[q] /\ reservations'[q] = reservations[q]
    /\ movements'[q] = movements[q] /\ treasuryEvents'[q] = treasuryEvents[q]

\* Publishing a reservation reserves capacity.
LEMMA PublishReserves ==
  ASSUME TransactionInv, NEW w \in Workers, work[w].step = "committing", Publish(w),
         NEW p, p = Program(w), ReserveDecided(work[w], programs[p], reservations[p]),
         NEW request, request = work[w].command.request
  PROVE  /\ P!Next /\ OthersUntouched(p) /\ treasuryEvents' = treasuryEvents
         /\ \E row \in ReservationRow :
              /\ reservations'[p] = Append(reservations[p], row)
              /\ row.invoice = request.invoice /\ row.key = request.key
              /\ SameAmount(row, request.amount)
<1> DEFINE rate == work[w].rate
           toHold == ToProgramCurrency(request.amount, rate)
           row == OpenReservation(request.invoice, request.key, request.amount, rate, toHold)
           reserved == programs[p].reserved + toHold
           program == WithReserved(programs[p], reserved)
           id == Len(reservations[p]) + 1
           movement == ReserveMovement(id, toHold, program)
           event == CapacityReserved(id, program)
<1>1. /\ p \in ProgramIds /\ request \in ReserveRequest /\ p = request.program
      /\ P!TypeInv /\ programs[p] # None
      /\ rate \in RatesInto(programs[p].currency, request.amount)
      /\ ReserveAnswer(programs[p], reservations[p], request, rate) = "CREATED"
      /\ work[w].writes = ReserveWrites(programs[p], reservations[p], request, rate)
  <2>1. /\ p \in ProgramIds /\ p = request.program /\ P!TypeInv
        /\ work[w].command \in Commands
        /\ Sound(work[w], programs[p], reservations[p], movements[p])
    BY AtWork
  <2>2. /\ work[w].command.kind = "RESERVE"
        /\ ReserveAnswer(programs[p], reservations[p], request, rate) = "CREATED"
        /\ work[w].writes = ReserveWrites(programs[p], reservations[p], request, rate)
    BY DEF ReserveDecided
  <2>3. request \in ReserveRequest
    BY <2>1, <2>2, CommandsTyped
  <2>4. QED
    BY <2>1, <2>2, <2>3 DEF Sound
<1>2. /\ programs[p] \in ProgramRow /\ toHold \in Nat \ {0} /\ row \in ReservationRow
  <2>1. /\ request \in P!ReserveRequest
        /\ rate \in P!RatesInto(programs[p].currency, request.amount)
        /\ P!ReserveAnswer(programs[p], reservations[p], request, rate) = "CREATED"
        /\ toHold = P!ToProgramCurrency(request.amount, rate)
        /\ row = P!OpenReservation(request.invoice, request.key, request.amount, rate, toHold)
    BY <1>1, SameTypes, SameReserving
  <2> HIDE DEF toHold, row, rate
  <2>2. /\ programs[p] \in P!ProgramRow
        /\ toHold \in Nat \ {0} /\ row \in P!ReservationRow
    BY <1>1, <2>1, Assumed, P!ReserveDecides
  <2>3. QED
    BY <2>2, SameTypes
<1>3. /\ reservations[p] \in Seq(ReservationRow) /\ movements[p] \in Seq(MovementRow)
      /\ treasuryEvents[p] \in Seq(TreasuryRow) /\ outbox[p] \in Seq(OutboxEvent)
      /\ id \in Nat \ {0}
      /\ programs \in [ProgramIds -> ProgramRow \union {None}]
      /\ reservations \in [ProgramIds -> Seq(ReservationRow)]
      /\ movements \in [ProgramIds -> Seq(MovementRow)]
      /\ treasuryEvents \in [ProgramIds -> Seq(TreasuryRow)]
  BY <1>1, TablesOf
<1>4. work[w].writes = Written(program, id, row, <<movement>>, <<>>, <<event>>)
  BY <1>1, ReserveWritten
<1>5. program \in ProgramRow /\ Available(program) \in Int
  <2> HIDE DEF toHold
  <2>1. reserved \in Nat
    BY <1>2 DEF ProgramRow
  <2> HIDE DEF reserved
  <2>2. /\ program = P!WithReserved(programs[p], reserved)
        /\ Available(program) = P!Available(program)
        /\ programs[p] \in P!ProgramRow
    BY <1>2, SameTypes, SameReserving
  <2> HIDE DEF program
  <2>3. program \in P!ProgramRow /\ P!Available(program) \in Int
    BY <2>1, <2>2, Assumed, P!CounterWritten
  <2>4. QED
    BY <2>2, <2>3, SameTypes
<1>6. movement \in MovementRow /\ event \in OutboxEvent
  <2> HIDE DEF toHold, program, id
  <2>1. QED
    BY <1>2, <1>3, <1>5 DEF ReserveMovement, CapacityReserved, MovementRow, OutboxEvent
<1>7. /\ programs' = [programs EXCEPT ![p] = program]
      /\ reservations' = [reservations EXCEPT ![p] = Append(reservations[p], row)]
      /\ movements' = [movements EXCEPT ![p] = Append(movements[p], movement)]
      /\ treasuryEvents' = treasuryEvents
      /\ outbox' = [outbox EXCEPT ![p] = Append(outbox[p], event)]
  <2> DEFINE added == <<movement>>
             none == <<>>
             events == <<event>>
  <2>1. /\ movements[p] \o added = Append(movements[p], movement)
        /\ outbox[p] \o events = Append(outbox[p], event)
        /\ treasuryEvents[p] \o none = treasuryEvents[p]
    <3> HIDE DEF movement, event
    <3>1. QED
      BY <1>3, <1>6
  <2>2. work[w].writes = Written(program, id, row, added, none, events)
    BY <1>4
  <2> HIDE DEF added, none, events, movement, event, program, row
  <2>3. WithRow(reservations[p], id, row) = Append(reservations[p], row)
    BY <1>2, <1>3, RowPublished
  <2>4. program # None
    BY <1>5, NullAssumption
  <2> HIDE DEF id
  <2>5. /\ programs' = [programs EXCEPT ![p] =
                           IF program = None THEN programs[p] ELSE program]
        /\ reservations' = [reservations EXCEPT ![p] =
                               IF id = 0 THEN reservations[p]
                               ELSE WithRow(reservations[p], id, row)]
        /\ movements' = [movements EXCEPT ![p] = movements[p] \o added]
        /\ treasuryEvents' = [treasuryEvents EXCEPT ![p] = treasuryEvents[p] \o none]
        /\ outbox' = [outbox EXCEPT ![p] = outbox[p] \o events]
    <3>1. PublishedRows(p, program, id, row, added, none, events)
      BY <2>2, Published
    <3>2. QED
      BY <3>1 DEF PublishedRows
  <2>6. id # 0
    BY <1>3
  <2>7. [treasuryEvents EXCEPT ![p] = treasuryEvents[p]] = treasuryEvents
    BY <1>1, <1>3
  <2>8. QED
    BY <2>1, <2>3, <2>4, <2>5, <2>6, <2>7
<1>8. /\ request \in P!ReserveRequest
      /\ rate \in P!RatesInto(programs[p].currency, request.amount)
      /\ P!ReserveAnswer(programs[p], reservations[p], request, rate) = "CREATED"
      /\ P!ToProgramCurrency(request.amount, rate) = toHold
      /\ P!OpenReservation(request.invoice, request.key, request.amount, rate, toHold) = row
      /\ P!WithReserved(programs[p], programs[p].reserved + toHold) = program
      /\ P!ReserveMovement(id, toHold, program) = movement
      /\ P!CapacityReserved(id, program) = event
  <2>1. QED
    BY <1>1, SameTypes, SameReserving
<1>9. P!ReserveCapacity(request, rate)
  <2> HIDE DEF row, program, movement, event, toHold, rate
  <2>1. QED
    BY <1>1, <1>7, <1>8 DEF P!ReserveCapacity
<1>10. P!Next
  <2> HIDE DEF rate
  <2>1. QED
    BY <1>1, <1>8, <1>9 DEF P!Next, P!Reserve
<1>11. OthersUntouched(p) /\ reservations'[p] = Append(reservations[p], row)
  <2> HIDE DEF program, row, movement, event
  <2>1. QED
    BY <1>1, <1>3, <1>7 DEF OthersUntouched
<1>12. /\ row.invoice = request.invoice /\ row.key = request.key
       /\ SameAmount(row, request.amount)
  BY DEF OpenReservation, SameAmount
<1> HIDE DEF row
<1>13. QED
  BY <1>2, <1>7, <1>10, <1>11, <1>12

\* Publishing a repayment records it and releases capacity.
LEMMA PublishRepays ==
  ASSUME TransactionInv, NEW w \in Workers, work[w].step = "committing", Publish(w),
         NEW p, p = Program(w),
         RepayDecided(work[w], programs[p], reservations[p], movements[p]),
         NEW request, request = work[w].command.request
  PROVE  /\ P!Next /\ OthersUntouched(p) /\ treasuryEvents' = treasuryEvents
         /\ \E movement \in MovementRow :
              /\ movements'[p] = Append(movements[p], movement)
              /\ movement.type = "RELEASE" /\ movement.repayment = request.repayment
<1> DEFINE id == ActiveId(reservations[p], request.invoice)
           before == reservations[p][id]
           after == RecordRepayment(before, RepaidAmount(before, request).minor)
           reserved == programs[p].reserved - (after.released - before.released)
           program == ReleaseFrom(programs[p], before, after)
           movement == ReleaseMovement(id, before, after, program, request.repayment)
           event == CapacityReleased(id, after, program)
<1>1. /\ p \in ProgramIds /\ request \in RepaymentRequest /\ p = request.program
      /\ P!TypeInv
      /\ RepayAnswer(programs[p], reservations[p], movements[p], request) = "APPLIED"
      /\ work[w].writes = RepayWrites(programs[p], reservations[p], request)
  <2>1. /\ p \in ProgramIds /\ p = request.program /\ P!TypeInv
        /\ work[w].command \in Commands
    BY AtWork
  <2>2. /\ work[w].command.kind = "REPAY"
        /\ RepayAnswer(programs[p], reservations[p], movements[p], request) = "APPLIED"
        /\ work[w].writes = RepayWrites(programs[p], reservations[p], request)
    BY DEF RepayDecided
  <2>3. request \in RepaymentRequest
    BY <2>1, <2>2, CommandsTyped
  <2>4. QED
    BY <2>1, <2>2, <2>3
<1>2. /\ programs[p] \in ProgramRow /\ id \in DOMAIN reservations[p]
      /\ before \in ReservationRow /\ after \in ReservationRow
      /\ after.repaid - before.repaid \in Nat \ {0}
      /\ after.released - before.released \in Nat
      /\ after.released - before.released <= programs[p].reserved
  <2>1. /\ request \in P!RepaymentRequest
        /\ P!RepayAnswer(programs[p], reservations[p], movements[p], request) = "APPLIED"
        /\ id = P!ActiveId(reservations[p], request.invoice)
        /\ after = P!RecordRepayment(before, P!RepaidAmount(before, request).minor)
    BY <1>1, SameTypes, SameRepaying
  <2>2. before = reservations[p][id]
    OBVIOUS
  <2> HIDE DEF id, before, after, reserved, program, movement, event
  <2>3. /\ programs[p] \in P!ProgramRow /\ id \in DOMAIN reservations[p]
        /\ before \in P!ReservationRow /\ after \in P!ReservationRow
        /\ after.repaid - before.repaid \in Nat \ {0}
        /\ after.released - before.released \in Nat
        /\ after.released - before.released <= programs[p].reserved
    BY <1>1, <2>1, <2>2, Assumed, P!RepayDecides, ZenonT(40)
  <2>4. QED
    BY <2>3, SameTypes
<1>3. /\ reservations[p] \in Seq(ReservationRow) /\ movements[p] \in Seq(MovementRow)
      /\ treasuryEvents[p] \in Seq(TreasuryRow) /\ outbox[p] \in Seq(OutboxEvent)
      /\ programs \in [ProgramIds -> ProgramRow \union {None}]
      /\ reservations \in [ProgramIds -> Seq(ReservationRow)]
      /\ movements \in [ProgramIds -> Seq(MovementRow)]
      /\ treasuryEvents \in [ProgramIds -> Seq(TreasuryRow)]
  BY <1>1, TablesOf
<1>4. id \in Nat \ {0}
  <2> HIDE DEF id
  <2>1. QED
    BY <1>2, <1>3
<1>5. work[w].writes = Written(program, id, after, <<movement>>, <<>>, <<event>>)
  <2>1. RepayWrites(programs[p], reservations[p], request) =
          WithHold(program, id, after, <<movement>>, <<event>>)
    BY DEF RepayWrites, WithHold
  <2> HIDE DEF id, before, after, program, reserved, movement, event
  <2>2. WithHold(program, id, after, <<movement>>, <<event>>) =
          Written(program, id, after, <<movement>>, <<>>, <<event>>)
    BY HoldWritten
  <2>3. QED
    BY <1>1, <2>1, <2>2
<1>6. program \in ProgramRow /\ Available(program) \in Int
  <2>1. program = WithReserved(programs[p], reserved)
    BY DEF ReleaseFrom
  <2> HIDE DEF program, after, before, id
  <2>2. reserved \in Nat
    <3> DEFINE freed == after.released - before.released
    <3>1. freed \in Nat /\ freed <= programs[p].reserved /\ programs[p].reserved \in Nat
      BY <1>2 DEF ProgramRow
    <3> HIDE DEF freed
    <3>2. programs[p].reserved - freed \in Nat
      BY <3>1
    <3>3. QED
      BY <3>2 DEF freed
  <2> HIDE DEF reserved
  <2>3. /\ program = P!WithReserved(programs[p], reserved)
        /\ Available(program) = P!Available(program)
        /\ programs[p] \in P!ProgramRow
    BY <1>2, <2>1, SameTypes, SameReserving
  <2>4. program \in P!ProgramRow /\ P!Available(program) \in Int
    BY <2>2, <2>3, Assumed, P!CounterWritten
  <2>5. QED
    BY <2>3, <2>4, SameTypes
<1>7. movement \in MovementRow /\ event \in OutboxEvent
  <2>1. request.repayment \in RepaymentIds /\ after.invoiceCurrency \in Currencies
    <3> HIDE DEF after
    <3>1. QED
      BY <1>1, <1>2 DEF RepaymentRequest, ReservationRow
  <2> HIDE DEF after, before, program, id
  <2>2. movement \in MovementRow
    BY <1>2, <1>4, <1>6, <2>1 DEF ReleaseMovement, MovementRow
  <2>3. event \in OutboxEvent
    BY <1>4, <1>6 DEF CapacityReleased, OutboxEvent
  <2>4. QED
    BY <2>2, <2>3
<1>8. /\ programs' = [programs EXCEPT ![p] = program]
      /\ reservations' = [reservations EXCEPT ![p] = [reservations[p] EXCEPT ![id] = after]]
      /\ movements' = [movements EXCEPT ![p] = Append(movements[p], movement)]
      /\ treasuryEvents' = treasuryEvents
      /\ outbox' = [outbox EXCEPT ![p] = Append(outbox[p], event)]
  <2> DEFINE added == <<movement>>
             none == <<>>
             events == <<event>>
  <2>1. /\ movements[p] \o added = Append(movements[p], movement)
        /\ outbox[p] \o events = Append(outbox[p], event)
        /\ treasuryEvents[p] \o none = treasuryEvents[p]
    <3> HIDE DEF movement, event
    <3>1. QED
      BY <1>3, <1>7
  <2>2. work[w].writes = Written(program, id, after, added, none, events)
    BY <1>5
  <2> HIDE DEF added, none, events, movement, event, program, after, before, id, reserved
  <2>3. WithRow(reservations[p], id, after) = [reservations[p] EXCEPT ![id] = after]
    <3>1. /\ DOMAIN reservations[p] \union {id} = DOMAIN reservations[p]
          /\ reservations[p] = [i \in DOMAIN reservations[p] |-> reservations[p][i]]
      BY <1>2, <1>3
    <3>2. QED
      BY <3>1 DEF WithRow
  <2>4. program # None
    BY <1>6, NullAssumption
  <2>5. PublishedRows(p, program, id, after, added, none, events)
    BY <2>2, Published
  <2>6. id # 0
    BY <1>4
  <2>7. [treasuryEvents EXCEPT ![p] = treasuryEvents[p]] = treasuryEvents
    BY <1>1, <1>3
  <2>8. QED
    BY <2>1, <2>3, <2>4, <2>5, <2>6, <2>7 DEF PublishedRows
<1>9. /\ request \in P!RepaymentRequest
      /\ P!RepayAnswer(programs[p], reservations[p], movements[p], request) = "APPLIED"
      /\ P!ActiveId(reservations[p], request.invoice) = id
      /\ P!RecordRepayment(before, P!RepaidAmount(before, request).minor) = after
      /\ P!ReleaseFrom(programs[p], before, after) = program
      /\ P!ReleaseMovement(id, before, after, program, request.repayment) = movement
      /\ P!CapacityReleased(id, after, program) = event
  BY <1>1, SameTypes, SameRepaying
<1>10. before = reservations[p][id]
  OBVIOUS
<1>11. P!RecordRepaymentFor(request)
  <2> HIDE DEF program, movement, event, after, before, id, reserved
  <2>1. QED
    BY <1>1, <1>8, <1>9, <1>10 DEF P!RecordRepaymentFor
<1>12. P!Next
  BY <1>9, <1>11 DEF P!Next, P!Repay
<1>13. OthersUntouched(p) /\ movements'[p] = Append(movements[p], movement)
  <2> HIDE DEF program, movement, event, after, before, id, reserved
  <2>1. QED
    BY <1>1, <1>3, <1>8 DEF OthersUntouched
<1>14. movement.type = "RELEASE" /\ movement.repayment = request.repayment
  BY DEF ReleaseMovement
<1> HIDE DEF movement
<1>15. QED
  BY <1>7, <1>8, <1>12, <1>13, <1>14

\* A message recorded is recorded, and no other is.
LEMMA MessageRecorded ==
  ASSUME treasuryEvents \in [ProgramIds -> Seq(TreasuryRow)], NEW p \in ProgramIds,
         NEW row \in TreasuryRow,
         treasuryEvents' = [treasuryEvents EXCEPT ![p] = Append(treasuryEvents[p], row)]
  PROVE  \A event : RecordedIn(treasuryEvents', event) <=>
                      RecordedIn(treasuryEvents, event) \/ row.message.event = event
<1> DEFINE log == treasuryEvents[p]
<1>1. /\ log \in Seq(TreasuryRow) /\ Len(log) \in Nat /\ DOMAIN log = 1..Len(log)
      /\ treasuryEvents'[p] = Append(log, row)
      /\ \A q \in ProgramIds : q # p => treasuryEvents'[q] = treasuryEvents[q]
  OBVIOUS
<1> HIDE DEF log
<1>2. /\ DOMAIN Append(log, row) = 1..(Len(log) + 1)
      /\ \A i \in DOMAIN log : Append(log, row)[i] = log[i]
      /\ Append(log, row)[Len(log) + 1] = row
  BY <1>1
<1>3. ASSUME NEW event, RecordedIn(treasuryEvents', event)
      PROVE  RecordedIn(treasuryEvents, event) \/ row.message.event = event
  <2>1. PICK q \in ProgramIds : \E i \in DOMAIN treasuryEvents'[q] :
          treasuryEvents'[q][i].message.event = event
    BY <1>3 DEF RecordedIn
  <2>2. CASE q # p
    BY <1>1, <2>1, <2>2 DEF RecordedIn
  <2>3. CASE q = p
    <3>1. PICK i \in 1..(Len(log) + 1) : Append(log, row)[i].message.event = event
      BY <1>1, <1>2, <2>1, <2>3
    <3>2. CASE i = Len(log) + 1
      BY <1>2, <3>1, <3>2
    <3>3. CASE i # Len(log) + 1
      <4>1. i \in DOMAIN log
        BY <1>1, <3>1, <3>3
      <4>2. log[i].message.event = event
        BY <1>2, <3>1, <4>1
      <4>3. QED
        BY <4>1, <4>2 DEF RecordedIn, log
    <3>4. QED
      BY <3>2, <3>3
  <2>4. QED
    BY <2>2, <2>3
<1>4. ASSUME NEW event, RecordedIn(treasuryEvents, event)
      PROVE  RecordedIn(treasuryEvents', event)
  <2>1. PICK q \in ProgramIds : \E i \in DOMAIN treasuryEvents[q] :
          treasuryEvents[q][i].message.event = event
    BY <1>4 DEF RecordedIn
  <2>2. CASE q # p
    BY <1>1, <2>1, <2>2 DEF RecordedIn
  <2>3. CASE q = p
    <3>1. PICK i \in DOMAIN log : log[i].message.event = event
      BY <2>1, <2>3 DEF log
    <3>2. i \in DOMAIN treasuryEvents'[p] /\ treasuryEvents'[p][i].message.event = event
      BY <1>1, <1>2, <3>1
    <3>3. QED
      BY <3>2 DEF RecordedIn
  <2>4. QED
    BY <2>2, <2>3
<1>5. RecordedIn(treasuryEvents', row.message.event)
  <2>1. /\ Len(log) + 1 \in DOMAIN treasuryEvents'[p]
        /\ treasuryEvents'[p][Len(log) + 1] = row
    BY <1>1, <1>2
  <2>2. QED
    BY <2>1 DEF RecordedIn
<1>6. QED
  BY <1>3, <1>4, <1>5

\* What publishing a message and its program does to the tables.
MessagePublished(p, message, program, applied, events) ==
  /\ programs' = [programs EXCEPT ![p] = IF program = None THEN programs[p] ELSE program]
  /\ P!RecordTreasuryEvent(message, applied)
  /\ outbox' = [outbox EXCEPT ![p] = outbox[p] \o events]
  /\ UNCHANGED <<reservations, movements>>
  /\ OthersUntouched(p)
  /\ \A event : RecordedIn(treasuryEvents', event) <=>
                  RecordedIn(treasuryEvents, event) \/ message.event = event

\* Publishing what a message made of its program applies the message, or records
\* that it was stale.
LEMMA PublishApplies ==
  ASSUME TransactionInv, NEW w \in Workers, work[w].step = "committing", Publish(w),
         NEW p, p = Program(w), TreasuryDecided(work[w], programs[p]),
         NEW message, message = work[w].command.request
  PROVE  /\ P!Next /\ OthersUntouched(p)
         /\ \A event : RecordedIn(treasuryEvents', event) <=>
                         RecordedIn(treasuryEvents, event) \/ message.event = event
<1>1. /\ p \in ProgramIds /\ message \in TreasuryMessage /\ p = message.program
      /\ P!TypeInv /\ programs[p] \in ProgramRow \union {None}
  <2>1. /\ p \in ProgramIds /\ p = message.program /\ P!TypeInv
        /\ work[w].command \in Commands /\ programs[p] \in ProgramRow \union {None}
    BY AtWork
  <2>2. message \in TreasuryMessage
    BY <2>1, CommandsTyped DEF TreasuryDecided
  <2>3. QED
    BY <2>1, <2>2
<1>2. ~ P!EventRecorded(message.event)
  <2>1. Records(work[w]) /\ EventOf(work[w]) = message.event
    BY DEF Records, EventOf, TreasuryDecided
  <2>2. ~ RecordedIn(treasuryEvents, message.event)
    BY <2>1 DEF TransactionInv, EventsNew
  <2>3. QED
    BY <2>2, SameTreasury
<1>3. /\ reservations[p] \in Seq(ReservationRow) /\ movements[p] \in Seq(MovementRow)
      /\ treasuryEvents[p] \in Seq(TreasuryRow) /\ outbox[p] \in Seq(OutboxEvent)
      /\ programs \in [ProgramIds -> ProgramRow \union {None}]
      /\ reservations \in [ProgramIds -> Seq(ReservationRow)]
      /\ movements \in [ProgramIds -> Seq(MovementRow)]
      /\ treasuryEvents \in [ProgramIds -> Seq(TreasuryRow)]
      /\ outbox \in [ProgramIds -> Seq(OutboxEvent)]
  BY <1>1, TablesOf
<1> DEFINE none == <<>>
<1>4. ASSUME NEW program, NEW applied \in BOOLEAN, NEW events,
             work[w].writes =
               Written(program, 0, None, none, <<[message |-> message, applied |-> applied]>>,
                       events)
      PROVE  MessagePublished(p, message, program, applied, events)
  <2> DEFINE row == [message |-> message, applied |-> applied]
             recorded == <<row>>
  <2>1. row \in TreasuryRow /\ row.message = message
    BY <1>1 DEF TreasuryRow
  <2>2. /\ treasuryEvents[p] \o recorded = Append(treasuryEvents[p], row)
        /\ movements[p] \o none = movements[p]
    <3> HIDE DEF row
    <3>1. QED
      BY <1>3, <2>1
  <2>3. work[w].writes = Written(program, 0, None, none, recorded, events)
    BY <1>4
  <2> HIDE DEF none, recorded
  <2> DEFINE zero == 0
  <2>4. zero = 0
    OBVIOUS
  <2> HIDE DEF zero, row
  <2>5. PublishedRows(p, program, zero, None, none, recorded, events)
    BY <2>3, <2>4, Published
  <2>6. /\ programs' = [programs EXCEPT ![p] =
                          IF program = None THEN programs[p] ELSE program]
        /\ treasuryEvents' = [treasuryEvents EXCEPT ![p] = Append(treasuryEvents[p], row)]
        /\ outbox' = [outbox EXCEPT ![p] = outbox[p] \o events]
    BY <2>2, <2>5 DEF PublishedRows
  <2>7. UNCHANGED <<reservations, movements>>
    <3>1. /\ [reservations EXCEPT ![p] = reservations[p]] = reservations
          /\ [movements EXCEPT ![p] = movements[p]] = movements
      BY <1>1, <1>3
    <3>2. /\ reservations' = [reservations EXCEPT ![p] = reservations[p]]
          /\ movements' = [movements EXCEPT ![p] = movements[p]]
      BY <2>2, <2>4, <2>5 DEF PublishedRows
    <3>3. QED
      BY <3>1, <3>2
  <2>8. P!RecordTreasuryEvent(message, applied)
    BY <1>1, <2>6 DEF P!RecordTreasuryEvent, row
  <2>9. OthersUntouched(p)
    BY <1>1, <1>3, <2>6, <2>7 DEF OthersUntouched
  <2>10. \A event : RecordedIn(treasuryEvents', event) <=>
                      RecordedIn(treasuryEvents, event) \/ message.event = event
    BY <1>1, <1>3, <2>1, <2>6, MessageRecorded
  <2>11. QED
    BY <2>6, <2>7, <2>8, <2>9, <2>10 DEF MessagePublished
<1>5. message \in P!TreasuryMessage
  BY <1>1, SameTypes
<1>6. CASE work[w].answer = "CREATED"
  <2> DEFINE program == OpenedBy(message)
             event == ProgramOpened(program)
             events == <<event>>
  <2>1. /\ TreasuryAnswer(programs[p], message) = "CREATED"
        /\ work[w].writes = OpenWrites(message)
    BY <1>6 DEF TreasuryDecided
  <2>2. work[w].writes =
          Written(program, 0, None, none, <<[message |-> message, applied |-> TRUE]>>, events)
    BY <2>1, TreasuryWritten
  <2>3. program # None /\ event \in OutboxEvent
    <3>1. program \in ProgramRow
      BY <1>1, <2>1, TreasuryWritesTypes
    <3> HIDE DEF program
    <3>2. QED
      BY <3>1, NullAssumption DEF ProgramOpened, ProgramRow, OutboxEvent
  <2>4. outbox[p] \o events = Append(outbox[p], event)
    <3> HIDE DEF event
    <3>1. QED
      BY <1>3, <2>3
  <2>5. /\ P!TreasuryAnswer(programs[p], message) = "CREATED"
        /\ P!OpenedBy(message) = program /\ P!ProgramOpened(program) = event
    BY <2>1, SameTreasury
  <2> HIDE DEF events, event, program, none
  <2> DEFINE applied == TRUE
  <2>6. /\ work[w].writes =
             Written(program, 0, None, none, <<[message |-> message, applied |-> applied]>>,
                     events)
        /\ applied \in BOOLEAN /\ applied = TRUE
    BY <2>2
  <2> HIDE DEF applied
  <2>7. /\ programs' = [programs EXCEPT ![p] = program]
        /\ P!RecordTreasuryEvent(message, applied)
        /\ outbox' = [outbox EXCEPT ![p] = Append(outbox[p], event)]
        /\ UNCHANGED <<reservations, movements>>
        /\ OthersUntouched(p)
        /\ \A recorded : RecordedIn(treasuryEvents', recorded) <=>
                           RecordedIn(treasuryEvents, recorded) \/ message.event = recorded
    <3>1. MessagePublished(p, message, program, applied, events)
      BY <1>4, <2>6
    <3>2. QED
      BY <2>3, <2>4, <3>1 DEF MessagePublished
  <2>8. P!OpenFromTreasury(message)
    BY <1>1, <1>2, <2>5, <2>6, <2>7 DEF P!OpenFromTreasury
  <2>9. QED
    BY <1>5, <2>7, <2>8 DEF P!Next, P!Treasury
<1>7. CASE work[w].answer = "APPLIED"
  <2> DEFINE before == programs[p]
             after == ApplyTreasuryState(before, message)
             program == Saved(after)
             events == TreasuryUpdateEvents(before, after)
  <2>1. /\ TreasuryAnswer(before, message) = "APPLIED"
        /\ work[w].writes = UpdateWrites(before, message)
    BY <1>7 DEF TreasuryDecided
  <2>2. work[w].writes =
          Written(program, 0, None, none, <<[message |-> message, applied |-> TRUE]>>, events)
    BY <2>1, TreasuryWritten
  <2>3. program # None
    BY <1>1, <2>1, TreasuryWritesTypes, NullAssumption
  <2>4. /\ P!TreasuryAnswer(programs[p], message) = "APPLIED"
        /\ P!ApplyTreasuryState(before, message) = after /\ P!Saved(after) = program
        /\ P!TreasuryUpdateEvents(before, after) = events
    BY <2>1, SameTreasury
  <2>5. before = programs[p]
    OBVIOUS
  <2> HIDE DEF events, after, program, before, none
  <2> DEFINE applied == TRUE
  <2>6. /\ work[w].writes =
             Written(program, 0, None, none, <<[message |-> message, applied |-> applied]>>,
                     events)
        /\ applied \in BOOLEAN /\ applied = TRUE
    BY <2>2
  <2> HIDE DEF applied
  <2>7. /\ programs' = [programs EXCEPT ![p] = program]
        /\ P!RecordTreasuryEvent(message, applied)
        /\ outbox' = [outbox EXCEPT ![p] = outbox[p] \o events]
        /\ UNCHANGED <<reservations, movements>>
        /\ OthersUntouched(p)
        /\ \A recorded : RecordedIn(treasuryEvents', recorded) <=>
                           RecordedIn(treasuryEvents, recorded) \/ message.event = recorded
    <3>1. MessagePublished(p, message, program, applied, events)
      BY <1>4, <2>6
    <3>2. QED
      BY <2>3, <3>1 DEF MessagePublished
  <2>8. P!UpdateFromTreasury(message)
    BY <1>1, <1>2, <2>4, <2>5, <2>6, <2>7 DEF P!UpdateFromTreasury
  <2>9. QED
    BY <1>5, <2>7, <2>8 DEF P!Next, P!Treasury
<1>8. CASE work[w].answer = "STALE"
  <2>1. /\ TreasuryAnswer(programs[p], message) = "STALE"
        /\ work[w].writes = StaleWrites(message)
    BY <1>8 DEF TreasuryDecided
  <2> DEFINE applied == FALSE
             program == None
             events == <<>>
  <2>2. /\ work[w].writes =
             Written(program, 0, None, none, <<[message |-> message, applied |-> applied]>>,
                     events)
        /\ applied \in BOOLEAN /\ applied = FALSE /\ program = None
        /\ outbox[p] \o events = outbox[p]
    <3>1. work[w].writes =
            Written(None, 0, None, <<>>, <<[message |-> message, applied |-> FALSE]>>, <<>>)
      BY <2>1, TreasuryWritten
    <3>2. outbox[p] \o events = outbox[p]
      BY <1>3
    <3>3. QED
      BY <3>1, <3>2
  <2> HIDE DEF applied, none, events, program
  <2>3. /\ programs' = [programs EXCEPT ![p] = programs[p]]
        /\ P!RecordTreasuryEvent(message, applied)
        /\ outbox' = [outbox EXCEPT ![p] = outbox[p]]
        /\ UNCHANGED <<reservations, movements>>
        /\ OthersUntouched(p)
        /\ \A recorded : RecordedIn(treasuryEvents', recorded) <=>
                           RecordedIn(treasuryEvents, recorded) \/ message.event = recorded
    <3>1. MessagePublished(p, message, program, applied, events)
      BY <1>4, <2>2
    <3>2. QED
      BY <2>2, <3>1 DEF MessagePublished
  <2>4. /\ [programs EXCEPT ![p] = programs[p]] = programs
        /\ [outbox EXCEPT ![p] = outbox[p]] = outbox
    BY <1>1, <1>3
  <2>5. P!TreasuryAnswer(programs[p], message) = "STALE"
    BY <2>1, SameTreasury
  <2>6. P!RecordStale(message)
    BY <1>1, <1>2, <2>2, <2>3, <2>4, <2>5 DEF P!RecordStale
  <2>7. QED
    BY <1>5, <2>3, <2>6 DEF P!Next, P!Treasury
<1>9. QED
  BY <1>6, <1>7, <1>8 DEF TreasuryDecided

\* Publishing is a command of Capacity, on one program, and records one message
\* or none.
LEMMA PublishSteps ==
  ASSUME TransactionInv, NEW w \in Workers, work[w].step = "committing", Publish(w),
         NEW p, p = Program(w)
  PROVE  /\ P!Next /\ OthersUntouched(p)
         /\ \A event : RecordedIn(treasuryEvents', event) =>
              \/ RecordedIn(treasuryEvents, event)
              \/ Records(work[w]) /\ EventOf(work[w]) = event
<1> DEFINE request == work[w].command.request
<1>1. request = work[w].command.request
  OBVIOUS
<1> HIDE DEF request
<1>2. \/ ReserveDecided(work[w], programs[p], reservations[p])
      \/ RepayDecided(work[w], programs[p], reservations[p], movements[p])
      \/ TreasuryDecided(work[w], programs[p])
  BY AtWork DEF Sound
<1>3. CASE ReserveDecided(work[w], programs[p], reservations[p])
  <2>1. P!Next /\ OthersUntouched(p) /\ treasuryEvents' = treasuryEvents
    BY <1>1, <1>3, PublishReserves
  <2>2. QED
    BY <2>1
<1>4. CASE RepayDecided(work[w], programs[p], reservations[p], movements[p])
  <2>1. P!Next /\ OthersUntouched(p) /\ treasuryEvents' = treasuryEvents
    BY <1>1, <1>4, PublishRepays
  <2>2. QED
    BY <2>1
<1>5. CASE TreasuryDecided(work[w], programs[p])
  <2>1. /\ P!Next /\ OthersUntouched(p)
        /\ \A event : RecordedIn(treasuryEvents', event) <=>
                        RecordedIn(treasuryEvents, event) \/ request.event = event
    BY <1>1, <1>5, PublishApplies
  <2>2. Records(work[w]) /\ EventOf(work[w]) = request.event
    BY <1>1, <1>5 DEF Records, EventOf, TreasuryDecided
  <2>3. QED
    BY <2>1, <2>2
<1>6. QED
  BY <1>2, <1>3, <1>4, <1>5

\* A worker that holds no row stays sound when another commits a change to its
\* program: the program exists still, in the same currency.
LEMMA OthersStaySound ==
  ASSUME NEW s, NEW program, NEW rows, NEW ledger, Sound(s, program, rows, ledger), ~ Holds(s),
         NEW program2, NEW rows2, NEW ledger2,
         program # None => program2 # None /\ program2.currency = program.currency
  PROVE  Sound(s, program2, rows2, ledger2)
<1>1. s.step \notin {"saving", "recording", "committing"}
  BY DEF Sound, Holds
<1>2. QED
  BY <1>1 DEF Sound

\* Committing leaves everything sound.
LEMMA EndKeeps ==
  ASSUME TransactionInv, NEW w \in Workers, NEW answer \in Answers,
         work[w].step = "committing", Publish(w), Answer(w, answer)
  PROVE  TransactionInv'
<1> DEFINE p == Program(w)
           s == Idle(work[w].command, answer)
<1>1. /\ work \in [Workers -> WorkerStates] /\ work[w].command \in Commands
      /\ p \in ProgramIds /\ P!TypeInv /\ Holds(work[w])
  BY AtWork DEF Holds
<1>2. /\ P!Next /\ OthersUntouched(p)
      /\ \A event : RecordedIn(treasuryEvents', event) =>
           \/ RecordedIn(treasuryEvents, event)
           \/ Records(work[w]) /\ EventOf(work[w]) = event
  BY PublishSteps
<1>3. P!TypeInv'
  BY <1>1, <1>2, Assumed, P!NextTypes
<1>4. programs[p] # None => programs'[p] # None /\ programs'[p].currency = programs[p].currency
  <2>1. P!Kept
    BY <1>1, <1>2, Assumed, P!NextKeeps
  <2>2. QED
    BY <1>1, <2>1 DEF P!Kept, P!KeptOf
<1>5. s \in WorkerStates /\ s.step = "idle" /\ ~ Holds(s) /\ ~ Records(s)
  <2>1. work[w].command \in Commands \union {None}
    BY <1>1
  <2>2. s.step = "idle"
    BY DEF Idle
  <2>3. s \in WorkerStates
    BY <2>1 DEF Idle, WorkerStates, Steps
  <2> HIDE DEF s
  <2>4. QED
    BY <2>2, <2>3 DEF Holds, Records
<1>6. work' = [work EXCEPT ![w] = s]
  BY DEF Answer
<1> HIDE DEF s
<1>7. work'[w] = s /\ \A v \in Workers : v # w => work'[v] = work[v]
  BY <1>1, <1>6
<1>8. WorkTyped'
  BY <1>1, <1>5, <1>6 DEF WorkTyped
<1>9. WorkersSound'
  <2> SUFFICES ASSUME NEW v \in Workers
               PROVE  Sound(work'[v], programs'[work'[v].command.request.program],
                            reservations'[work'[v].command.request.program],
                            movements'[work'[v].command.request.program])
    BY DEF WorkersSound, SoundAt, Program
  <2> DEFINE q == Program(v)
  <2>1. CASE v = w
    BY <1>5, <1>7, <2>1 DEF Sound
  <2>2. CASE v # w /\ work[v].step = "idle"
    BY <1>7, <2>2 DEF Sound
  <2>3. CASE v # w /\ work[v].step # "idle"
    <3>1. q \in ProgramIds /\ Sound(work[v], programs[q], reservations[q], movements[q])
      BY <2>3, AtWork
    <3>2. work'[v] = work[v] /\ q = work'[v].command.request.program
      BY <1>7, <2>3 DEF Program
    <3> HIDE DEF q
    <3>3. CASE q # p
      BY <1>2, <3>1, <3>2, <3>3 DEF OthersUntouched
    <3>4. CASE q = p
      <4>1. ~ Holds(work[v])
        BY <1>1, <2>3, <3>4 DEF TransactionInv, RowsApart, q
      <4>2. Sound(work[v], programs'[q], reservations'[q], movements'[q])
        <5> HIDE DEF p
        <5>1. QED
          BY <1>4, <3>1, <3>4, <4>1, OthersStaySound
      <4>3. QED
        BY <3>2, <4>2
    <3>5. QED
      BY <3>3, <3>4
  <2>4. QED
    BY <2>1, <2>2, <2>3
<1>10. RowsApart'
  <2> SUFFICES ASSUME NEW u \in Workers, NEW v \in Workers,
                      Holds(work'[u]), Holds(work'[v]),
                      work'[u].command.request.program = work'[v].command.request.program
               PROVE  u = v
    BY DEF RowsApart, Program
  <2>1. u # w /\ v # w
    BY <1>5, <1>7
  <2>2. QED
    BY <1>7, <2>1 DEF TransactionInv, RowsApart, Program
<1>11. EventsApart'
  <2> SUFFICES ASSUME NEW u \in Workers, NEW v \in Workers,
                      Records(work'[u]), Records(work'[v]),
                      EventOf(work'[u]) = EventOf(work'[v])
               PROVE  u = v
    BY DEF EventsApart
  <2>1. u # w /\ v # w
    BY <1>5, <1>7
  <2>2. QED
    BY <1>7, <2>1 DEF TransactionInv, EventsApart
<1>12. EventsNew'
  <2> SUFFICES ASSUME NEW v \in Workers, Records(work'[v]),
                      RecordedIn(treasuryEvents', EventOf(work'[v]))
               PROVE  FALSE
    BY DEF EventsNew
  <2>1. v # w
    BY <1>5, <1>7
  <2>2. Records(work[v]) /\ RecordedIn(treasuryEvents', EventOf(work[v]))
    BY <1>7, <2>1
  <2>3. ~ RecordedIn(treasuryEvents, EventOf(work[v]))
    BY <2>2 DEF TransactionInv, EventsNew
  <2>4. Records(work[w]) /\ EventOf(work[w]) = EventOf(work[v])
    BY <1>2, <2>2, <2>3
  <2>5. QED
    BY <2>1, <2>2, <2>4 DEF TransactionInv, EventsApart
<1>13. QED
  BY <1>3, <1>8, <1>9, <1>10, <1>11, <1>12 DEF TransactionInv


-----------------------------------------------------------------------------
(* The invariant, and what it implies.                                     *)

\* Nobody is at work at first, and the tables are empty.
LEMMA InitSound == Init => TransactionInv
<1> SUFFICES ASSUME Init PROVE TransactionInv
  OBVIOUS
<1> DEFINE command == None
           answer == None
           s == Idle(command, answer)
<1>1. P!Init /\ work = [w \in Workers |-> s]
  BY SameInit DEF Init
<1>2. P!TypeInv
  BY <1>1, Assumed, P!InitTypes
<1>3. s \in WorkerStates /\ s.step = "idle"
  BY DEF Idle, WorkerStates, Steps
<1> HIDE DEF s
<1>4. \A w \in Workers : work[w] = s
  BY <1>1
<1>5. ~ Holds(s) /\ ~ Records(s) /\ \A p : SoundAt(s, p)
  BY <1>3 DEF Holds, Records, SoundAt, Sound
<1>6. QED
  BY <1>1, <1>2, <1>3, <1>4, <1>5
     DEF TransactionInv, WorkTyped, WorkersSound, RowsApart, EventsApart, EventsNew

\* A step that changes nothing leaves everything sound.
LEMMA StutterSound == TransactionInv /\ UNCHANGED vars => TransactionInv'
<1> SUFFICES ASSUME TransactionInv, UNCHANGED vars PROVE TransactionInv'
  OBVIOUS
<1>1. /\ programs' = programs /\ reservations' = reservations /\ movements' = movements
      /\ treasuryEvents' = treasuryEvents /\ outbox' = outbox /\ work' = work
  BY DEF vars
<1>2. P!TypeInv'
  BY <1>1 DEF TransactionInv, P!TypeInv, P!TypeOK, P!RowsAccount
<1>3. WorkTyped' /\ RowsApart' /\ EventsApart'
  BY <1>1 DEF TransactionInv, WorkTyped, RowsApart, EventsApart, Program
<1>4. WorkersSound' /\ EventsNew'
  BY <1>1 DEF TransactionInv, WorkersSound, SoundAt, Program, EventsNew
<1>5. QED
  BY <1>2, <1>3, <1>4 DEF TransactionInv

\* Every statement of every transaction leaves everything sound.
LEMMA NextSound == TransactionInv /\ [Next]_vars => TransactionInv'
<1> SUFFICES ASSUME TransactionInv, Next PROVE TransactionInv'
  BY StutterSound
<1>1. PICK w \in Workers :
        \/ \E command \in Commands : Start(w, command)
        \/ LockById(w)
        \/ Decide(w)
        \/ Write(w)
        \/ End(w)
        \/ Fail(w)
  BY DEF Next
<1>2. CASE \E command \in Commands : Start(w, command)
  BY <1>2, StartKeeps
<1>3. CASE LockById(w)
  BY <1>3, LockKeeps
<1>4. CASE Decide(w)
  BY <1>4, DecideReserveKeeps, DecideRepayKeeps, DecideTreasuryKeeps DEF Decide
<1>5. CASE Write(w)
  BY <1>5, InsertKeeps, SaveKeeps, RecordKeeps DEF Write
<1>6. CASE End(w)
  <2>1. PICK answer \in Answers :
          work[w].step = "committing" /\ Publish(w) /\ Answer(w, answer)
    <3>1. CASE Commit(w)
      <4>1. /\ work[w].step = "committing" /\ Publish(w) /\ Answer(w, work[w].answer)
            /\ Sound(work[w], programs[Program(w)], reservations[Program(w)],
                     movements[Program(w)])
        BY <3>1 DEF Commit, TransactionInv, WorkersSound, SoundAt
      <4>2. work[w].answer \in {"CREATED", "APPLIED", "STALE"}
        BY <4>1 DEF Sound, ReserveDecided, RepayDecided, TreasuryDecided
      <4>3. QED
        BY <4>1, <4>2 DEF Answers
    <3>2. CASE CommitUnacknowledged(w)
      BY <3>2 DEF CommitUnacknowledged, Answers
    <3>3. QED
      BY <1>6, <3>1, <3>2 DEF End
  <2>2. QED
    BY <2>1, EndKeeps
<1>7. CASE Fail(w)
  BY <1>7, FailKeeps
<1>8. QED
  BY <1>1, <1>2, <1>3, <1>4, <1>5, <1>6, <1>7

\* The invariant holds at all times.
LEMMA TransactionsSound == Spec => []TransactionInv
BY InitSound, NextSound, PTL DEF Spec

\* Tables and workers hold what their types say.
THEOREM TransactionTypes == Spec => []TypeOK
<1>1. TransactionInv => TypeOK
  <2> SUFFICES ASSUME TransactionInv PROVE TypeOK
    OBVIOUS
  <2>1. P!TypeOK <=> Atomic!TypeOK
    BY DEF P!TypeOK, Atomic!TypeOK,
           P!TreasuryMessage, Atomic!TreasuryMessage, P!ProgramRow, Atomic!ProgramRow,
           P!ProgramStatuses, Atomic!ProgramStatuses,
           P!ReservationRow, Atomic!ReservationRow,
           P!ReservationStatuses, Atomic!ReservationStatuses,
           P!MovementRow, Atomic!MovementRow, P!TreasuryRow, Atomic!TreasuryRow,
           P!OutboxEvent, Atomic!OutboxEvent, P!ExchangeRate, Atomic!ExchangeRate
  <2>2. Atomic!TypeOK
    BY <2>1 DEF TransactionInv, P!TypeInv
  <2>3. QED
    BY <2>2 DEF TransactionInv, WorkTyped, WorkerStates, TypeOK
<1>2. QED
  BY <1>1, TransactionsSound, PTL

\* What a handler decided is still so when its transaction commits, though others
\* ran meanwhile.
THEOREM DecisionsHold == Spec => []DecisionsHoldUntilCommit
<1>1. TransactionInv => DecisionsHoldUntilCommit
  <2> SUFFICES ASSUME TransactionInv, NEW w \in Workers,
                      work[w].step \in {"saving", "recording", "committing"},
                      NEW p, p = work[w].command.request.program
               PROVE  /\ work[w].seen = programs[p]
                      /\ work[w].answer =
                           CASE work[w].command.kind = "RESERVE" ->
                                  ReserveAnswer(programs[p], reservations[p],
                                                work[w].command.request, work[w].rate)
                             [] work[w].command.kind = "REPAY" ->
                                  RepayAnswer(programs[p], reservations[p], movements[p],
                                              work[w].command.request)
                             [] OTHER -> TreasuryAnswer(programs[p], work[w].command.request)
    BY DEF DecisionsHoldUntilCommit
  <2>1. Sound(work[w], programs[p], reservations[p], movements[p])
    BY DEF TransactionInv, WorkersSound, SoundAt, Program
  <2>2. work[w].seen = programs[p]
    BY <2>1 DEF Sound, Holds
  <2>3. \/ ReserveDecided(work[w], programs[p], reservations[p])
        \/ RepayDecided(work[w], programs[p], reservations[p], movements[p])
        \/ TreasuryDecided(work[w], programs[p])
    BY <2>1 DEF Sound
  <2>4. CASE ReserveDecided(work[w], programs[p], reservations[p])
    BY <2>2, <2>4 DEF ReserveDecided
  <2>5. CASE RepayDecided(work[w], programs[p], reservations[p], movements[p])
    BY <2>2, <2>5 DEF RepayDecided
  <2>6. CASE TreasuryDecided(work[w], programs[p])
    BY <2>2, <2>6 DEF TreasuryDecided
  <2>7. QED
    BY <2>3, <2>4, <2>5, <2>6
<1>2. QED
  BY <1>1, TransactionsSound, PTL


-----------------------------------------------------------------------------
(* The transactions implement the commands.                                *)

\* A statement changes no table, or commits a command of Capacity.
LEMMA NextRefines == TransactionInv /\ [Next]_vars => P!Next \/ UNCHANGED tables
<1> SUFFICES ASSUME TransactionInv, Next PROVE P!Next \/ UNCHANGED tables
  BY DEF vars, tables
<1>1. PICK w \in Workers :
        \/ \E command \in Commands : Start(w, command)
        \/ LockById(w)
        \/ Decide(w)
        \/ Write(w)
        \/ End(w)
        \/ Fail(w)
  BY DEF Next
<1>2. CASE End(w)
  <2>1. work[w].step = "committing" /\ Publish(w)
    BY <1>2 DEF End, Commit, CommitUnacknowledged
  <2>2. QED
    BY <2>1, PublishSteps
<1>3. CASE (\E command \in Commands : Start(w, command)) \/ LockById(w)
  BY <1>3 DEF Start, LockById
<1>4. CASE Decide(w)
  BY <1>4 DEF Decide, DecideReserve, DecideRepay, DecideTreasury
<1>5. CASE Write(w)
  BY <1>5 DEF Write, InsertProgram, SaveProgram, RecordEvent
<1>6. CASE Fail(w)
  BY <1>6 DEF Fail, LockTimeout, IdleTimeout, Disconnect
<1>7. QED
  BY <1>1, <1>2, <1>3, <1>4, <1>5, <1>6

\* However the transactions interleave, fail and are retried, the tables change as
\* they do when commands run one at a time.
THEOREM TransactionsAreAtomic == Spec => ImplementsAtomicCommands
<1>1. Init => Atomic!Init
  BY DEF Init
<1>2. TransactionInv /\ [Next]_vars => [Atomic!Next]_(Atomic!vars)
  BY NextRefines, SameNext DEF tables, Atomic!vars
<1>3. QED
  BY <1>1, <1>2, TransactionsSound, PTL DEF Spec, ImplementsAtomicCommands, Atomic!Spec

\* So what is proved of the commands holds of the tables while transactions run.
LEMMA CommandsRun == Spec => P!Spec
<1>1. Init => P!Init
  BY SameInit DEF Init
<1>2. TransactionInv /\ [Next]_vars => [P!Next]_(P!vars)
  BY NextRefines DEF tables, P!vars
<1>3. QED
  BY <1>1, <1>2, TransactionsSound, PTL DEF Spec, P!Spec

\* With any number of workers, in any interleaving and with any failure: the
\* counter matches what the reservations hold, a hold tracks what its invoice still
\* owes, an invoice is not reserved twice for one request, a repayment id frees
\* capacity once, the ledger explains the reservations, every row can be read back,
\* a program is over its limit by a cut only, the newest of treasury's messages
\* decides, and the events tell consumers what the tables hold.
THEOREM CommandsKeepTheirPromises ==
  Spec => /\ [](/\ P!CounterMatchesHolds
                /\ P!HoldTracksOutstanding
                /\ P!ReservedAgainOnlyUnderNewKey
                /\ P!RepaymentAppliedOnce
                /\ P!LedgerExplainsReservations
                /\ P!EveryRowLoads
                /\ P!OverLimitOnlyByCut
                /\ P!NewestTreasuryStateWins
                /\ P!EventsTellTheState)
          /\ P!NothingRewritten
<1>1. P!Spec => []P!CounterMatchesHolds /\ []P!HoldTracksOutstanding
  BY Assumed, P!CounterNeverDrifts, P!HoldTracks
<1>2. P!Spec => []P!ReservedAgainOnlyUnderNewKey /\ []P!RepaymentAppliedOnce
  BY Assumed, P!OneReservationPerRequest, P!RepaymentOnce
<1>3. P!Spec => []P!LedgerExplainsReservations /\ []P!EveryRowLoads
  BY Assumed, P!LedgerAccounts, P!RowsAlwaysLoad
<1>4. P!Spec => []P!OverLimitOnlyByCut /\ []P!NewestTreasuryStateWins
  BY Assumed, P!OnlyCutsExceedLimits, P!NewestDecides
<1>5. P!Spec => []P!EventsTellTheState /\ P!NothingRewritten
  BY Assumed, P!MessagesTell, P!HistoryKept
<1>6. QED
  BY <1>1, <1>2, <1>3, <1>4, <1>5, CommandsRun, PTL


-----------------------------------------------------------------------------
(* What callers are answered.                                              *)

\* The answers that the code calls bugs.
Bugs ==
  {"INVARIANT_VIOLATION", "COUNTER_DRIFTED", "EXCHANGE_RATE_UNUSABLE",
   "RESERVATION_ALREADY_RELEASED", "PROGRAM_ALREADY_EXISTS"}

\* A step is of one worker.
LEMMA OneWorker ==
  ASSUME TransactionInv, NEW w \in Workers,
         \/ \E command \in Commands : Start(w, command)
         \/ LockById(w)
         \/ Decide(w)
         \/ Write(w)
         \/ End(w)
         \/ Fail(w)
  PROVE  \A v \in Workers : v # w => work'[v] = work[v]
<1>1. work \in [Workers -> WorkerStates]
  BY DEF TransactionInv, WorkTyped
<1>2. CASE \E command \in Commands : Start(w, command)
  BY <1>1, <1>2 DEF Start
<1>3. CASE LockById(w)
  BY <1>1, <1>3 DEF LockById
<1>4. CASE Decide(w)
  BY <1>1, <1>4 DEF Decide, DecideReserve, DecideRepay, DecideTreasury, Stage, Answer
<1>5. CASE Write(w)
  BY <1>1, <1>5 DEF Write, InsertProgram, SaveProgram, RecordEvent, RetryOnce, Answer
<1>6. CASE End(w)
  BY <1>1, <1>6 DEF End, Commit, CommitUnacknowledged, Answer
<1>7. CASE Fail(w)
  BY <1>1, <1>7 DEF Fail, LockTimeout, IdleTimeout, Disconnect, Answer
<1>8. QED
  BY <1>2, <1>3, <1>4, <1>5, <1>6, <1>7

\* A worker that has answered is idle, with that answer and its command.
LEMMA Answered ==
  ASSUME TransactionInv, NEW w \in Workers, NEW answer, Answer(w, answer)
  PROVE  /\ work'[w].step = "idle" /\ work'[w].answer = answer
         /\ work'[w].command = work[w].command
BY DEF TransactionInv, WorkTyped, Answer, Idle

\* One that decides to write has the answer it will give.
LEMMA Staged ==
  ASSUME TransactionInv, NEW w \in Workers, NEW step, NEW answer, NEW writes,
         Stage(w, step, answer, writes)
  PROVE  work'[w].step = step /\ work'[w].answer = answer
<1>1. work \in [Workers -> WorkerStates] /\ work[w] \in WorkerStates
  BY DEF TransactionInv, WorkTyped
<1>2. work'[w] = [work[w] EXCEPT !.step = step, !.answer = answer, !.writes = writes]
  BY <1>1 DEF Stage
<1>3. QED
  BY <1>1, <1>2 DEF WorkerStates

\* One that has begun, or whose statement succeeds, has answered nothing new.
LEMMA StillUnanswered ==
  ASSUME TransactionInv, NEW w \in Workers,
         \/ \E command \in Commands : Start(w, command) /\ work'[w].step # "idle"
         \/ LockById(w)
         \/ RetryOnce(w) /\ ~ work[w].retried
         \/ \E step \in {"recording", "committing"} : work' = [work EXCEPT ![w].step = step]
  PROVE  work'[w].answer \in {None, work[w].answer} /\ work'[w].step # "idle"
<1>1. work \in [Workers -> WorkerStates] /\ work[w] \in WorkerStates
  BY DEF TransactionInv, WorkTyped
<1>2. ASSUME NEW command \in Commands, Start(w, command), work'[w].step # "idle"
      PROVE  work'[w].answer = None
  <2> DEFINE idle == Idle(command, None)
             begun == [idle EXCEPT !.step = "locking"]
  <2>1. /\ idle = [step |-> "idle", command |-> command, rate |-> None, seen |-> None,
                   writes |-> None, retried |-> FALSE, answer |-> None]
    BY DEF Idle
  <2>2. begun.answer = None /\ \A rate : [begun EXCEPT !.rate = rate].answer = None
    <3> HIDE DEF idle
    <3>1. QED
      BY <2>1
  <2>3. \/ work' = [work EXCEPT ![w] = begun]
        \/ work' = [work EXCEPT ![w] = Idle(command, "PROGRAM_NOT_FOUND")]
        \/ \E rate : work' = [work EXCEPT ![w] = [begun EXCEPT !.rate = rate]]
    BY <1>2 DEF Start
  <2>4. Idle(command, "PROGRAM_NOT_FOUND").step = "idle"
    BY DEF Idle
  <2> HIDE DEF begun
  <2>5. QED
    BY <1>1, <1>2, <2>2, <2>3, <2>4, ZenonT(40)
<1>3. CASE LockById(w)
  <2>1. work'[w] = [work[w] EXCEPT !.step = "deciding", !.seen = programs[Program(w)]]
    BY <1>1, <1>3 DEF LockById
  <2>2. QED
    BY <1>1, <2>1 DEF WorkerStates
<1>4. CASE RetryOnce(w) /\ ~ work[w].retried
  BY <1>1, <1>4 DEF RetryOnce, Idle
<1>5. ASSUME NEW step \in {"recording", "committing"}, work' = [work EXCEPT ![w].step = step]
      PROVE  work'[w].answer = work[w].answer /\ work'[w].step # "idle"
  BY <1>1, <1>5 DEF WorkerStates
<1>6. QED
  BY <1>2, <1>3, <1>4, <1>5

\* A rate that the lookup found is one into the program's currency.
LEMMA RateIsUsable ==
  ASSUME NEW currency \in Currencies, NEW amount \in Money,
         NEW rate \in RatesInto(currency, amount), rate # Unavailable,
         NEW program, program.currency = currency
  PROVE  RateUsable(program, amount, rate)
<1>1. <<amount.currency, currency>> \in Currencies \X Currencies
  BY DEF Money
<1>2. CASE amount.currency = currency
  BY <1>2 DEF RatesInto, RateUsable
<1>3. CASE amount.currency # currency
  <2>1. rate \in Quotes[<<amount.currency, currency>>]
    BY <1>3 DEF RatesInto
  <2>2. rate \in ExchangeRate /\ rate.to = currency
    BY <1>1, <2>1, ConstantsAssumption
  <2>3. rate # None
    BY <2>2, NullAssumption
  <2>4. QED
    BY <2>2, <2>3 DEF RateUsable
<1>4. QED
  BY <1>2, <1>3

\* A reservation is never refused for its rate: though the rate was looked up before
\* the program's row was locked, the program's currency has not changed.
LEMMA ReserveNotBug ==
  ASSUME TransactionInv, NEW w \in Workers, work[w].step = "deciding",
         work[w].command.kind = "RESERVE",
         NEW request, request = work[w].command.request, NEW rows
  PROVE  ReserveAnswer(work[w].seen, rows, request, work[w].rate) \notin Bugs
<1> DEFINE p == Program(w)
           rate == work[w].rate
           program == work[w].seen
<1>1. /\ p \in ProgramIds /\ programs[p] \in ProgramRow \union {None}
      /\ work[w].command \in Commands
      /\ Sound(work[w], programs[p], reservations[p], movements[p])
  BY AtWork
<1>2. /\ programs[p] # None /\ rate \in RatesInto(programs[p].currency, request.amount)
      /\ program = programs[p]
  BY <1>1 DEF Sound, Holds
<1>3. request.amount \in Money /\ programs[p].currency \in Currencies
  <2>1. request \in ReserveRequest
    BY <1>1, CommandsTyped
  <2>2. QED
    BY <1>1, <1>2, <2>1, ConstantsAssumption DEF ReserveRequest, ProgramRow
<1>4. rate # Unavailable => RateUsable(program, request.amount, rate)
  <2> HIDE DEF rate, program, p
  <2>1. QED
    BY <1>2, <1>3, RateIsUsable
<1>5. rate # Unavailable => ReserveRefusal(program, request.amount, rate) \notin Bugs
  <2> HIDE DEF rate, program, p
  <2>1. QED
    BY <1>4 DEF ReserveRefusal, Bugs
<1> HIDE DEF rate, program, p
<1>6. ReserveAnswer(program, rows, request, rate) \notin Bugs
  BY <1>5 DEF ReserveAnswer, Bugs
<1>7. QED
  BY <1>6 DEF program, rate

\* A repayment never finds the counter drifted, nor the active reservation released.
LEMMA RepayNotBug ==
  ASSUME TransactionInv, P!CounterInv, NEW w \in Workers, work[w].step = "deciding",
         work[w].command.kind = "REPAY",
         NEW request, request = work[w].command.request,
         NEW p, p = request.program
  PROVE  RepayAnswer(work[w].seen, reservations[p], movements[p], request) \notin Bugs
<1> DEFINE program == work[w].seen
           id == ActiveId(reservations[p], request.invoice)
           row == reservations[p][id]
           amount == RepaidAmount(row, request)
<1>1. /\ p \in ProgramIds /\ programs[p] \in ProgramRow \union {None} /\ P!TypeInv
      /\ Sound(work[w], programs[p], reservations[p], movements[p])
  BY AtWork
<1>2. CASE program = None
  BY <1>2 DEF RepayAnswer, Bugs
<1>3. CASE program # None /\ ActiveFor(reservations[p], request.invoice) = {}
  BY <1>3 DEF RepayAnswer, Bugs
<1>4. CASE program # None /\ ActiveFor(reservations[p], request.invoice) # {}
  <2>1. program = programs[p]
    BY <1>1, <1>4 DEF Sound, Holds
  <2>2. id \in DOMAIN reservations[p] /\ row.status = "ACTIVE"
    BY <1>4 DEF ActiveId, ActiveFor
  <2>3. Held(row) <= program.reserved
    <3>1. P!Held(row) = Held(row)
      BY SameRepaying
    <3>2. row = reservations[p][id]
      OBVIOUS
    <3> HIDE DEF id, row
    <3>3. P!Held(row) <= programs[p].reserved
      BY <1>1, <1>4, <2>1, <2>2, <3>2, Assumed, P!HoldIsCounted
    <3>4. QED
      BY <2>1, <3>1, <3>3
  <2>4. Held(row) \in Int /\ program.reserved \in Int
    <3>1. program.reserved \in Int
      BY <1>1, <1>4, <2>1, SMTT(30) DEF ProgramRow
    <3>2. reservations[p] \in Seq(ReservationRow)
      BY <1>1, TablesOf
    <3> HIDE DEF id
    <3>3. row \in ReservationRow
      BY <2>2, <3>2
    <3> HIDE DEF row
    <3>4. Held(row) \in Int
      BY <3>3 DEF Held, ReservationRow
    <3>5. QED
      BY <3>1, <3>4
  <2>5. ~ (Held(row) > program.reserved)
    <3> HIDE DEF row, program
    <3>1. QED
      BY <2>3, <2>4
  <2>6. ReleaseRefusal(program, row, amount) \notin Bugs
    <3> HIDE DEF row, program, amount
    <3>1. QED
      BY <2>2, <2>5 DEF ReleaseRefusal, RepaymentRefusal, Bugs
  <2>7. RepayAnswer(program, reservations[p], movements[p], request) \in
          {"REPLAYED", "REPAYMENT_ID_REUSED", "APPLIED",
           ReleaseRefusal(program, row, amount)}
    BY <1>4 DEF RepayAnswer
  <2>8. QED
    <3> HIDE DEF row, amount, id
    <3>1. QED
      BY <2>6, <2>7 DEF Bugs
<1>5. QED
  BY <1>2, <1>3, <1>4

\* No statement answers a bug.
LEMMA NextNoBug ==
  TransactionInv /\ P!CounterInv /\ NoBugAnswered /\ [Next]_vars => NoBugAnswered'
<1> SUFFICES ASSUME TransactionInv, P!CounterInv, NoBugAnswered, Next
             PROVE  NoBugAnswered'
  BY DEF vars, NoBugAnswered
<1>1. PICK w \in Workers :
        \/ \E command \in Commands : Start(w, command)
        \/ LockById(w)
        \/ Decide(w)
        \/ Write(w)
        \/ End(w)
        \/ Fail(w)
  BY DEF Next
<1>2. \A v \in Workers : v # w => work'[v] = work[v]
  BY <1>1, OneWorker
<1>3. None \notin Bugs /\ work[w].answer \notin Bugs
  BY AnswersAssumption DEF Answers, Bugs, NoBugAnswered
<1> SUFFICES work'[w].answer \notin Bugs
  BY <1>2 DEF NoBugAnswered, Bugs
<1>4. ASSUME NEW answer, answer \notin Bugs, Answer(w, answer)
      PROVE  work'[w].answer \notin Bugs
  BY <1>4, Answered
<1>5. ASSUME NEW command \in Commands, Start(w, command)
      PROVE  work'[w].answer \notin Bugs
  <2>1. CASE work'[w].step # "idle"
    BY <1>3, <1>5, <2>1, StillUnanswered
  <2>2. CASE work'[w].step = "idle"
    <3>1. work' = [work EXCEPT ![w] = Idle(command, "PROGRAM_NOT_FOUND")]
      <4> DEFINE begun == [Idle(command, None) EXCEPT !.step = "locking"]
      <4>1. begun.step = "locking" /\ \A rate : [begun EXCEPT !.rate = rate].step = "locking"
        BY DEF Idle
      <4>2. \/ work' = [work EXCEPT ![w] = begun]
            \/ work' = [work EXCEPT ![w] = Idle(command, "PROGRAM_NOT_FOUND")]
            \/ \E rate : work' = [work EXCEPT ![w] = [begun EXCEPT !.rate = rate]]
        BY <1>5 DEF Start
      <4>3. work \in [Workers -> WorkerStates]
        BY DEF TransactionInv, WorkTyped
      <4> HIDE DEF begun
      <4>4. QED
        BY <2>2, <4>1, <4>2, <4>3
    <3>2. QED
      BY <3>1 DEF TransactionInv, WorkTyped, Idle, Bugs
  <2>3. QED
    BY <2>1, <2>2
<1>6. CASE LockById(w)
  BY <1>3, <1>6, StillUnanswered
<1>7. CASE DecideReserve(w)
  <2> DEFINE request == work[w].command.request
             answer == ReserveAnswer(work[w].seen, reservations[request.program], request,
                                     work[w].rate)
             writes == ReserveWrites(work[w].seen, reservations[request.program], request,
                                     work[w].rate)
  <2>1. /\ work[w].step = "deciding" /\ work[w].command.kind = "RESERVE"
        /\ Answer(w, answer) \/ Stage(w, "saving", answer, writes)
    BY <1>7 DEF DecideReserve
  <2>2. answer \notin Bugs
    BY <2>1, ReserveNotBug
  <2> HIDE DEF answer, writes
  <2>3. QED
    BY <1>4, <2>1, <2>2, Staged
<1>8. CASE DecideRepay(w)
  <2> DEFINE request == work[w].command.request
             answer == RepayAnswer(work[w].seen, reservations[request.program],
                                   movements[request.program], request)
             writes == RepayWrites(work[w].seen, reservations[request.program], request)
  <2>1. /\ work[w].step = "deciding" /\ work[w].command.kind = "REPAY"
        /\ Answer(w, answer) \/ Stage(w, "saving", answer, writes)
    BY <1>8 DEF DecideRepay
  <2>2. answer \notin Bugs
    BY <2>1, RepayNotBug
  <2> HIDE DEF answer, writes
  <2>3. QED
    BY <1>4, <2>1, <2>2, Staged
<1>9. CASE DecideTreasury(w)
  <2> DEFINE message == work[w].command.request
             answer == TreasuryAnswer(work[w].seen, message)
  <2>1. Answer(w, answer) \/ \E step, writes : Stage(w, step, answer, writes)
    BY <1>9 DEF DecideTreasury
  <2>2. answer \notin Bugs
    BY DEF TreasuryAnswer, TreasuryRefusal, Bugs
  <2> HIDE DEF answer
  <2>3. QED
    BY <1>4, <2>1, <2>2, Staged
<1>10. CASE InsertProgram(w)
  <2>1. work[w].step = "inserting"
    BY <1>10 DEF InsertProgram
  <2>2. ~ work[w].retried
    BY <2>1, AtWork DEF Sound, WorkerStates
  <2>3. \/ work' = [work EXCEPT ![w].step = "recording"]
        \/ RetryOnce(w) /\ ~ work[w].retried
    BY <1>10, <2>2 DEF InsertProgram
  <2>4. QED
    BY <1>3, <2>3, StillUnanswered
<1>11. CASE SaveProgram(w)
  <2>1. work[w].step = "saving"
    BY <1>11 DEF SaveProgram
  <2>2. work[w].seen = programs[Program(w)]
    BY <2>1, AtWork DEF Sound, Holds
  <2>3. \E step \in {"recording", "committing"} : work' = [work EXCEPT ![w].step = step]
    BY <1>11, <2>2 DEF SaveProgram
  <2>4. QED
    BY <1>3, <2>3, StillUnanswered
<1>12. CASE RecordEvent(w)
  <2>1. \/ Answer(w, "DUPLICATE")
        \/ work' = [work EXCEPT ![w].step = "committing"]
    BY <1>12 DEF RecordEvent
  <2>2. "DUPLICATE" \notin Bugs
    BY DEF Bugs
  <2>3. QED
    BY <1>3, <1>4, <2>1, <2>2, StillUnanswered
<1>13. CASE End(w) \/ Fail(w)
  <2>1. \E answer \in {work[w].answer, "DATABASE_UNAVAILABLE", "CAPACITY_BUSY"} :
          Answer(w, answer)
    BY <1>13 DEF End, Commit, CommitUnacknowledged, Fail, LockTimeout, IdleTimeout, Disconnect
  <2>2. "DATABASE_UNAVAILABLE" \notin Bugs /\ "CAPACITY_BUSY" \notin Bugs
    BY DEF Bugs
  <2>3. QED
    BY <1>3, <1>4, <2>1, <2>2
<1>14. QED
  BY <1>1, <1>5, <1>6, <1>7, <1>8, <1>9, <1>10, <1>11, <1>12, <1>13 DEF Decide, Write

\* Nobody is answered what the code calls a bug: neither is a rate into another
\* currency than the program's, nor a drifted counter, nor a row changed while
\* locked, nor a program opened by another at the second try.
THEOREM NobodyMeetsABug == Spec => []NoBugAnswered
<1>1. Init => NoBugAnswered
  <2> SUFFICES ASSUME Init PROVE NoBugAnswered
    OBVIOUS
  <2>1. \A w \in Workers : work[w].answer = None
    BY DEF Init, Idle
  <2>2. None \notin Bugs
    BY AnswersAssumption DEF Answers, Bugs
  <2>3. QED
    BY <2>1, <2>2 DEF NoBugAnswered, Bugs
<1>2. TransactionInv /\ P!CounterInv /\ NoBugAnswered /\ [Next]_vars => NoBugAnswered'
  BY NextNoBug
<1>3. P!Spec => []P!CounterInv
  BY Assumed, P!CounterInvariant
<1>4. QED
  BY <1>1, <1>2, <1>3, TransactionsSound, CommandsRun, PTL DEF Spec

\* An answer given is borne out by the program's rows and the record of messages.
AnswerStands(s, rows, ledger, log) ==
  s.step = "idle" /\ s.command # None =>
    LET request == s.command.request
    IN  CASE s.command.kind = "RESERVE" ->
               s.answer \in {"CREATED", "REPLAYED"} =>
                 \E i \in DOMAIN rows :
                   /\ rows[i].invoice = request.invoice
                   /\ SameAmount(rows[i], request.amount)
                   /\ request.key # None => rows[i].key = request.key
          [] s.command.kind = "REPAY" ->
               s.answer \in {"APPLIED", "REPLAYED"} =>
                 RepaymentsRecorded(ledger, request.repayment) # {}
          [] OTHER ->
               s.answer \in {"CREATED", "APPLIED", "STALE", "DUPLICATE"} =>
                 RecordedIn(log, request.event)

\* The rows of a program that answers speak of are still there.
RowsStay(q) ==
  /\ \A i \in DOMAIN reservations[q] :
       /\ i \in DOMAIN reservations'[q]
       /\ reservations'[q][i].invoice = reservations[q][i].invoice
       /\ reservations'[q][i].key = reservations[q][i].key
       /\ reservations'[q][i].invoiceMinor = reservations[q][i].invoiceMinor
       /\ reservations'[q][i].invoiceCurrency = reservations[q][i].invoiceCurrency
  /\ \A m \in DOMAIN movements[q] :
       m \in DOMAIN movements'[q] /\ movements'[q][m] = movements[q][m]
  /\ \A i \in DOMAIN treasuryEvents[q] :
       i \in DOMAIN treasuryEvents'[q] /\ treasuryEvents'[q][i] = treasuryEvents[q][i]

\* No step removes a row, nor changes what answers speak of.
LEMMA AllRowsStay ==
  ASSUME TransactionInv, Next, NEW q \in ProgramIds
  PROVE  RowsStay(q)
<1>1. P!Next \/ UNCHANGED tables
  BY NextRefines
<1>2. CASE UNCHANGED tables
  BY <1>2 DEF tables, RowsStay
<1>3. CASE P!Next
  <2>1. P!TypeInv /\ P!TypeInv'
    BY NextSound DEF TransactionInv
  <2>2. P!KeptOf(q)
    <3>1. P!Kept
      BY <1>3, <2>1, Assumed, P!NextKeeps
    <3>2. QED
      BY <3>1 DEF P!Kept
  <2>3. /\ DOMAIN reservations[q] = 1..Len(reservations[q]) /\ Len(reservations[q]) \in Nat
        /\ DOMAIN movements[q] = 1..Len(movements[q]) /\ Len(movements[q]) \in Nat
        /\ DOMAIN treasuryEvents[q] = 1..Len(treasuryEvents[q])
        /\ Len(treasuryEvents[q]) \in Nat
    BY <2>1, TablesOf
  <2>4. /\ DOMAIN reservations'[q] = 1..Len(reservations'[q]) /\ Len(reservations'[q]) \in Nat
        /\ DOMAIN movements'[q] = 1..Len(movements'[q]) /\ Len(movements'[q]) \in Nat
        /\ DOMAIN treasuryEvents'[q] = 1..Len(treasuryEvents'[q])
        /\ Len(treasuryEvents'[q]) \in Nat
    BY <2>1 DEF P!TypeInv, P!TypeOK
  <2>5. /\ Len(reservations[q]) <= Len(reservations'[q])
        /\ \A i \in DOMAIN reservations[q] :
             P!SameTerms(reservations[q][i], reservations'[q][i])
        /\ Len(movements[q]) <= Len(movements'[q])
        /\ \A i \in DOMAIN movements[q] : movements'[q][i] = movements[q][i]
        /\ Len(treasuryEvents[q]) <= Len(treasuryEvents'[q])
        /\ \A i \in DOMAIN treasuryEvents[q] : treasuryEvents'[q][i] = treasuryEvents[q][i]
    BY <2>2 DEF P!KeptOf, P!IsKept
  <2>6. QED
    BY <2>3, <2>4, <2>5 DEF RowsStay, P!SameTerms
<1>4. QED
  BY <1>1, <1>2, <1>3

\* An answer once borne out stays so.
LEMMA StandsStill ==
  ASSUME TransactionInv, Next, NEW s \in WorkerStates, NEW p, p = s.command.request.program,
         AnswerStands(s, reservations[p], movements[p], treasuryEvents)
  PROVE  AnswerStands(s, reservations'[p], movements'[p], treasuryEvents')
<1> DEFINE request == s.command.request
<1> SUFFICES ASSUME s.step = "idle", s.command # None
             PROVE  AnswerStands(s, reservations'[p], movements'[p], treasuryEvents')
  BY DEF AnswerStands
<1>1. s.command \in Commands
  BY DEF WorkerStates
<1>2. p \in ProgramIds
  BY <1>1, CommandsTyped
<1>3. RowsStay(p)
  BY <1>2, AllRowsStay
<1>4. ASSUME NEW i \in DOMAIN reservations[p],
             reservations[p][i].invoice = request.invoice,
             SameAmount(reservations[p][i], request.amount),
             request.key # None => reservations[p][i].key = request.key
      PROVE  \E k \in DOMAIN reservations'[p] :
               /\ reservations'[p][k].invoice = request.invoice
               /\ SameAmount(reservations'[p][k], request.amount)
               /\ request.key # None => reservations'[p][k].key = request.key
  <2>1. /\ i \in DOMAIN reservations'[p]
        /\ reservations'[p][i].invoice = reservations[p][i].invoice
        /\ reservations'[p][i].key = reservations[p][i].key
        /\ reservations'[p][i].invoiceMinor = reservations[p][i].invoiceMinor
        /\ reservations'[p][i].invoiceCurrency = reservations[p][i].invoiceCurrency
    BY <1>3 DEF RowsStay
  <2>2. SameAmount(reservations'[p][i], request.amount)
    BY <1>4, <2>1 DEF SameAmount
  <2> HIDE DEF request
  <2>3. QED
    BY <1>4, <2>1, <2>2
<1>5. RepaymentsRecorded(movements[p], request.repayment) # {} =>
        RepaymentsRecorded(movements'[p], request.repayment) # {}
  BY <1>3 DEF RowsStay, RepaymentsRecorded
<1>6. ASSUME RecordedIn(treasuryEvents, request.event)
      PROVE  RecordedIn(treasuryEvents', request.event)
  <2>1. PICK q \in ProgramIds : \E i \in DOMAIN treasuryEvents[q] :
          treasuryEvents[q][i].message.event = request.event
    BY <1>6 DEF RecordedIn
  <2>2. RowsStay(q)
    BY AllRowsStay
  <2>3. QED
    BY <2>1, <2>2 DEF RowsStay, RecordedIn
<1>7. CASE s.command.kind = "RESERVE"
  BY <1>4, <1>7 DEF AnswerStands
<1>8. CASE s.command.kind = "REPAY"
  BY <1>5, <1>8 DEF AnswerStands
<1>9. CASE s.command.kind \notin {"RESERVE", "REPAY"}
  BY <1>6, <1>9 DEF AnswerStands
<1>10. QED
  BY <1>7, <1>8, <1>9

\* What a worker answers when it decides to write nothing.
LEMMA DecidedAnswerStands ==
  ASSUME TransactionInv, NEW w \in Workers, Decide(w), work'[w].step = "idle",
         NEW p, p = Program(w)
  PROVE  AnswerStands(work'[w], reservations[p], movements[p], treasuryEvents)
<1> DEFINE request == work[w].command.request
<1>1. p = request.program
  BY DEF Program
<1>2. ASSUME NEW step \in {"inserting", "saving", "recording"}, NEW answer, NEW writes,
             Stage(w, step, answer, writes)
      PROVE  FALSE
  BY <1>2, Staged
<1>3. CASE DecideReserve(w)
  <2> DEFINE answer == ReserveAnswer(work[w].seen, reservations[p], request, work[w].rate)
  <2>1. Answer(w, answer) /\ answer # "CREATED" /\ work[w].command.kind = "RESERVE"
    BY <1>1, <1>2, <1>3 DEF DecideReserve
  <2>2. ASSUME answer = "REPLAYED"
        PROVE  \E i \in DOMAIN reservations[p] :
                 /\ reservations[p][i].invoice = request.invoice
                 /\ SameAmount(reservations[p][i], request.amount)
                 /\ request.key # None => reservations[p][i].key = request.key
    <3>1. PICK i \in Repeated(reservations[p], request) :
            SameAmount(reservations[p][i], request.amount)
      BY <2>2 DEF ReserveAnswer, ReserveRefusal
    <3>2. QED
      BY <3>1 DEF Repeated, ByKey, ActiveFor
  <2> HIDE DEF answer
  <2>3. /\ work'[w].answer = answer /\ work'[w].command = work[w].command
    BY <2>1, Answered
  <2>4. QED
    BY <2>1, <2>2, <2>3 DEF AnswerStands
<1>4. CASE DecideRepay(w)
  <2> DEFINE answer == RepayAnswer(work[w].seen, reservations[p], movements[p], request)
  <2>1. Answer(w, answer) /\ answer # "APPLIED" /\ work[w].command.kind = "REPAY"
    BY <1>1, <1>2, <1>4 DEF DecideRepay
  <2>2. answer = "REPLAYED" => RepaymentsRecorded(movements[p], request.repayment) # {}
    BY DEF RepayAnswer, ReleaseRefusal, RepaymentRefusal
  <2> HIDE DEF answer
  <2>3. /\ work'[w].answer = answer /\ work'[w].command = work[w].command
    BY <2>1, Answered
  <2>4. QED
    BY <2>1, <2>2, <2>3 DEF AnswerStands
<1>5. CASE DecideTreasury(w)
  <2> DEFINE answer == TreasuryAnswer(work[w].seen, request)
  <2>1. /\ Answer(w, answer) /\ answer \notin {"CREATED", "APPLIED", "STALE"}
        /\ work[w].command.kind = "TREASURY"
    BY <1>2, <1>5 DEF DecideTreasury, IsTreasury
  <2>2. answer # "DUPLICATE"
    BY DEF TreasuryAnswer, TreasuryRefusal
  <2> HIDE DEF answer
  <2>3. /\ work'[w].answer = answer /\ work'[w].command = work[w].command
    BY <2>1, Answered
  <2>4. QED
    BY <2>1, <2>2, <2>3 DEF AnswerStands
<1>6. QED
  BY <1>3, <1>4, <1>5 DEF Decide

\* What a worker answers when its transaction has committed.
LEMMA CommittedAnswerStands ==
  ASSUME TransactionInv, NEW w \in Workers, work[w].step = "committing", Publish(w),
         Answer(w, work[w].answer), NEW p, p = Program(w)
  PROVE  AnswerStands(work'[w], reservations'[p], movements'[p], treasuryEvents')
<1> DEFINE request == work[w].command.request
<1>1. request = work[w].command.request
  OBVIOUS
<1>2. /\ work'[w].answer = work[w].answer /\ work'[w].command = work[w].command
  BY Answered
<1>3. /\ \/ ReserveDecided(work[w], programs[p], reservations[p])
         \/ RepayDecided(work[w], programs[p], reservations[p], movements[p])
         \/ TreasuryDecided(work[w], programs[p])
      /\ p \in ProgramIds /\ P!TypeInv
  BY AtWork DEF Sound
<1>4. CASE ReserveDecided(work[w], programs[p], reservations[p])
  <2> HIDE DEF request
  <2>1. PICK row \in ReservationRow :
          /\ reservations'[p] = Append(reservations[p], row)
          /\ row.invoice = request.invoice /\ row.key = request.key
          /\ SameAmount(row, request.amount)
    BY <1>1, <1>4, PublishReserves
  <2>2. /\ Len(reservations[p]) + 1 \in DOMAIN reservations'[p]
        /\ reservations'[p][Len(reservations[p]) + 1] = row
    <3>1. reservations[p] \in Seq(ReservationRow)
      BY <1>3, TablesOf
    <3>2. QED
      BY <2>1, <3>1
  <2>3. \E i \in DOMAIN reservations'[p] :
          /\ reservations'[p][i].invoice = request.invoice
          /\ SameAmount(reservations'[p][i], request.amount)
          /\ request.key # None => reservations'[p][i].key = request.key
    BY <2>1, <2>2
  <2>4. work[w].command.kind = "RESERVE"
    BY <1>4 DEF ReserveDecided
  <2>5. QED
    BY <1>1, <1>2, <2>3, <2>4 DEF AnswerStands
<1>5. CASE RepayDecided(work[w], programs[p], reservations[p], movements[p])
  <2> HIDE DEF request
  <2>1. PICK movement \in MovementRow :
          /\ movements'[p] = Append(movements[p], movement)
          /\ movement.type = "RELEASE" /\ movement.repayment = request.repayment
    BY <1>1, <1>5, PublishRepays
  <2>2. /\ Len(movements[p]) + 1 \in DOMAIN movements'[p]
        /\ movements'[p][Len(movements[p]) + 1] = movement
    <3>1. movements[p] \in Seq(MovementRow)
      BY <1>3, TablesOf
    <3>2. QED
      BY <2>1, <3>1
  <2>3. RepaymentsRecorded(movements'[p], request.repayment) # {}
    BY <2>1, <2>2 DEF RepaymentsRecorded
  <2>4. work[w].command.kind = "REPAY"
    BY <1>5 DEF RepayDecided
  <2>5. QED
    BY <1>1, <1>2, <2>3, <2>4 DEF AnswerStands
<1>6. CASE TreasuryDecided(work[w], programs[p])
  <2> HIDE DEF request
  <2>1. RecordedIn(treasuryEvents', request.event)
    BY <1>1, <1>6, PublishApplies
  <2>2. work[w].command.kind = "TREASURY"
    BY <1>6 DEF TreasuryDecided
  <2>3. QED
    BY <1>1, <1>2, <2>1, <2>2 DEF AnswerStands
<1>7. QED
  BY <1>3, <1>4, <1>5, <1>6

\* Where nothing is committed, an answer that claims nothing stands.
LEMMA RefusalStands ==
  ASSUME NEW s, NEW rows, NEW ledger, NEW log,
         s.answer \notin {"CREATED", "APPLIED", "REPLAYED", "STALE", "DUPLICATE"}
  PROVE  AnswerStands(s, rows, ledger, log)
BY DEF AnswerStands

\* Every step of a worker leaves it with an answer that stands, if with any.
LEMMA OwnAnswerStands ==
  ASSUME TransactionInv, NEW w \in Workers,
         \/ \E command \in Commands : Start(w, command)
         \/ LockById(w)
         \/ Decide(w)
         \/ Write(w)
         \/ End(w)
         \/ Fail(w),
         work'[w].step = "idle", NEW p, p = work'[w].command.request.program
  PROVE  AnswerStands(work'[w], reservations'[p], movements'[p], treasuryEvents')
<1>1. work \in [Workers -> WorkerStates] /\ work[w] \in WorkerStates
  BY DEF TransactionInv, WorkTyped
<1>2. ASSUME NEW command \in Commands, Start(w, command)
      PROVE  work'[w].answer = "PROGRAM_NOT_FOUND"
  <2> DEFINE begun == [Idle(command, None) EXCEPT !.step = "locking"]
  <2>1. begun.step = "locking" /\ \A rate : [begun EXCEPT !.rate = rate].step = "locking"
    BY DEF Idle
  <2>2. \/ work' = [work EXCEPT ![w] = begun]
        \/ work' = [work EXCEPT ![w] = Idle(command, "PROGRAM_NOT_FOUND")]
        \/ \E rate : work' = [work EXCEPT ![w] = [begun EXCEPT !.rate = rate]]
    BY <1>2 DEF Start
  <2>3. work' = [work EXCEPT ![w] = Idle(command, "PROGRAM_NOT_FOUND")]
    <3> HIDE DEF begun
    <3>1. QED
      BY <1>1, <2>1, <2>2
  <2>4. QED
    BY <1>1, <2>3 DEF Idle
<1>3. CASE Decide(w)
  <2>1. work'[w].command = work[w].command
    <3>1. CASE \E answer : Answer(w, answer)
      BY <3>1, Answered
    <3>2. CASE \E step \in {"inserting", "saving", "recording"} : \E answer, writes :
                 Stage(w, step, answer, writes)
      BY <3>2, Staged
    <3>3. QED
      BY <1>3, <3>1, <3>2 DEF Decide, DecideReserve, DecideRepay, DecideTreasury
  <2>2. p = Program(w)
    BY <2>1 DEF Program
  <2>3. UNCHANGED tables
    BY <1>3 DEF Decide, DecideReserve, DecideRepay, DecideTreasury
  <2>4. QED
    BY <1>3, <2>2, <2>3, DecidedAnswerStands DEF tables
<1>4. CASE InsertProgram(w)
  <2>1. work[w].step = "inserting"
    BY <1>4 DEF InsertProgram
  <2>2. ~ work[w].retried
    BY <2>1, AtWork DEF Sound, WorkerStates
  <2>3. \/ work' = [work EXCEPT ![w].step = "recording"]
        \/ RetryOnce(w) /\ ~ work[w].retried
    BY <1>4, <2>2 DEF InsertProgram
  <2>4. QED
    BY <2>3, StillUnanswered
<1>5. CASE SaveProgram(w)
  <2>1. work[w].step = "saving"
    BY <1>5 DEF SaveProgram
  <2>2. work[w].seen = programs[Program(w)]
    BY <2>1, AtWork DEF Sound, Holds
  <2>3. \E step \in {"recording", "committing"} : work' = [work EXCEPT ![w].step = step]
    BY <1>5, <2>2 DEF SaveProgram
  <2>4. QED
    BY <2>3, StillUnanswered
<1>6. CASE RecordEvent(w)
  <2>1. \/ work' = [work EXCEPT ![w].step = "committing"]
        \/ /\ Answer(w, "DUPLICATE") /\ UNCHANGED tables
           /\ RecordedIn(treasuryEvents, EventOf(work[w]))
    BY <1>6, SameTreasury DEF RecordEvent, EventOf
  <2>2. /\ Answer(w, "DUPLICATE") /\ UNCHANGED tables
        /\ RecordedIn(treasuryEvents, EventOf(work[w]))
    BY <2>1, StillUnanswered
  <2>3. work'[w].answer = "DUPLICATE" /\ work'[w].command = work[w].command
    BY <2>2, Answered
  <2>4. RecordedIn(treasuryEvents', EventOf(work'[w]))
    BY <2>2, <2>3 DEF EventOf, tables
  <2>5. QED
    BY <2>3, <2>4 DEF AnswerStands, EventOf
<1>7. CASE Commit(w)
  <2>1. work[w].step = "committing" /\ Publish(w) /\ Answer(w, work[w].answer)
    BY <1>7 DEF Commit
  <2>2. p = Program(w)
    BY <2>1, Answered DEF Program
  <2>3. QED
    BY <2>1, <2>2, CommittedAnswerStands
<1>8. CASE CommitUnacknowledged(w) \/ Fail(w)
  <2>1. Answer(w, "DATABASE_UNAVAILABLE") \/ Answer(w, "CAPACITY_BUSY")
    BY <1>8 DEF CommitUnacknowledged, Fail, LockTimeout, IdleTimeout, Disconnect
  <2>2. work'[w].answer \in {"DATABASE_UNAVAILABLE", "CAPACITY_BUSY"}
    BY <2>1, Answered
  <2>3. QED
    BY <2>2, RefusalStands
<1>9. ~ LockById(w)
  BY StillUnanswered
<1>10. CASE \E command \in Commands : Start(w, command)
  BY <1>2, <1>10, RefusalStands
<1>11. QED
  BY <1>3, <1>4, <1>5, <1>6, <1>7, <1>8, <1>9, <1>10 DEF Write, End

\* AnswersStand, worker by worker.
LEMMA AnswersBorneOut ==
  AnswersStand <=>
    \A w \in Workers :
      AnswerStands(work[w], reservations[Program(w)], movements[Program(w)], treasuryEvents)
BY SameTreasury DEF AnswersStand, AnswerStands, Program

\* No step takes away what an answer claims, nor gives one that claims too much.
LEMMA NextStands == TransactionInv /\ AnswersStand /\ [Next]_vars => AnswersStand'
<1> SUFFICES ASSUME TransactionInv, AnswersStand, Next PROVE AnswersStand'
  BY DEF vars, AnswersStand, Atomic!EventRecorded
<1>1. PICK w \in Workers :
        \/ \E command \in Commands : Start(w, command)
        \/ LockById(w)
        \/ Decide(w)
        \/ Write(w)
        \/ End(w)
        \/ Fail(w)
  BY DEF Next
<1>2. ASSUME NEW v \in Workers, NEW p, p = work'[v].command.request.program
      PROVE  AnswerStands(work'[v], reservations'[p], movements'[p], treasuryEvents')
  <2>1. CASE v = w /\ work'[w].step = "idle"
    BY <1>1, <1>2, <2>1, OwnAnswerStands
  <2>2. CASE v = w /\ work'[w].step # "idle"
    BY <2>2 DEF AnswerStands
  <2>3. CASE v # w
    <3>1. work'[v] = work[v]
      BY <1>1, <2>3, OneWorker
    <3>2. work[v] \in WorkerStates /\ p = Program(v)
      BY <1>2, <3>1 DEF TransactionInv, WorkTyped, Program
    <3>3. AnswerStands(work[v], reservations[p], movements[p], treasuryEvents)
      BY <3>2, AnswersBorneOut
    <3>4. AnswerStands(work[v], reservations'[p], movements'[p], treasuryEvents')
      BY <3>2, <3>3, StandsStill DEF Program
    <3>5. QED
      BY <3>1, <3>4
  <2>4. QED
    BY <2>1, <2>2, <2>3
<1>3. \A event : Atomic!EventRecorded(event)' <=> RecordedIn(treasuryEvents', event)
  BY DEF Atomic!EventRecorded, RecordedIn
<1>4. QED
  BY <1>2, <1>3 DEF AnswersStand, AnswerStands

\* A caller told of a success finds it in the database, whatever runs in between
\* and whatever is cut off: the reservation, the repayment, or the record of the
\* message whose offset its consumer commits.
THEOREM AnswersAlwaysStand == Spec => []AnswersStand
<1>1. Init => AnswersStand
  BY DEF Init, Idle, AnswersStand
<1>2. TransactionInv /\ AnswersStand /\ [Next]_vars => AnswersStand'
  BY NextStands
<1>3. QED
  BY <1>1, <1>2, TransactionsSound, PTL DEF Spec
=============================================================================
