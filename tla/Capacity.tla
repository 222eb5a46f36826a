----------------------------- MODULE Capacity -----------------------------
(***************************************************************************)
(* The capacity service as its callers see it when each command is atomic: *)
(* the five tables of the database, and one action for each way a command  *)
(* changes them.  A command that is refused, or that repeats one already   *)
(* applied, changes nothing and is no action here.                         *)
(***************************************************************************)
EXTENDS CapacityRows, Totals

VARIABLES programs,       \* a row for each program that treasury has opened
          reservations,   \* reservations of each program
          movements,      \* capacity_movements of each program, the ledger
          treasuryEvents, \* treasury_events of each program
          outbox          \* outbox_events of each program

vars == <<programs, reservations, movements, treasuryEvents, outbox>>

TypeOK ==
  /\ programs \in [ProgramIds -> ProgramRow \union {None}]
  /\ reservations \in [ProgramIds -> Seq(ReservationRow)]
  /\ movements \in [ProgramIds -> Seq(MovementRow)]
  /\ treasuryEvents \in [ProgramIds -> Seq(TreasuryRow)]
  /\ outbox \in [ProgramIds -> Seq(OutboxEvent)]

-----------------------------------------------------------------------------
(* Commands. *)

ReserveCapacity(request, rate) ==
  LET p       == request.program
      toHold  == ToProgramCurrency(request.amount, rate)
      program == WithReserved(programs[p], programs[p].reserved + toHold)
      id      == Len(reservations[p]) + 1
  IN  /\ ReserveAnswer(programs[p], reservations[p], request, rate) = "CREATED"
      /\ programs' = [programs EXCEPT ![p] = program]
      /\ reservations' = [reservations EXCEPT ![p] = Append(@,
           OpenReservation(request.invoice, request.key, request.amount, rate, toHold))]
      /\ movements' = [movements EXCEPT ![p] = Append(@,
           ReserveMovement(id, toHold, program))]
      /\ outbox' = [outbox EXCEPT ![p] = Append(@, CapacityReserved(id, program))]
      /\ UNCHANGED treasuryEvents

RecordRepaymentFor(request) ==
  LET p       == request.program
      id      == ActiveId(reservations[p], request.invoice)
      before  == reservations[p][id]
      after   == RecordRepayment(before, RepaidAmount(before, request).minor)
      program == ReleaseFrom(programs[p], before, after)
  IN  /\ RepayAnswer(programs[p], reservations[p], movements[p], request) = "APPLIED"
      /\ programs' = [programs EXCEPT ![p] = program]
      /\ reservations' = [reservations EXCEPT ![p][id] = after]
      /\ movements' = [movements EXCEPT ![p] = Append(@,
           ReleaseMovement(id, before, after, program, request.repayment))]
      /\ outbox' = [outbox EXCEPT ![p] = Append(@, CapacityReleased(id, after, program))]
      /\ UNCHANGED treasuryEvents

\* "treasury_events_event_id_key": an event id is recorded once, for any program.
EventRecorded(event) ==
  \E p \in ProgramIds : \E i \in DOMAIN treasuryEvents[p] :
    treasuryEvents[p][i].message.event = event

RecordTreasuryEvent(message, applied) ==
  treasuryEvents' = [treasuryEvents EXCEPT ![message.program] =
                       Append(@, [message |-> message, applied |-> applied])]

OpenFromTreasury(message) ==
  LET p       == message.program
      program == OpenedBy(message)
  IN  /\ ~EventRecorded(message.event)
      /\ TreasuryAnswer(programs[p], message) = "CREATED"
      /\ programs' = [programs EXCEPT ![p] = program]
      /\ RecordTreasuryEvent(message, TRUE)
      /\ outbox' = [outbox EXCEPT ![p] = Append(@, ProgramOpened(program))]
      /\ UNCHANGED <<reservations, movements>>

UpdateFromTreasury(message) ==
  LET p      == message.program
      before == programs[p]
      after  == ApplyTreasuryState(before, message)
  IN  /\ ~EventRecorded(message.event)
      /\ TreasuryAnswer(programs[p], message) = "APPLIED"
      /\ programs' = [programs EXCEPT ![p] = Saved(after)]
      /\ RecordTreasuryEvent(message, TRUE)
      /\ outbox' = [outbox EXCEPT ![p] = @ \o TreasuryUpdateEvents(before, after)]
      /\ UNCHANGED <<reservations, movements>>

\* A message not newer than the state applied is recorded and ignored.
RecordStale(message) ==
  /\ ~EventRecorded(message.event)
  /\ TreasuryAnswer(programs[message.program], message) = "STALE"
  /\ RecordTreasuryEvent(message, FALSE)
  /\ UNCHANGED <<programs, reservations, movements, outbox>>

-----------------------------------------------------------------------------
Init ==
  /\ programs = [p \in ProgramIds |-> None]
  /\ reservations = [p \in ProgramIds |-> <<>>]
  /\ movements = [p \in ProgramIds |-> <<>>]
  /\ treasuryEvents = [p \in ProgramIds |-> <<>>]
  /\ outbox = [p \in ProgramIds |-> <<>>]

Reserve ==
  \E request \in ReserveRequest :
    /\ programs[request.program] # None
    /\ \E rate \in RatesInto(programs[request.program].currency, request.amount) :
         ReserveCapacity(request, rate)

Repay == \E request \in RepaymentRequest : RecordRepaymentFor(request)

Treasury ==
  \E message \in TreasuryMessage :
    \/ OpenFromTreasury(message)
    \/ UpdateFromTreasury(message)
    \/ RecordStale(message)

Next == Reserve \/ Repay \/ Treasury

Spec == Init /\ [][Next]_vars

-----------------------------------------------------------------------------
(* Safety.                                                                 *)

Opened == {p \in ProgramIds : programs[p] # None}

TotalHeld(rows) == Total([i \in DOMAIN rows |-> Held(rows[i])], Len(rows))

\* The counter a reservation is checked against never drifts from what the
\* reservations hold, whatever was reserved, repaid and rounded before
\* (Program.release refuses a repayment when it finds that it has).
CounterMatchesHolds ==
  \A p \in Opened : programs[p].reserved = TotalHeld(reservations[p])

ReservedInLedger(ledger, id) ==
  Total([m \in DOMAIN ledger |->
           IF ledger[m].type = "RESERVE" /\ ledger[m].reservation = id
           THEN ledger[m].amount ELSE 0], Len(ledger))

ReleasedInLedger(ledger, id) ==
  Total([m \in DOMAIN ledger |->
           IF ledger[m].type = "RELEASE" /\ ledger[m].reservation = id
           THEN ledger[m].amount ELSE 0], Len(ledger))

RepaidInLedger(ledger, id) ==
  Total([m \in DOMAIN ledger |->
           IF ledger[m].type = "RELEASE" /\ ledger[m].reservation = id
           THEN ledger[m].repaidMinor ELSE 0], Len(ledger))

\* The ledger alone accounts for every reservation: what it reserved, what its
\* repayments came to in the invoice's currency and what they freed in the
\* program's (prisma-capacity-ledger.ts; the audit trail of docs/architecture.md).
LedgerExplainsReservations ==
  \A p \in ProgramIds : \A i \in DOMAIN reservations[p] :
    /\ ReservedInLedger(movements[p], i) = reservations[p][i].reserved
    /\ ReleasedInLedger(movements[p], i) = reservations[p][i].released
    /\ RepaidInLedger(movements[p], i) = reservations[p][i].repaid

\* An invoice is reserved again only after its earlier reservations were fully
\* repaid, and only under a key none of them had: a delayed retry of a request
\* already answered never holds the invoice's capacity a second time
\* (findRepeated; "reservations_one_active_per_invoice").
ReservedAgainOnlyUnderNewKey ==
  \A p \in ProgramIds : \A i, j \in DOMAIN reservations[p] :
    LET first == reservations[p][i]
        again == reservations[p][j]
    IN  i < j /\ first.invoice = again.invoice =>
          /\ again.key \notin {None, first.key}
          /\ first.status = "RELEASED"

\* However often a repayment id is sent, and with whatever details, it frees
\* capacity once (RecordRepaymentHandler; the ledger's unique repayment id).
RepaymentAppliedOnce ==
  \A p \in ProgramIds : \A i, j \in DOMAIN movements[p] :
    /\ movements[p][i].type = "RELEASE"
    /\ movements[p][j].type = "RELEASE"
    /\ movements[p][i].repayment = movements[p][j].repayment
    => i = j

\* What a reservation holds never falls short of what is still owed on its
\* invoice at the rate it was made at, never reaches two minor units above it
\* however many instalments were rounded, and is gone exactly when the invoice
\* is repaid (CEILING to reserve, FLOOR of the running total to release, and
\* the remainder at the end).
HoldTracksOutstanding ==
  \A p \in ProgramIds : \A i \in DOMAIN reservations[p] :
    LET r   == reservations[p][i]
        num == IF r.rate = None THEN 1 ELSE r.rate.num
        den == IF r.rate = None THEN 1 ELSE r.rate.den
    IN  /\ Held(r) * den >= Outstanding(r) * num
        /\ Held(r) * den < Outstanding(r) * num + 2 * den
        /\ r.status = "RELEASED" <=> Outstanding(r) = 0
        /\ r.status = "RELEASED" <=> Held(r) = 0

\* Every row the handlers write can be read back by the next command: it passes
\* the checks that the aggregates make of it and the constraints of its table,
\* after any sequence of roundings.  One that did not would leave its invoice
\* neither repaid nor reserved again (rehydrate; assertConsistent).
EveryRowLoads ==
  \A p \in Opened :
    /\ programs[p].creditLimit > 0 /\ programs[p].reserved >= 0
    /\ \A i \in DOMAIN reservations[p] :
         ReservationConsistent(reservations[p][i], programs[p].currency)
    /\ \A m \in DOMAIN movements[p] :
         /\ movements[p][m].amount >= 0
         /\ movements[p][m].type = "RESERVE" => movements[p][m].amount > 0

\* A program is over its limit only since treasury cut the limit below what was
\* reserved, and it has taken no reservation since (reserveFor checks the
\* rounded-up hold against what is available).
OverLimitOnlyByCut ==
  \A p \in Opened :
    programs[p].reserved > programs[p].creditLimit =>
      \E i \in DOMAIN outbox[p] :
        /\ outbox[p][i].type = "CreditLimitChanged"
        /\ outbox[p][i].reserved > outbox[p][i].creditLimit
        /\ \A j \in DOMAIN outbox[p] : j > i => outbox[p][j].type # "CapacityReserved"

\* What a consumer knows of a program after one more of its messages.
Consume(view, message) ==
  LET data == message.data
  IN  CASE message.eventType = "ProgramOpened" ->
             [limit |-> data.creditLimit, status |-> data.status,
              available |-> data.creditLimit, overLimit |-> FALSE, holding |-> {}]
        [] message.eventType = "CapacityReserved" ->
             [view EXCEPT !.available = data.availableAfter,
                          !.holding = @ \union {data.reservation}]
        [] message.eventType = "CapacityReleased" ->
             [view EXCEPT !.available = data.availableAfter,
                          !.overLimit = data.availableAfter < 0,
                          !.holding = IF data.reservationFullyReleased
                                      THEN @ \ {data.reservation} ELSE @]
        [] message.eventType = "CreditLimitChanged" ->
             [view EXCEPT !.limit = data.creditLimit,
                          !.overLimit = data.overLimit,
                          !.available = data.creditLimit - data.reservedAmount]
        [] message.eventType = "ProgramStatusChanged" ->
             [view EXCEPT !.status = data.status]

Replay(messages) ==
  LET view[n \in 0..Len(messages)] ==
        IF n = 0 THEN None ELSE Consume(view[n - 1], messages[n])
  IN  view[Len(messages)]

Published(p) == [i \in DOMAIN outbox[p] |-> ToCapacityEventMessage(p, outbox[p][i])]

\* A consumer that has read a program's messages, in order and from the first one,
\* knows its limit, status, availability, active reservations and whether it is over
\* its limit: no change goes without its event and no event carries a figure from
\* before its change (the events pulled from the aggregate are the ones the outbox
\* stores, and toCapacityEventMessage is all that leaves the service).
EventsTellTheState ==
  \A p \in Opened :
    Replay(Published(p)) =
      [limit |-> programs[p].creditLimit, status |-> programs[p].status,
       available |-> Available(programs[p]),
       overLimit |-> programs[p].reserved > programs[p].creditLimit,
       holding |-> {i \in DOMAIN reservations[p] : reservations[p][i].status = "ACTIVE"}]

\* The recorded messages of a program, in the order they were recorded.
Applied(p) == {i \in DOMAIN treasuryEvents[p] : treasuryEvents[p][i].applied}

Message(p, i) == treasuryEvents[p][i].message

Newest(p, S) ==
  CHOOSE i \in S : \A j \in S : Message(p, j).sequence <= Message(p, i).sequence

\* A program's limit and status are the newest ones treasury sent among the
\* messages applied, messages are applied in the order of their sequences, and
\* one is ignored only when one at least as new had been applied before it.
NewestTreasuryStateWins ==
  \A p \in Opened :
    LET withLimit  == {i \in Applied(p) : Message(p, i).limit # None}
        withStatus == {i \in Applied(p) : Message(p, i).status # None}
    IN  /\ programs[p].treasurySequence = Message(p, Newest(p, Applied(p))).sequence
        /\ programs[p].creditLimit = Message(p, Newest(p, withLimit)).limit.minor
        /\ programs[p].status =
             IF withStatus = {} THEN "ACTIVE" ELSE Message(p, Newest(p, withStatus)).status
        /\ \A i, j \in Applied(p) :
             i < j => Message(p, i).sequence < Message(p, j).sequence
        /\ \A i \in DOMAIN treasuryEvents[p] \ Applied(p) :
             \E j \in Applied(p) :
               j < i /\ Message(p, i).sequence <= Message(p, j).sequence

\* No amount the service computes outgrows its BIGINT column, though no write
\* checks it: what is reserved stays within a limit that treasury once sent.
FitsBigint ==
  \A p \in Opened :
    /\ programs[p].reserved <= MaxMinorUnits
    /\ Available(programs[p]) \in (-MaxMinorUnits)..MaxMinorUnits

SameTerms(before, after) ==
  /\ after.invoice = before.invoice
  /\ after.key = before.key
  /\ after.invoiceMinor = before.invoiceMinor
  /\ after.invoiceCurrency = before.invoiceCurrency
  /\ after.rate = before.rate
  /\ after.reserved = before.reserved

IsKept(before, after) ==
  /\ Len(before) <= Len(after)
  /\ \A i \in DOMAIN before : after[i] = before[i]

\* No step rewrites what was agreed or recorded: a program keeps its currency,
\* a reservation its terms (and its amounts repaid and released only grow), and
\* the ledger, treasury's log and the outbox keep every row.
NothingRewritten ==
  [][\A p \in ProgramIds :
       /\ programs[p] # None =>
            programs'[p] # None /\ programs'[p].currency = programs[p].currency
       /\ Len(reservations[p]) <= Len(reservations'[p])
       /\ \A i \in DOMAIN reservations[p] :
            /\ SameTerms(reservations[p][i], reservations'[p][i])
            /\ reservations[p][i].repaid <= reservations'[p][i].repaid
            /\ reservations[p][i].released <= reservations'[p][i].released
       /\ IsKept(movements[p], movements'[p])
       /\ IsKept(treasuryEvents[p], treasuryEvents'[p])
       /\ IsKept(outbox[p], outbox'[p])]_vars

-----------------------------------------------------------------------------
(* What a comment of the repository says of treasury's messages.           *)

\* apply-treasury-update.command.ts:24-25: "the newest sequence wins and a
\* message lost or reordered is corrected by the next one".  When treasury
\* numbers a program's messages apart, as line 33 says it does, and a change of the
\* limit alone, after the opening message, was overtaken and ignored, the next one
\* leaves the program with the newest limit of all the messages recorded.  It does
\* not hold: a limit overtaken by a status change is ignored, and another status
\* change does not bring it back.
NextMessageCorrects ==
  \A p \in Opened :
    LET recorded  == DOMAIN treasuryEvents[p]
        withLimit == {i \in recorded : Message(p, i).limit # None}
        last      == Len(treasuryEvents[p])
    IN  /\ \A i, j \in recorded : i # j => Message(p, i).sequence # Message(p, j).sequence
        /\ \A i \in recorded : Message(p, 1).sequence <= Message(p, i).sequence
        /\ last \in Applied(p)
        /\ last - 1 \in withLimit \ Applied(p) /\ Message(p, last - 1).status = None
        => programs[p].creditLimit = Message(p, Newest(p, withLimit)).limit.minor
=============================================================================
