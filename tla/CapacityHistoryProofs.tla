----------------------- MODULE CapacityHistoryProofs -----------------------
(***************************************************************************)
(* Proofs of what Capacity keeps over its whole history, for every set of  *)
(* programs, invoices, keys, amounts, rates and messages: that nothing is  *)
(* rewritten, that every row can be read back, that the ledger explains    *)
(* the reservations, and that the newest of treasury's messages decide.    *)
(*                                                                         *)
(* A step changes the rows of one program.  What it does to them is stated *)
(* once for each command; the invariants speak of one program's rows.      *)
(***************************************************************************)
EXTENDS CapacitySafetyProofs

\* The rows of the other programs stay as they are.
OthersKept(p) ==
  \A q \in ProgramIds : q # p =>
    /\ programs'[q] = programs[q] /\ reservations'[q] = reservations[q]
    /\ movements'[q] = movements[q] /\ treasuryEvents'[q] = treasuryEvents[q]
    /\ outbox'[q] = outbox[q]

-----------------------------------------------------------------------------
(* What each command does to the rows of its program.                      *)

\* The rows of a program are well typed.
LEMMA TablesTyped ==
  ASSUME TypeInv, NEW p \in ProgramIds
  PROVE  /\ programs[p] \in ProgramRow \union {None}
         /\ reservations[p] \in Seq(ReservationRow)
         /\ movements[p] \in Seq(MovementRow)
         /\ treasuryEvents[p] \in Seq(TreasuryRow)
         /\ outbox[p] \in Seq(OutboxEvent)
         /\ \A i \in DOMAIN reservations[p] : RowAccounts(reservations[p][i])
BY DEF TypeInv, TypeOK, RowsAccount

\* A counter written anew leaves the rest of its program as it was.
LEMMA CounterOnly ==
  ASSUME NEW program \in ProgramRow, NEW n \in Nat
  PROVE  /\ WithReserved(program, n) \in ProgramRow
         /\ WithReserved(program, n).reserved = n
         /\ WithReserved(program, n).creditLimit = program.creditLimit
         /\ WithReserved(program, n).currency = program.currency
         /\ WithReserved(program, n).status = program.status
         /\ WithReserved(program, n).treasurySequence = program.treasurySequence
<1> DEFINE after == WithReserved(program, n)
<1>1. after = WithReserved(program, n)
  OBVIOUS
<1> HIDE DEF after
<1>2. QED
  BY <1>1, CounterWritten

\* A reservation was created.
ReservedBy(request, p, id, toHold, row) ==
  /\ p \in ProgramIds /\ programs[p] \in ProgramRow /\ row \in ReservationRow
  /\ p = request.program /\ id = Len(reservations[p]) + 1
  /\ row.reserved = toHold /\ row.repaid = 0 /\ row.released = 0 /\ row.status = "ACTIVE"
  /\ IF row.rate = None THEN row.invoiceCurrency = programs[p].currency
                        ELSE row.rate.to = programs[p].currency
  /\ toHold \in Nat \ {0} /\ toHold <= Available(programs[p])
  /\ programs'[p] = WithReserved(programs[p], programs[p].reserved + toHold)
  /\ programs'[p] \in ProgramRow
  /\ programs'[p].reserved = programs[p].reserved + toHold
  /\ programs'[p].creditLimit = programs[p].creditLimit
  /\ programs'[p].currency = programs[p].currency
  /\ programs'[p].status = programs[p].status
  /\ programs'[p].treasurySequence = programs[p].treasurySequence
  /\ reservations'[p] = Append(reservations[p], row)
  /\ movements'[p] = Append(movements[p], ReserveMovement(id, toHold, programs'[p]))
  /\ outbox'[p] = Append(outbox[p], CapacityReserved(id, programs'[p]))
  /\ treasuryEvents'[p] = treasuryEvents[p]
  /\ OthersKept(p)

\* What ReserveCapacityHandler has written once it answers CREATED.
LEMMA ReserveEffects ==
  ASSUME TypeInv, NEW request \in ReserveRequest, programs[request.program] # None,
         NEW rate \in RatesInto(programs[request.program].currency, request.amount),
         ReserveCapacity(request, rate),
         NEW p, p = request.program,
         NEW id, id = Len(reservations[p]) + 1,
         NEW toHold, toHold = ToProgramCurrency(request.amount, rate),
         NEW row, row = OpenReservation(request.invoice, request.key, request.amount, rate, toHold)
  PROVE  ReservedBy(request, p, id, toHold, row)
<1> DEFINE counter == programs[p].reserved + toHold
           program == WithReserved(programs[p], counter)
<1>1. /\ p \in ProgramIds /\ programs[p] \in ProgramRow /\ row \in ReservationRow
      /\ toHold \in Nat \ {0} /\ toHold <= Available(programs[p])
  BY ReserveComputes
<1>2. /\ programs' = [programs EXCEPT ![p] = program]
      /\ reservations' = [reservations EXCEPT ![p] = Append(@, row)]
      /\ movements' = [movements EXCEPT ![p] = Append(@, ReserveMovement(id, toHold, program))]
      /\ outbox' = [outbox EXCEPT ![p] = Append(@, CapacityReserved(id, program))]
      /\ treasuryEvents' = treasuryEvents
  BY DEF ReserveCapacity
<1>3. programs[p] \in ProgramRow /\ counter \in Nat
  BY <1>1 DEF ProgramRow
<1> HIDE DEF counter
<1>4. /\ program \in ProgramRow /\ program.reserved = counter
      /\ program.creditLimit = programs[p].creditLimit
      /\ program.currency = programs[p].currency /\ program.status = programs[p].status
      /\ program.treasurySequence = programs[p].treasurySequence
  BY <1>3, CounterOnly
<1>5. /\ programs \in [ProgramIds -> ProgramRow \union {None}]
      /\ reservations \in [ProgramIds -> Seq(ReservationRow)]
      /\ movements \in [ProgramIds -> Seq(MovementRow)]
      /\ outbox \in [ProgramIds -> Seq(OutboxEvent)]
  BY DEF TypeInv, TypeOK
<1>6. programs'[p] = program
  BY <1>1, <1>2, <1>5
<1>7. /\ reservations'[p] = Append(reservations[p], row)
      /\ movements'[p] = Append(movements[p], ReserveMovement(id, toHold, program))
      /\ outbox'[p] = Append(outbox[p], CapacityReserved(id, program))
  BY <1>1, <1>2, <1>5
<1>8. OthersKept(p)
  BY <1>1, <1>2, <1>5 DEF OthersKept
<1>9. /\ row.reserved = toHold /\ row.repaid = 0 /\ row.released = 0 /\ row.status = "ACTIVE"
      /\ row.rate = rate /\ row.invoiceCurrency = request.amount.currency
  BY DEF OpenReservation
<1>10. IF row.rate = None THEN row.invoiceCurrency = programs[p].currency
                         ELSE row.rate.to = programs[p].currency
  <2>1. rate # Unavailable
    BY ReserveCreated DEF ReserveCapacity
  <2>2. request.amount.currency \in Currencies /\ programs[p].currency \in Currencies
    BY <1>1, ConstantsAssumption DEF ReserveRequest, Money, ProgramRow
  <2>3. <<request.amount.currency, programs[p].currency>> \in Currencies \X Currencies
    BY <2>2
  <2>4. \A quote \in Quotes[<<request.amount.currency, programs[p].currency>>] :
          quote \in ExchangeRate /\ quote.to = programs[p].currency
    BY <2>3, ConstantsAssumption
  <2>5. CASE request.amount.currency = programs[p].currency
    BY <1>9, <2>5 DEF RatesInto
  <2>6. CASE request.amount.currency # programs[p].currency
    BY <1>9, <2>1, <2>4, <2>6, NullAssumption DEF RatesInto
  <2>7. QED
    BY <2>5, <2>6
<1> HIDE DEF program
<1>11. QED
  BY <1>1, <1>2, <1>4, <1>6, <1>7, <1>8, <1>9, <1>10 DEF program, counter, ReservedBy

\* A repayment was applied.
RepaidBy(request, p, id, before, after) ==
  /\ p \in ProgramIds /\ programs[p] \in ProgramRow
  /\ request \in RepaymentRequest /\ p = request.program
  /\ id \in DOMAIN reservations[p] /\ before = reservations[p][id]
  /\ before \in ReservationRow /\ before.status = "ACTIVE"
  /\ after \in ReservationRow /\ SameTerms(before, after)
  /\ after.repaid - before.repaid \in Nat \ {0}
  /\ after.released - before.released \in Nat
  /\ after.released - before.released <= programs[p].reserved
  /\ programs'[p] = ReleaseFrom(programs[p], before, after)
  /\ programs'[p] \in ProgramRow
  /\ programs'[p].reserved = programs[p].reserved - (after.released - before.released)
  /\ programs'[p].creditLimit = programs[p].creditLimit
  /\ programs'[p].currency = programs[p].currency
  /\ programs'[p].status = programs[p].status
  /\ programs'[p].treasurySequence = programs[p].treasurySequence
  /\ reservations'[p] = [reservations[p] EXCEPT ![id] = after]
  /\ movements'[p] = Append(movements[p],
       ReleaseMovement(id, before, after, programs'[p], request.repayment))
  /\ outbox'[p] = Append(outbox[p], CapacityReleased(id, after, programs'[p]))
  /\ treasuryEvents'[p] = treasuryEvents[p]
  /\ OthersKept(p)

\* What RecordRepaymentHandler has written once it answers APPLIED.
LEMMA RepayEffects ==
  ASSUME TypeInv, NEW request \in RepaymentRequest, RecordRepaymentFor(request),
         NEW p, p = request.program,
         NEW id, id = ActiveId(reservations[p], request.invoice),
         NEW before, before = reservations[p][id],
         NEW after, after = RecordRepayment(before, RepaidAmount(before, request).minor)
  PROVE  RepaidBy(request, p, id, before, after)
<1> DEFINE freed == after.released - before.released
           counter == programs[p].reserved - freed
           program == WithReserved(programs[p], counter)
<1>1. /\ p \in ProgramIds /\ programs[p] \in ProgramRow
      /\ id \in DOMAIN reservations[p]
      /\ before \in ReservationRow /\ before.status = "ACTIVE"
      /\ after \in ReservationRow /\ SameTerms(before, after)
      /\ after.repaid - before.repaid \in Nat \ {0}
      /\ freed \in Nat /\ freed <= programs[p].reserved
  <2> HIDE DEF program, counter
  <2>1. QED
    BY RepayComputes
<1> HIDE DEF freed
<1>2. program = ReleaseFrom(programs[p], before, after)
  <2>1. counter = programs[p].reserved - (after.released - before.released)
    BY DEF freed
  <2> HIDE DEF counter
  <2>2. QED
    BY <2>1 DEF ReleaseFrom
<1>3. /\ programs' = [programs EXCEPT ![p] = program]
      /\ reservations' = [reservations EXCEPT ![p][id] = after]
      /\ movements' = [movements EXCEPT ![p] =
           Append(@, ReleaseMovement(id, before, after, program, request.repayment))]
      /\ outbox' = [outbox EXCEPT ![p] = Append(@, CapacityReleased(id, after, program))]
      /\ treasuryEvents' = treasuryEvents
  BY <1>2 DEF RecordRepaymentFor
<1>4. programs[p] \in ProgramRow /\ counter \in Nat
  <2>1. programs[p].reserved \in Nat /\ freed \in Nat /\ freed <= programs[p].reserved
    BY <1>1 DEF ProgramRow
  <2>2. \A m \in Nat : m <= programs[p].reserved => programs[p].reserved - m \in Nat
    BY <2>1
  <2>3. QED
    BY <1>1, <2>1, <2>2
<1> HIDE DEF counter
<1>5. /\ program \in ProgramRow /\ program.reserved = counter
      /\ program.creditLimit = programs[p].creditLimit
      /\ program.currency = programs[p].currency /\ program.status = programs[p].status
      /\ program.treasurySequence = programs[p].treasurySequence
  BY <1>4, CounterOnly
<1>6. /\ programs \in [ProgramIds -> ProgramRow \union {None}]
      /\ reservations \in [ProgramIds -> Seq(ReservationRow)]
      /\ movements \in [ProgramIds -> Seq(MovementRow)]
      /\ outbox \in [ProgramIds -> Seq(OutboxEvent)]
  BY DEF TypeInv, TypeOK
<1> HIDE DEF program
<1>7. programs'[p] = program
  BY <1>1, <1>3, <1>6
<1>8. /\ reservations'[p] = [reservations[p] EXCEPT ![id] = after]
      /\ movements'[p] = Append(movements[p],
           ReleaseMovement(id, before, after, program, request.repayment))
      /\ outbox'[p] = Append(outbox[p], CapacityReleased(id, after, program))
  BY <1>1, <1>3, <1>6
<1>9. OthersKept(p)
  BY <1>1, <1>3, <1>6 DEF OthersKept
<1>10. programs'[p] = ReleaseFrom(programs[p], before, after) /\ programs'[p] \in ProgramRow
  BY <1>2, <1>5, <1>7
<1>11. /\ programs'[p].reserved = programs[p].reserved - freed
       /\ programs'[p].creditLimit = programs[p].creditLimit
       /\ programs'[p].currency = programs[p].currency
       /\ programs'[p].status = programs[p].status
       /\ programs'[p].treasurySequence = programs[p].treasurySequence
  BY <1>5, <1>7 DEF counter
<1>12. treasuryEvents'[p] = treasuryEvents[p]
  BY <1>3
<1>13. freed = after.released - before.released
  BY DEF freed
<1>14. QED
  BY <1>1, <1>7, <1>8, <1>9, <1>10, <1>11, <1>12, <1>13 DEF RepaidBy

\* A message opened its program.
OpenedWith(message, p, after) ==
  /\ p \in ProgramIds /\ programs[p] = None
  /\ message.limit # None
  /\ programs'[p] = after /\ after \in ProgramRow
  /\ after.reserved = 0
  /\ after.creditLimit = message.limit.minor
  /\ after.status = (IF message.status = None THEN "ACTIVE" ELSE message.status)
  /\ after.treasurySequence = message.sequence
  /\ treasuryEvents'[p] =
       Append(treasuryEvents[p], [message |-> message, applied |-> TRUE])
  /\ outbox'[p] = Append(outbox[p], ProgramOpened(after))
  /\ reservations'[p] = reservations[p] /\ movements'[p] = movements[p]
  /\ OthersKept(p)

\* What ApplyTreasuryUpdateHandler has written once it opened a program.
LEMMA OpenEffects ==
  ASSUME TypeInv, NEW message \in TreasuryMessage, OpenFromTreasury(message),
         NEW p, p = message.program,
         NEW after, after = OpenedBy(message)
  PROVE  OpenedWith(message, p, after)
<1>1. p \in ProgramIds
  BY MessageTypes
<1>2. TreasuryAnswer(programs[p], message) = "CREATED"
  BY DEF OpenFromTreasury
<1>3. programs[p] = None /\ message.limit # None
  BY <1>2, TreasuryCreated
<1> DEFINE status == IF message.status = None THEN "ACTIVE" ELSE message.status
<1>4. after = OpenProgram(message.limit, status, message.sequence)
  BY DEF OpenedBy
<1> HIDE DEF status
<1>5. /\ after \in ProgramRow /\ after.reserved = 0
      /\ after.creditLimit = message.limit.minor
  BY <1>2, <1>4, OpenComputes DEF status
<1>6. after.status = status /\ after.treasurySequence = message.sequence
  BY <1>4 DEF OpenProgram
<1>7. /\ programs' = [programs EXCEPT ![p] = after]
      /\ treasuryEvents' = [treasuryEvents EXCEPT ![p] =
                              Append(@, [message |-> message, applied |-> TRUE])]
      /\ outbox' = [outbox EXCEPT ![p] = Append(@, ProgramOpened(after))]
      /\ reservations' = reservations /\ movements' = movements
  BY DEF OpenFromTreasury, RecordTreasuryEvent
<1>8. /\ programs \in [ProgramIds -> ProgramRow \union {None}]
      /\ treasuryEvents \in [ProgramIds -> Seq(TreasuryRow)]
      /\ outbox \in [ProgramIds -> Seq(OutboxEvent)]
  BY DEF TypeInv, TypeOK
<1>9. /\ programs'[p] = after
      /\ treasuryEvents'[p] =
           Append(treasuryEvents[p], [message |-> message, applied |-> TRUE])
      /\ outbox'[p] = Append(outbox[p], ProgramOpened(after))
      /\ reservations'[p] = reservations[p] /\ movements'[p] = movements[p]
  BY <1>1, <1>7, <1>8
<1>10. OthersKept(p)
  BY <1>7, <1>8 DEF OthersKept
<1>11. QED
  BY <1>1, <1>3, <1>5, <1>6, <1>9, <1>10 DEF status, OpenedWith

\* A message updated its program.
UpdatedWith(message, p, before, after) ==
  /\ p \in ProgramIds /\ before = programs[p]
  /\ before \in ProgramRow /\ after \in ProgramRow
  /\ message.sequence > before.treasurySequence
  /\ after.reserved = before.reserved
  /\ after.creditLimit =
       (IF message.limit = None THEN before.creditLimit ELSE message.limit.minor)
  /\ after.status = (IF message.status = None THEN before.status ELSE message.status)
  /\ programs'[p] = Saved(after) /\ programs'[p] \in ProgramRow
  /\ programs'[p].reserved = before.reserved
  /\ programs'[p].currency = before.currency
  /\ programs'[p].creditLimit = after.creditLimit
  /\ programs'[p].status = after.status
  /\ programs'[p].treasurySequence = message.sequence
  /\ treasuryEvents'[p] =
       Append(treasuryEvents[p], [message |-> message, applied |-> TRUE])
  /\ outbox'[p] = outbox[p] \o TreasuryUpdateEvents(before, after)
  /\ reservations'[p] = reservations[p] /\ movements'[p] = movements[p]
  /\ OthersKept(p)

\* What it has written once it updated one.
LEMMA UpdateEffects ==
  ASSUME TypeInv, NEW message \in TreasuryMessage, UpdateFromTreasury(message),
         NEW p, p = message.program,
         NEW before, before = programs[p],
         NEW after, after = ApplyTreasuryState(before, message)
  PROVE  UpdatedWith(message, p, before, after)
<1>1. p \in ProgramIds /\ before \in ProgramRow \union {None}
  BY MessageTypes DEF TypeInv, TypeOK
<1>2. TreasuryAnswer(before, message) = "APPLIED"
  BY DEF UpdateFromTreasury
<1> DEFINE saved == Saved(after)
<1>3. saved = Saved(after)
  OBVIOUS
<1> HIDE DEF saved
<1>4. /\ before \in ProgramRow /\ after \in ProgramRow /\ saved \in ProgramRow
      /\ saved.reserved = before.reserved
      /\ saved.currency = before.currency
      /\ saved.creditLimit = after.creditLimit
      /\ saved.status = after.status
      /\ after.reserved = before.reserved
      /\ after.creditLimit =
           IF message.limit = None THEN before.creditLimit ELSE message.limit.minor
      /\ after.status = IF message.status = None THEN before.status ELSE message.status
      /\ saved.treasurySequence = message.sequence
      /\ message.sequence > before.treasurySequence
  BY <1>1, <1>2, <1>3, UpdateComputes
<1>5. /\ programs' = [programs EXCEPT ![p] = saved]
      /\ treasuryEvents' = [treasuryEvents EXCEPT ![p] =
                              Append(@, [message |-> message, applied |-> TRUE])]
      /\ outbox' = [outbox EXCEPT ![p] = @ \o TreasuryUpdateEvents(before, after)]
      /\ reservations' = reservations /\ movements' = movements
  BY <1>3 DEF UpdateFromTreasury, RecordTreasuryEvent
<1>6. /\ programs \in [ProgramIds -> ProgramRow \union {None}]
      /\ treasuryEvents \in [ProgramIds -> Seq(TreasuryRow)]
      /\ outbox \in [ProgramIds -> Seq(OutboxEvent)]
  BY DEF TypeInv, TypeOK
<1>7. /\ programs'[p] = saved
      /\ treasuryEvents'[p] =
           Append(treasuryEvents[p], [message |-> message, applied |-> TRUE])
      /\ outbox'[p] = outbox[p] \o TreasuryUpdateEvents(before, after)
      /\ reservations'[p] = reservations[p] /\ movements'[p] = movements[p]
  BY <1>1, <1>5, <1>6
<1>8. OthersKept(p)
  BY <1>5, <1>6 DEF OthersKept
<1>9. QED
  BY <1>1, <1>3, <1>4, <1>7, <1>8 DEF UpdatedWith

\* A message was recorded and ignored.
IgnoredStale(message, p) ==
  /\ p \in ProgramIds /\ programs[p] \in ProgramRow
  /\ message.sequence <= programs[p].treasurySequence
  /\ treasuryEvents'[p] =
       Append(treasuryEvents[p], [message |-> message, applied |-> FALSE])
  /\ programs'[p] = programs[p] /\ outbox'[p] = outbox[p]
  /\ reservations'[p] = reservations[p] /\ movements'[p] = movements[p]
  /\ OthersKept(p)

\* What it has written of a message it ignored.
LEMMA StaleEffects ==
  ASSUME TypeInv, NEW message \in TreasuryMessage, RecordStale(message),
         NEW p, p = message.program
  PROVE  IgnoredStale(message, p)
<1>1. p \in ProgramIds /\ programs[p] \in ProgramRow \union {None}
  BY MessageTypes DEF TypeInv, TypeOK
<1>2. TreasuryAnswer(programs[p], message) = "STALE"
  BY DEF RecordStale
<1>3. programs[p] # None /\ TreasuryRefusal(programs[p], message) = "STALE"
  BY <1>2, Zenon DEF TreasuryAnswer
<1>4. message.sequence <= programs[p].treasurySequence
  BY <1>3, Zenon DEF TreasuryRefusal
<1>5. /\ treasuryEvents' = [treasuryEvents EXCEPT ![p] =
                              Append(@, [message |-> message, applied |-> FALSE])]
      /\ UNCHANGED <<programs, reservations, movements, outbox>>
  BY DEF RecordStale, RecordTreasuryEvent
<1>6. treasuryEvents \in [ProgramIds -> Seq(TreasuryRow)]
  BY DEF TypeInv, TypeOK
<1>7. treasuryEvents'[p] = Append(treasuryEvents[p], [message |-> message, applied |-> FALSE])
  BY <1>1, <1>5, <1>6
<1>8. OthersKept(p)
  BY <1>5, <1>6 DEF OthersKept
<1>9. QED
  BY <1>1, <1>3, <1>4, <1>5, <1>7, <1>8 DEF IgnoredStale

\* A step changes one program, in one of five ways.
LEMMA NextEffects ==
  ASSUME TypeInv, Next
  PROVE  \/ \E request, p, id, toHold, row : ReservedBy(request, p, id, toHold, row)
         \/ \E request, p, id, before, after : RepaidBy(request, p, id, before, after)
         \/ \E message \in TreasuryMessage : \E p, after : OpenedWith(message, p, after)
         \/ \E message \in TreasuryMessage : \E p, before, after :
               UpdatedWith(message, p, before, after)
         \/ \E message \in TreasuryMessage : \E p : IgnoredStale(message, p)
<1>1. CASE Reserve
  <2>1. PICK request \in ReserveRequest :
          /\ programs[request.program] # None
          /\ \E rate \in RatesInto(programs[request.program].currency, request.amount) :
               ReserveCapacity(request, rate)
    BY <1>1 DEF Reserve
  <2>2. PICK rate \in RatesInto(programs[request.program].currency, request.amount) :
          ReserveCapacity(request, rate)
    BY <2>1
  <2> DEFINE p == request.program
             id == Len(reservations[p]) + 1
             toHold == ToProgramCurrency(request.amount, rate)
             row == OpenReservation(request.invoice, request.key, request.amount, rate, toHold)
  <2>3. ReservedBy(request, p, id, toHold, row)
    BY <2>1, <2>2, ReserveEffects
  <2>4. QED
    BY <2>3
<1>2. CASE Repay
  <2>1. PICK request \in RepaymentRequest : RecordRepaymentFor(request)
    BY <1>2 DEF Repay
  <2> DEFINE p == request.program
             id == ActiveId(reservations[p], request.invoice)
             before == reservations[p][id]
             after == RecordRepayment(before, RepaidAmount(before, request).minor)
  <2>2. RepaidBy(request, p, id, before, after)
    BY <2>1, RepayEffects
  <2>3. QED
    BY <2>2
<1>3. CASE Treasury
  <2>1. PICK message \in TreasuryMessage : \/ OpenFromTreasury(message)
                                           \/ UpdateFromTreasury(message)
                                           \/ RecordStale(message)
    BY <1>3 DEF Treasury
  <2> DEFINE p == message.program
             before == programs[p]
             after == ApplyTreasuryState(before, message)
             opened == OpenedBy(message)
  <2>2. CASE OpenFromTreasury(message)
    <3>1. OpenedWith(message, p, opened)
      BY <2>2, OpenEffects
    <3>2. QED
      BY <3>1
  <2>3. CASE UpdateFromTreasury(message)
    <3>1. UpdatedWith(message, p, before, after)
      BY <2>3, UpdateEffects
    <3>2. QED
      BY <3>1
  <2>4. CASE RecordStale(message)
    BY <2>4, StaleEffects
  <2>5. QED
    BY <2>1, <2>2, <2>3, <2>4
<1>4. QED
  BY <1>1, <1>2, <1>3 DEF Next

-----------------------------------------------------------------------------
(* Nothing is rewritten.                                                   *)

\* What a step keeps of one program, and what it keeps of all.
KeptOf(p) ==
  /\ programs[p] # None =>
       programs'[p] # None /\ programs'[p].currency = programs[p].currency
  /\ Len(reservations[p]) <= Len(reservations'[p])
  /\ \A i \in DOMAIN reservations[p] :
       /\ SameTerms(reservations[p][i], reservations'[p][i])
       /\ reservations[p][i].repaid <= reservations'[p][i].repaid
       /\ reservations[p][i].released <= reservations'[p][i].released
  /\ IsKept(movements[p], movements'[p])
  /\ IsKept(treasuryEvents[p], treasuryEvents'[p])
  /\ IsKept(outbox[p], outbox'[p])

Kept == \A p \in ProgramIds : KeptOf(p)

\* What is added at the end leaves the rest alone.
LEMMA AddedIsKept ==
  ASSUME NEW S, NEW s \in Seq(S), NEW row, NEW more \in Seq(S)
  PROVE  IsKept(s, s) /\ IsKept(s, Append(s, row)) /\ IsKept(s, s \o more)
<1>1. Len(s) \in Nat /\ Len(more) \in Nat
  OBVIOUS
<1>2. IsKept(s, s)
  BY <1>1 DEF IsKept
<1>3. IsKept(s, Append(s, row))
  BY DEF IsKept
<1>4. Len(s) <= Len(s \o more)
  BY <1>1
<1>5. IsKept(s, s \o more)
  BY <1>4 DEF IsKept
<1>6. QED
  BY <1>2, <1>3, <1>5

\* Reservations that a step leaves alone, or adds one to.
LEMMA ReservationsKept ==
  ASSUME NEW rows \in Seq(ReservationRow), NEW row,
         NEW after, after = rows \/ after = Append(rows, row)
  PROVE  /\ Len(rows) <= Len(after)
         /\ \A i \in DOMAIN rows : /\ SameTerms(rows[i], after[i])
                                   /\ rows[i].repaid <= after[i].repaid
                                   /\ rows[i].released <= after[i].released
<1>1. Len(rows) \in Nat /\ Len(rows) <= Len(after) /\ \A i \in DOMAIN rows : after[i] = rows[i]
  OBVIOUS
<1>2. \A i \in DOMAIN rows : rows[i].repaid \in Nat /\ rows[i].released \in Nat
  <2> SUFFICES ASSUME NEW i \in DOMAIN rows PROVE rows[i].repaid \in Nat /\ rows[i].released \in Nat
    OBVIOUS
  <2>1. rows[i] \in ReservationRow
    OBVIOUS
  <2>2. QED
    BY <2>1 DEF ReservationRow
<1>3. QED
  BY <1>1, <1>2 DEF SameTerms

\* The programs a step does not touch.
LEMMA OthersAreKept ==
  ASSUME TypeInv, NEW p \in ProgramIds, OthersKept(p), KeptOf(p)
  PROVE  Kept
<1> SUFFICES ASSUME NEW q \in ProgramIds, q # p PROVE KeptOf(q)
  BY DEF Kept
<1>1. /\ programs'[q] = programs[q] /\ reservations'[q] = reservations[q]
      /\ movements'[q] = movements[q] /\ treasuryEvents'[q] = treasuryEvents[q]
      /\ outbox'[q] = outbox[q]
  BY DEF OthersKept
<1>2. /\ reservations[q] \in Seq(ReservationRow) /\ movements[q] \in Seq(MovementRow)
      /\ treasuryEvents[q] \in Seq(TreasuryRow) /\ outbox[q] \in Seq(OutboxEvent)
  BY TablesTyped
<1>3. /\ IsKept(movements[q], movements'[q])
      /\ IsKept(treasuryEvents[q], treasuryEvents'[q])
      /\ IsKept(outbox[q], outbox'[q])
  BY <1>1, <1>2, AddedIsKept
<1>4. /\ Len(reservations[q]) <= Len(reservations'[q])
      /\ \A i \in DOMAIN reservations[q] :
           /\ SameTerms(reservations[q][i], reservations'[q][i])
           /\ reservations[q][i].repaid <= reservations'[q][i].repaid
           /\ reservations[q][i].released <= reservations'[q][i].released
  BY <1>1, <1>2, ReservationsKept
<1>5. QED
  BY <1>1, <1>3, <1>4 DEF KeptOf

\* A reservation that is created rewrites nothing.
LEMMA ReservedKeeps ==
  ASSUME TypeInv, NEW request, NEW p, NEW id, NEW toHold, NEW row,
         ReservedBy(request, p, id, toHold, row)
  PROVE  Kept
<1>1. /\ p \in ProgramIds /\ programs[p] \in ProgramRow
      /\ programs'[p] \in ProgramRow /\ programs'[p].currency = programs[p].currency
      /\ reservations'[p] = Append(reservations[p], row)
      /\ movements'[p] = Append(movements[p], ReserveMovement(id, toHold, programs'[p]))
      /\ outbox'[p] = Append(outbox[p], CapacityReserved(id, programs'[p]))
      /\ treasuryEvents'[p] = treasuryEvents[p]
      /\ OthersKept(p)
  BY DEF ReservedBy
<1>2. /\ reservations[p] \in Seq(ReservationRow) /\ movements[p] \in Seq(MovementRow)
      /\ treasuryEvents[p] \in Seq(TreasuryRow) /\ outbox[p] \in Seq(OutboxEvent)
  BY <1>1, TablesTyped
<1>3. /\ IsKept(movements[p], movements'[p])
      /\ IsKept(treasuryEvents[p], treasuryEvents'[p])
      /\ IsKept(outbox[p], outbox'[p])
  BY <1>1, <1>2, AddedIsKept
<1>4. /\ Len(reservations[p]) <= Len(reservations'[p])
      /\ \A i \in DOMAIN reservations[p] :
           /\ SameTerms(reservations[p][i], reservations'[p][i])
           /\ reservations[p][i].repaid <= reservations'[p][i].repaid
           /\ reservations[p][i].released <= reservations'[p][i].released
  BY <1>1, <1>2, ReservationsKept
<1>5. programs'[p] # None
  BY <1>1, NullAssumption
<1>6. KeptOf(p)
  BY <1>1, <1>3, <1>4, <1>5 DEF KeptOf
<1>7. QED
  BY <1>1, <1>6, OthersAreKept

\* A repayment changes what its reservation has repaid and released, upwards.
LEMMA RepaidKeeps ==
  ASSUME TypeInv, NEW request, NEW p, NEW id, NEW before, NEW after,
         RepaidBy(request, p, id, before, after)
  PROVE  Kept
<1>1. /\ p \in ProgramIds /\ programs[p] \in ProgramRow
      /\ id \in DOMAIN reservations[p] /\ before = reservations[p][id]
      /\ before \in ReservationRow /\ after \in ReservationRow
      /\ SameTerms(before, after)
      /\ after.repaid - before.repaid \in Nat \ {0}
      /\ after.released - before.released \in Nat
      /\ programs'[p] \in ProgramRow /\ programs'[p].currency = programs[p].currency
      /\ reservations'[p] = [reservations[p] EXCEPT ![id] = after]
      /\ movements'[p] = Append(movements[p],
           ReleaseMovement(id, before, after, programs'[p], request.repayment))
      /\ outbox'[p] = Append(outbox[p], CapacityReleased(id, after, programs'[p]))
      /\ treasuryEvents'[p] = treasuryEvents[p]
      /\ OthersKept(p)
  BY DEF RepaidBy
<1>2. /\ reservations[p] \in Seq(ReservationRow) /\ movements[p] \in Seq(MovementRow)
      /\ treasuryEvents[p] \in Seq(TreasuryRow) /\ outbox[p] \in Seq(OutboxEvent)
  BY <1>1, TablesTyped
<1>3. /\ IsKept(movements[p], movements'[p])
      /\ IsKept(treasuryEvents[p], treasuryEvents'[p])
      /\ IsKept(outbox[p], outbox'[p])
  <2>1. \A S : \A s \in Seq(S) : IsKept(s, s) /\ \A new : IsKept(s, Append(s, new))
    BY AddedIsKept
  <2>2. IsKept(movements[p], movements'[p]) /\ IsKept(outbox[p], outbox'[p])
    BY <1>1, <1>2, <2>1
  <2>3. IsKept(treasuryEvents[p], treasuryEvents'[p])
    BY <1>1, <1>2, <2>1
  <2>4. QED
    BY <2>2, <2>3
<1>4. before.repaid <= after.repaid /\ before.released <= after.released
  <2>1. /\ before.repaid \in Nat /\ after.repaid \in Nat
        /\ before.released \in Nat /\ after.released \in Nat
    BY <1>1 DEF ReservationRow
  <2>2. QED
    BY <1>1, <2>1
<1>5. Len(reservations[p]) <= Len(reservations'[p])
  BY <1>1, <1>2
<1>6. ASSUME NEW i \in DOMAIN reservations[p]
      PROVE  /\ SameTerms(reservations[p][i], reservations'[p][i])
             /\ reservations[p][i].repaid <= reservations'[p][i].repaid
             /\ reservations[p][i].released <= reservations'[p][i].released
  <2>1. CASE i = id
    <3>1. reservations'[p][i] = after /\ reservations[p][i] = before
      BY <1>1, <1>2, <2>1
    <3>2. QED
      BY <1>1, <1>4, <3>1
  <2>2. CASE i # id
    <3>1. reservations'[p][i] = reservations[p][i]
      BY <1>1, <1>2, <2>2
    <3>2. QED
      BY <1>2, <3>1, ReservationsKept
  <2>3. QED
    BY <2>1, <2>2
<1>7. programs'[p] # None
  BY <1>1, NullAssumption
<1>8. KeptOf(p)
  BY <1>1, <1>3, <1>5, <1>6, <1>7 DEF KeptOf
<1>9. QED
  BY <1>1, <1>8, OthersAreKept

\* A message leaves the reservations and the ledger as they are.
LEMMA MessageKeeps ==
  ASSUME TypeInv, NEW p \in ProgramIds, OthersKept(p),
         reservations'[p] = reservations[p], movements'[p] = movements[p],
         NEW row, treasuryEvents'[p] = Append(treasuryEvents[p], row),
         IsKept(outbox[p], outbox'[p]),
         programs[p] # None =>
           programs'[p] # None /\ programs'[p].currency = programs[p].currency
  PROVE  Kept
<1>1. /\ reservations[p] \in Seq(ReservationRow) /\ movements[p] \in Seq(MovementRow)
      /\ treasuryEvents[p] \in Seq(TreasuryRow)
  BY TablesTyped
<1>2. IsKept(movements[p], movements'[p]) /\ IsKept(treasuryEvents[p], treasuryEvents'[p])
  BY <1>1, AddedIsKept
<1>3. /\ Len(reservations[p]) <= Len(reservations'[p])
      /\ \A i \in DOMAIN reservations[p] :
           /\ SameTerms(reservations[p][i], reservations'[p][i])
           /\ reservations[p][i].repaid <= reservations'[p][i].repaid
           /\ reservations[p][i].released <= reservations'[p][i].released
  BY <1>1, ReservationsKept
<1>4. KeptOf(p)
  BY <1>2, <1>3 DEF KeptOf
<1>5. QED
  BY <1>4, OthersAreKept

\* Whatever a step does, it keeps what was agreed and recorded.
LEMMA NextKeeps == TypeInv /\ Next => Kept
<1> SUFFICES ASSUME TypeInv, Next PROVE Kept
  OBVIOUS
<1>1. ASSUME NEW request, NEW p, NEW id, NEW toHold, NEW row,
             ReservedBy(request, p, id, toHold, row)
      PROVE  Kept
  BY <1>1, ReservedKeeps
<1>2. ASSUME NEW request, NEW p, NEW id, NEW before, NEW after,
             RepaidBy(request, p, id, before, after)
      PROVE  Kept
  BY <1>2, RepaidKeeps
<1>3. ASSUME NEW message \in TreasuryMessage, NEW p, NEW after, OpenedWith(message, p, after)
      PROVE  Kept
  <2>1. /\ p \in ProgramIds /\ programs[p] = None
        /\ treasuryEvents'[p] =
             Append(treasuryEvents[p], [message |-> message, applied |-> TRUE])
        /\ outbox'[p] = Append(outbox[p], ProgramOpened(after))
        /\ reservations'[p] = reservations[p] /\ movements'[p] = movements[p]
        /\ OthersKept(p)
    BY <1>3 DEF OpenedWith
  <2>2. IsKept(outbox[p], outbox'[p])
    BY <2>1, TablesTyped, AddedIsKept
  <2>3. QED
    BY <2>1, <2>2, MessageKeeps
<1>4. ASSUME NEW message \in TreasuryMessage, NEW p, NEW before, NEW after,
             UpdatedWith(message, p, before, after)
      PROVE  Kept
  <2>1. /\ p \in ProgramIds /\ before \in ProgramRow /\ after \in ProgramRow
        /\ programs'[p] \in ProgramRow /\ programs'[p].currency = before.currency
        /\ treasuryEvents'[p] =
             Append(treasuryEvents[p], [message |-> message, applied |-> TRUE])
        /\ outbox'[p] = outbox[p] \o TreasuryUpdateEvents(before, after)
        /\ reservations'[p] = reservations[p] /\ movements'[p] = movements[p]
        /\ OthersKept(p)
        /\ before = programs[p]
    BY <1>4 DEF UpdatedWith
  <2>2. TreasuryUpdateEvents(before, after) \in Seq(OutboxEvent)
    BY <2>1, UpdateEventsTypes
  <2>3. IsKept(outbox[p], outbox'[p])
    BY <2>1, <2>2, TablesTyped, AddedIsKept
  <2>4. programs'[p] # None
    BY <2>1, NullAssumption
  <2>5. QED
    BY <2>1, <2>3, <2>4, MessageKeeps
<1>5. ASSUME NEW message \in TreasuryMessage, NEW p, IgnoredStale(message, p)
      PROVE  Kept
  <2>1. /\ p \in ProgramIds
        /\ treasuryEvents'[p] =
             Append(treasuryEvents[p], [message |-> message, applied |-> FALSE])
        /\ programs'[p] = programs[p] /\ outbox'[p] = outbox[p]
        /\ reservations'[p] = reservations[p] /\ movements'[p] = movements[p]
        /\ OthersKept(p)
    BY <1>5 DEF IgnoredStale
  <2>2. IsKept(outbox[p], outbox'[p])
    BY <2>1, TablesTyped, AddedIsKept
  <2>3. QED
    BY <2>1, <2>2, MessageKeeps
<1>6. QED
  BY <1>1, <1>2, <1>3, <1>4, <1>5, NextEffects

\* No step rewrites what was agreed or recorded.
THEOREM HistoryKept == Spec => NothingRewritten
<1>1. TypeInv /\ [Next]_vars => [Kept]_vars
  BY NextKeeps
<1>2. Kept <=> (\A p \in ProgramIds :
       /\ programs[p] # None =>
            programs'[p] # None /\ programs'[p].currency = programs[p].currency
       /\ Len(reservations[p]) <= Len(reservations'[p])
       /\ \A i \in DOMAIN reservations[p] :
            /\ SameTerms(reservations[p][i], reservations'[p][i])
            /\ reservations[p][i].repaid <= reservations'[p][i].repaid
            /\ reservations[p][i].released <= reservations'[p][i].released
       /\ IsKept(movements[p], movements'[p])
       /\ IsKept(treasuryEvents[p], treasuryEvents'[p])
       /\ IsKept(outbox[p], outbox'[p]))
  BY DEF Kept, KeptOf
<1>3. QED
  BY <1>1, <1>2, TypesInvariant, PTL DEF Spec, NothingRewritten

-----------------------------------------------------------------------------
(* Every row loads.                                                        *)

\* A reservation is in its program's currency, or its rate leads into it.
LeadsInto(row, currency) ==
  IF row.rate = None THEN row.invoiceCurrency = currency ELSE row.rate.to = currency

\* What makes the rows of one program load, beside their types and amounts.
RowsLoad(program, rows, ledger) ==
  /\ program = None => rows = <<>>
  /\ program # None => \A i \in DOMAIN rows : LeadsInto(rows[i], program.currency)
  /\ \A m \in DOMAIN ledger : ledger[m].type = "RESERVE" => ledger[m].amount > 0

LoadInv == \A p \in ProgramIds : RowsLoad(programs[p], reservations[p], movements[p])

\* A row whose amounts are what its aggregate computes passes its checks.
LEMMA AccountsAreConsistent ==
  ASSUME NEW row \in ReservationRow, RowAccounts(row), NEW currency, LeadsInto(row, currency)
  PROVE  ReservationConsistent(row, currency)
<1>1. /\ row.invoiceMinor \in Nat \ {0} /\ row.repaid \in Nat
      /\ row.reserved \in Nat \ {0} /\ row.released \in Nat
      /\ row.rate \in ExchangeRate \union {None}
  BY DEF ReservationRow
<1>2. /\ row.repaid <= row.invoiceMinor
      /\ row.reserved = ToProgramCurrency(
           [minor |-> row.invoiceMinor, currency |-> row.invoiceCurrency], row.rate)
      /\ row.released = ReleasedOnceRepaid(row, row.repaid)
      /\ row.status = IF row.repaid = row.invoiceMinor THEN "RELEASED" ELSE "ACTIVE"
  BY DEF RowAccounts
<1>3. row.released <= row.reserved
  <2>1. ReleasedOnceRepaid(row, row.repaid) <= row.reserved
    BY <1>1, <1>2, ReleaseGrows, NullAssumption
  <2>2. QED
    BY <1>2, <2>1
<1>4. row.rate = None =>
        row.reserved = row.invoiceMinor /\ row.released = row.repaid
  BY <1>1, <1>2 DEF ToProgramCurrency, ReleasedOnceRepaid
<1>5. row.repaid = row.invoiceMinor => row.released = row.reserved
  BY <1>2 DEF ReleasedOnceRepaid
<1>6. row.status = "RELEASED" <=> row.repaid = row.invoiceMinor
  BY <1>2
<1>7. row.repaid \in 0..row.invoiceMinor /\ row.released \in 0..row.reserved
  BY <1>1, <1>2, <1>3
<1>8. row.invoiceMinor > 0 /\ row.reserved > 0
  BY <1>1
<1>9. IF row.rate = None
      THEN /\ row.invoiceCurrency = currency
           /\ row.reserved = row.invoiceMinor
           /\ row.released = row.repaid
      ELSE row.rate.to = currency
  BY <1>4 DEF LeadsInto
<1>10. QED
  BY <1>5, <1>6, <1>7, <1>8, <1>9 DEF ReservationConsistent

\* Rows that load in every program are what the run checks.
LEMMA LoadImplies == TypeInv /\ LoadInv => EveryRowLoads
<1> SUFFICES ASSUME TypeInv, LoadInv, NEW p \in Opened
             PROVE  /\ programs[p].creditLimit > 0 /\ programs[p].reserved >= 0
                    /\ \A i \in DOMAIN reservations[p] :
                         ReservationConsistent(reservations[p][i], programs[p].currency)
                    /\ \A m \in DOMAIN movements[p] :
                         /\ movements[p][m].amount >= 0
                         /\ movements[p][m].type = "RESERVE" => movements[p][m].amount > 0
  BY DEF EveryRowLoads
<1>1. /\ p \in ProgramIds /\ programs[p] # None
      /\ RowsLoad(programs[p], reservations[p], movements[p])
  BY DEF Opened, LoadInv
<1>2. /\ programs[p] \in ProgramRow
      /\ reservations[p] \in Seq(ReservationRow)
      /\ movements[p] \in Seq(MovementRow)
      /\ \A i \in DOMAIN reservations[p] : RowAccounts(reservations[p][i])
  BY <1>1, TablesTyped
<1>3. programs[p].creditLimit > 0 /\ programs[p].reserved >= 0
  BY <1>2 DEF ProgramRow
<1>4. ASSUME NEW i \in DOMAIN reservations[p]
      PROVE  ReservationConsistent(reservations[p][i], programs[p].currency)
  <2>1. /\ reservations[p][i] \in ReservationRow
        /\ RowAccounts(reservations[p][i])
        /\ LeadsInto(reservations[p][i], programs[p].currency)
    BY <1>1, <1>2 DEF RowsLoad
  <2>2. QED
    BY <2>1, AccountsAreConsistent
<1>5. ASSUME NEW m \in DOMAIN movements[p]
      PROVE  /\ movements[p][m].amount >= 0
             /\ movements[p][m].type = "RESERVE" => movements[p][m].amount > 0
  <2>1. movements[p][m] \in MovementRow
    BY <1>2
  <2>2. movements[p][m].amount \in Nat
    BY <2>1 DEF MovementRow
  <2>3. QED
    BY <1>1, <2>2 DEF RowsLoad
<1>6. QED
  BY <1>3, <1>4, <1>5

\* What a step does to one program decides whether all of them still load.
LEMMA OthersStillLoad ==
  ASSUME LoadInv, NEW p \in ProgramIds, OthersKept(p),
         RowsLoad(programs'[p], reservations'[p], movements'[p])
  PROVE  LoadInv'
BY DEF LoadInv, OthersKept

\* A movement added loads when it reserves something or is a release.
LEMMA LedgerStillLoads ==
  ASSUME NEW S, NEW ledger \in Seq(S), NEW row,
         \A m \in DOMAIN ledger : ledger[m].type = "RESERVE" => ledger[m].amount > 0,
         row.type = "RESERVE" => row.amount > 0,
         NEW longer, longer = Append(ledger, row)
  PROVE  \A m \in DOMAIN longer : longer[m].type = "RESERVE" => longer[m].amount > 0
<1> SUFFICES ASSUME NEW m \in DOMAIN longer, longer[m].type = "RESERVE"
             PROVE  longer[m].amount > 0
  OBVIOUS
<1>1. longer[m] = row \/ (m \in DOMAIN ledger /\ longer[m] = ledger[m])
  OBVIOUS
<1>2. QED
  BY <1>1

\* Every command leaves rows that load.
LEMMA NextLoads == TypeInv /\ LoadInv /\ Next => LoadInv'
<1> SUFFICES ASSUME TypeInv, LoadInv, Next PROVE LoadInv'
  OBVIOUS
<1>1. ASSUME NEW request, NEW p, NEW id, NEW toHold, NEW row,
             ReservedBy(request, p, id, toHold, row)
      PROVE  LoadInv'
  <2> DEFINE movement == ReserveMovement(id, toHold, programs'[p])
  <2>1. /\ p \in ProgramIds /\ programs[p] \in ProgramRow /\ row \in ReservationRow
        /\ programs'[p] \in ProgramRow /\ programs'[p].currency = programs[p].currency
        /\ LeadsInto(row, programs[p].currency)
        /\ toHold \in Nat \ {0}
        /\ reservations'[p] = Append(reservations[p], row)
        /\ movements'[p] = Append(movements[p], movement)
        /\ OthersKept(p)
    BY <1>1 DEF ReservedBy, LeadsInto
  <2>2. movement.type = "RESERVE" => movement.amount > 0
    BY <2>1 DEF ReserveMovement
  <2> HIDE DEF movement
  <2>3. programs[p] # None /\ programs'[p] # None
    BY <2>1, NullAssumption
  <2>4. /\ reservations[p] \in Seq(ReservationRow) /\ movements[p] \in Seq(MovementRow)
    BY <2>1, TablesTyped
  <2>5. /\ \A i \in DOMAIN reservations[p] : LeadsInto(reservations[p][i], programs[p].currency)
        /\ \A m \in DOMAIN movements[p] :
             movements[p][m].type = "RESERVE" => movements[p][m].amount > 0
    BY <2>1, <2>3 DEF LoadInv, RowsLoad
  <2>6. \A i \in DOMAIN reservations'[p] : LeadsInto(reservations'[p][i], programs'[p].currency)
    BY <2>1, <2>4, <2>5
  <2>7. \A m \in DOMAIN movements'[p] :
          movements'[p][m].type = "RESERVE" => movements'[p][m].amount > 0
    BY <2>1, <2>2, <2>4, <2>5, LedgerStillLoads
  <2>8. RowsLoad(programs'[p], reservations'[p], movements'[p])
    BY <2>3, <2>6, <2>7 DEF RowsLoad
  <2>9. QED
    BY <2>1, <2>8, OthersStillLoad
<1>2. ASSUME NEW request, NEW p, NEW id, NEW before, NEW after,
             RepaidBy(request, p, id, before, after)
      PROVE  LoadInv'
  <2> DEFINE movement == ReleaseMovement(id, before, after, programs'[p], request.repayment)
  <2>1. /\ p \in ProgramIds /\ programs[p] \in ProgramRow
        /\ programs'[p] \in ProgramRow /\ programs'[p].currency = programs[p].currency
        /\ id \in DOMAIN reservations[p] /\ before = reservations[p][id]
        /\ SameTerms(before, after)
        /\ reservations'[p] = [reservations[p] EXCEPT ![id] = after]
        /\ movements'[p] = Append(movements[p], movement)
        /\ OthersKept(p)
    BY <1>2 DEF RepaidBy
  <2>2. movement.type = "RESERVE" => movement.amount > 0
    BY DEF ReleaseMovement
  <2> HIDE DEF movement
  <2>3. programs[p] # None /\ programs'[p] # None
    BY <2>1, NullAssumption
  <2>4. /\ reservations[p] \in Seq(ReservationRow) /\ movements[p] \in Seq(MovementRow)
    BY <2>1, TablesTyped
  <2>5. /\ \A i \in DOMAIN reservations[p] : LeadsInto(reservations[p][i], programs[p].currency)
        /\ \A m \in DOMAIN movements[p] :
             movements[p][m].type = "RESERVE" => movements[p][m].amount > 0
    BY <2>1, <2>3 DEF LoadInv, RowsLoad
  <2>6. LeadsInto(after, programs[p].currency)
    BY <2>1, <2>5 DEF LeadsInto, SameTerms
  <2>7. \A i \in DOMAIN reservations'[p] : LeadsInto(reservations'[p][i], programs'[p].currency)
    BY <2>1, <2>4, <2>5, <2>6
  <2>8. \A m \in DOMAIN movements'[p] :
          movements'[p][m].type = "RESERVE" => movements'[p][m].amount > 0
    BY <2>1, <2>2, <2>4, <2>5, LedgerStillLoads
  <2>9. RowsLoad(programs'[p], reservations'[p], movements'[p])
    BY <2>3, <2>7, <2>8 DEF RowsLoad
  <2>10. QED
    BY <2>1, <2>9, OthersStillLoad
<1>3. ASSUME NEW message \in TreasuryMessage, NEW p, NEW after, OpenedWith(message, p, after)
      PROVE  LoadInv'
  <2>1. /\ p \in ProgramIds /\ programs[p] = None /\ programs'[p] \in ProgramRow
        /\ reservations'[p] = reservations[p] /\ movements'[p] = movements[p]
        /\ OthersKept(p)
    BY <1>3 DEF OpenedWith
  <2>2. programs'[p] # None
    BY <2>1, NullAssumption
  <2>3. RowsLoad(programs'[p], reservations'[p], movements'[p])
    BY <2>1, <2>2 DEF LoadInv, RowsLoad
  <2>4. QED
    BY <2>1, <2>3, OthersStillLoad
<1>4. ASSUME NEW message \in TreasuryMessage, NEW p, NEW before, NEW after,
             UpdatedWith(message, p, before, after)
      PROVE  LoadInv'
  <2>1. /\ p \in ProgramIds /\ before = programs[p] /\ before \in ProgramRow
        /\ programs'[p] \in ProgramRow /\ programs'[p].currency = before.currency
        /\ reservations'[p] = reservations[p] /\ movements'[p] = movements[p]
        /\ OthersKept(p)
    BY <1>4 DEF UpdatedWith
  <2>2. programs[p] # None /\ programs'[p] # None
    BY <2>1, NullAssumption
  <2>3. RowsLoad(programs'[p], reservations'[p], movements'[p])
    BY <2>1, <2>2 DEF LoadInv, RowsLoad
  <2>4. QED
    BY <2>1, <2>3, OthersStillLoad
<1>5. ASSUME NEW message \in TreasuryMessage, NEW p, IgnoredStale(message, p)
      PROVE  LoadInv'
  <2>1. /\ p \in ProgramIds /\ programs'[p] = programs[p]
        /\ reservations'[p] = reservations[p] /\ movements'[p] = movements[p]
        /\ OthersKept(p)
    BY <1>5 DEF IgnoredStale
  <2>2. RowsLoad(programs'[p], reservations'[p], movements'[p])
    BY <2>1 DEF LoadInv
  <2>3. QED
    BY <2>1, <2>2, OthersStillLoad
<1>6. QED
  BY <1>1, <1>2, <1>3, <1>4, <1>5, NextEffects

\* The rows load at every moment.
LEMMA LoadInvariant == Spec => [](TypeInv /\ LoadInv)
<1>1. Init => LoadInv
  BY DEF Init, LoadInv, RowsLoad
<1>2. TypeInv /\ LoadInv /\ [Next]_vars => LoadInv'
  <2>1. UNCHANGED vars /\ LoadInv => LoadInv'
    BY DEF vars, LoadInv
  <2>2. QED
    BY <2>1, NextLoads
<1>3. QED
  BY <1>1, <1>2, TypesInvariant, PTL DEF Spec

\* Every row a handler writes passes the checks that the next command makes of it,
\* whatever the rates, amounts and instalments.
THEOREM RowsAlwaysLoad == Spec => []EveryRowLoads
<1>1. TypeInv /\ LoadInv => EveryRowLoads
  BY LoadImplies
<1>2. QED
  BY <1>1, LoadInvariant, PTL

-----------------------------------------------------------------------------
(* Over the limit.                                                         *)

\* The event of a limit cut below what was reserved.
CutsBelow(event) ==
  event.type = "CreditLimitChanged" /\ event.reserved > event.creditLimit

\* A limit was cut below what was reserved, and nothing was reserved since.
CutSince(events) ==
  \E i \in DOMAIN events :
    /\ CutsBelow(events[i])
    /\ \A j \in DOMAIN events : j > i => events[j].type # "CapacityReserved"

CutExplains(program, events) ==
  program # None /\ program.reserved > program.creditLimit => CutSince(events)

LimitInv == \A p \in ProgramIds : CutExplains(programs[p], outbox[p])

\* A cut explains each program over its limit, which is what the run checks.
LEMMA LimitImplies == LimitInv <=> OverLimitOnlyByCut
BY DEF LimitInv, CutExplains, CutSince, CutsBelow, OverLimitOnlyByCut, Opened

\* Events other than of reservations do not undo a cut.
LEMMA CutStays ==
  ASSUME NEW events \in Seq(OutboxEvent), NEW more \in Seq(OutboxEvent), CutSince(events),
         \A j \in DOMAIN more : more[j].type # "CapacityReserved"
  PROVE  CutSince(events \o more)
<1> DEFINE longer == events \o more
<1>1. PICK i \in DOMAIN events :
        /\ CutsBelow(events[i])
        /\ \A j \in DOMAIN events : j > i => events[j].type # "CapacityReserved"
  BY DEF CutSince
<1>2. /\ Len(events) \in Nat /\ DOMAIN events = 1..Len(events)
      /\ Len(more) \in Nat /\ DOMAIN more = 1..Len(more)
      /\ DOMAIN longer = 1..(Len(events) + Len(more))
  OBVIOUS
<1>3. \A j \in DOMAIN longer :
        longer[j] = IF j <= Len(events) THEN events[j] ELSE more[j - Len(events)]
  OBVIOUS
<1> HIDE DEF longer
<1>4. i \in DOMAIN longer /\ CutsBelow(longer[i])
  BY <1>1, <1>2, <1>3
<1>5. ASSUME NEW j \in DOMAIN longer, j > i
      PROVE  longer[j].type # "CapacityReserved"
  <2>1. CASE j <= Len(events)
    BY <1>1, <1>2, <1>3, <1>5, <2>1
  <2>2. CASE j > Len(events)
    <3>1. j - Len(events) \in DOMAIN more /\ longer[j] = more[j - Len(events)]
      BY <1>2, <1>3, <2>2
    <3>2. QED
      BY <3>1
  <2>3. QED
    BY <1>2, <2>1, <2>2
<1>6. QED
  BY <1>4, <1>5 DEF CutSince, longer

\* The events of an update: none is of a reservation, and a changed limit comes
\* first with what was reserved.
LEMMA UpdateEventsAre ==
  ASSUME NEW before \in ProgramRow, NEW after \in ProgramRow
  PROVE  LET events == TreasuryUpdateEvents(before, after)
         IN  /\ \A j \in DOMAIN events : events[j].type # "CapacityReserved"
             /\ after.creditLimit # before.creditLimit =>
                  /\ 1 \in DOMAIN events
                  /\ events[1] = [type |-> "CreditLimitChanged",
                                  creditLimit |-> after.creditLimit,
                                  reserved |-> after.reserved]
<1> DEFINE limitChanged == [type |-> "CreditLimitChanged",
                            creditLimit |-> after.creditLimit, reserved |-> after.reserved]
           statusChanged == [type |-> "ProgramStatusChanged", status |-> after.status]
           limits == IF after.creditLimit = before.creditLimit THEN <<>> ELSE <<limitChanged>>
           statuses == IF after.status = before.status THEN <<>> ELSE <<statusChanged>>
           events == TreasuryUpdateEvents(before, after)
<1>1. events = limits \o statuses
  BY DEF TreasuryUpdateEvents
<1>2. limitChanged.type # "CapacityReserved" /\ statusChanged.type # "CapacityReserved"
  OBVIOUS
<1> HIDE DEF limitChanged, statusChanged
<1>3. \A j \in DOMAIN events : events[j] = limitChanged \/ events[j] = statusChanged
  BY <1>1
<1>4. after.creditLimit # before.creditLimit => 1 \in DOMAIN events /\ events[1] = limitChanged
  BY <1>1
<1>5. QED
  BY <1>2, <1>3, <1>4 DEF limitChanged

\* What a step does to one program decides for all of them.
LEMMA OthersStillExplained ==
  ASSUME LimitInv, NEW p \in ProgramIds, OthersKept(p),
         CutExplains(programs'[p], outbox'[p])
  PROVE  LimitInv'
BY DEF LimitInv, OthersKept

\* Every command leaves a cut that explains each program over its limit.
LEMMA NextExplained == TypeInv /\ TypeInv' /\ LimitInv /\ Next => LimitInv'
<1> SUFFICES ASSUME TypeInv, TypeInv', LimitInv, Next PROVE LimitInv'
  OBVIOUS
<1>1. ASSUME NEW request, NEW p, NEW id, NEW toHold, NEW row,
             ReservedBy(request, p, id, toHold, row)
      PROVE  LimitInv'
  <2>1. /\ p \in ProgramIds /\ programs[p] \in ProgramRow
        /\ toHold \in Nat \ {0} /\ toHold <= Available(programs[p])
        /\ programs'[p].reserved = programs[p].reserved + toHold
        /\ programs'[p].creditLimit = programs[p].creditLimit
        /\ OthersKept(p)
    BY <1>1 DEF ReservedBy
  <2>2. programs[p].creditLimit \in Nat /\ programs[p].reserved \in Nat
    BY <2>1 DEF ProgramRow
  <2>3. ~ (programs'[p].reserved > programs'[p].creditLimit)
    BY <2>1, <2>2 DEF Available
  <2>4. CutExplains(programs'[p], outbox'[p])
    BY <2>3 DEF CutExplains
  <2>5. QED
    BY <2>1, <2>4, OthersStillExplained
<1>2. ASSUME NEW request, NEW p, NEW id, NEW before, NEW after,
             RepaidBy(request, p, id, before, after)
      PROVE  LimitInv'
  <2> DEFINE event == CapacityReleased(id, after, programs'[p])
             freed == after.released - before.released
  <2>1. /\ p \in ProgramIds /\ programs[p] \in ProgramRow
        /\ freed \in Nat /\ freed <= programs[p].reserved
        /\ programs'[p].reserved = programs[p].reserved - freed
        /\ programs'[p].creditLimit = programs[p].creditLimit
        /\ outbox'[p] = Append(outbox[p], event)
        /\ OthersKept(p)
    BY <1>2 DEF RepaidBy
  <2> HIDE DEF freed
  <2>2. event.type # "CapacityReserved"
    BY DEF CapacityReleased
  <2> HIDE DEF event
  <2>3. /\ programs[p].creditLimit \in Nat /\ programs[p].reserved \in Nat
        /\ programs[p] # None
    BY <2>1, NullAssumption DEF ProgramRow
  <2>4. outbox[p] \in Seq(OutboxEvent) /\ outbox'[p] \in Seq(OutboxEvent)
    BY <2>1 DEF TypeInv, TypeOK
  <2>5. event \in OutboxEvent
    <3>1. /\ Len(outbox'[p]) = Len(outbox[p]) + 1 /\ Len(outbox[p]) \in Nat
          /\ outbox'[p][Len(outbox[p]) + 1] = event
      BY <2>1, <2>4
    <3>2. QED
      BY <2>4, <3>1
  <2>6. ASSUME programs'[p].reserved > programs'[p].creditLimit
        PROVE  CutSince(outbox'[p])
    <3>1. programs[p].reserved > programs[p].creditLimit
      BY <2>1, <2>3, <2>6
    <3>2. CutSince(outbox[p])
      BY <2>1, <2>3, <3>1 DEF LimitInv, CutExplains
    <3>3. /\ <<event>> \in Seq(OutboxEvent)
          /\ \A j \in DOMAIN <<event>> : <<event>>[j].type # "CapacityReserved"
      BY <2>2, <2>5
    <3>4. outbox'[p] = outbox[p] \o <<event>>
      BY <2>1, <2>4, <2>5
    <3>5. QED
      BY <2>4, <3>2, <3>3, <3>4, CutStays
  <2>7. QED
    BY <2>1, <2>6, OthersStillExplained DEF CutExplains
<1>3. ASSUME NEW message \in TreasuryMessage, NEW p, NEW after, OpenedWith(message, p, after)
      PROVE  LimitInv'
  <2>1. /\ p \in ProgramIds /\ programs'[p] = after /\ after \in ProgramRow
        /\ after.reserved = 0 /\ OthersKept(p)
    BY <1>3 DEF OpenedWith
  <2>2. ~ (after.reserved > after.creditLimit)
    BY <2>1 DEF ProgramRow
  <2>3. QED
    BY <2>1, <2>2, OthersStillExplained DEF CutExplains
<1>4. ASSUME NEW message \in TreasuryMessage, NEW p, NEW before, NEW after,
             UpdatedWith(message, p, before, after)
      PROVE  LimitInv'
  <2> DEFINE events == TreasuryUpdateEvents(before, after)
  <2>1. /\ p \in ProgramIds /\ before = programs[p] /\ before \in ProgramRow
        /\ after \in ProgramRow /\ after.reserved = before.reserved
        /\ programs'[p].reserved = before.reserved
        /\ programs'[p].creditLimit = after.creditLimit
        /\ outbox'[p] = outbox[p] \o events
        /\ OthersKept(p)
    BY <1>4 DEF UpdatedWith
  <2>2. /\ outbox[p] \in Seq(OutboxEvent) /\ events \in Seq(OutboxEvent)
        /\ programs[p] # None
    BY <2>1, UpdateEventsTypes, NullAssumption DEF TypeInv, TypeOK
  <2>3. /\ \A j \in DOMAIN events : events[j].type # "CapacityReserved"
        /\ after.creditLimit # before.creditLimit =>
             /\ 1 \in DOMAIN events
             /\ events[1] = [type |-> "CreditLimitChanged",
                             creditLimit |-> after.creditLimit,
                             reserved |-> after.reserved]
    BY <2>1, UpdateEventsAre
  <2> HIDE DEF events
  <2>4. ASSUME programs'[p].reserved > programs'[p].creditLimit
        PROVE  CutSince(outbox'[p])
    <3>1. CASE after.creditLimit = before.creditLimit
      <4>1. CutSince(outbox[p])
        BY <2>1, <2>2, <2>4, <3>1 DEF LimitInv, CutExplains
      <4>2. QED
        BY <2>1, <2>2, <2>3, <4>1, CutStays
    <3>2. CASE after.creditLimit # before.creditLimit
      <4>1. 1 \in DOMAIN events /\ CutsBelow(events[1])
        BY <2>1, <2>3, <2>4, <3>2 DEF CutsBelow
      <4>2. CutSince(events)
        BY <2>3, <4>1 DEF CutSince
      <4> DEFINE n == Len(outbox[p])
      <4>3. /\ n \in Nat /\ n + 1 \in DOMAIN outbox'[p]
            /\ outbox'[p][n + 1] = events[1]
        BY <2>1, <2>2, <4>1
      <4>4. \A j \in DOMAIN outbox'[p] : j > n + 1 =>
              j - n \in DOMAIN events /\ outbox'[p][j] = events[j - n]
        BY <2>1, <2>2
      <4> HIDE DEF n
      <4>5. QED
        BY <2>3, <4>1, <4>3, <4>4 DEF CutSince
    <3>3. QED
      BY <3>1, <3>2
  <2>5. QED
    BY <2>1, <2>4, OthersStillExplained DEF CutExplains
<1>5. ASSUME NEW message \in TreasuryMessage, NEW p, IgnoredStale(message, p)
      PROVE  LimitInv'
  <2>1. /\ p \in ProgramIds /\ programs'[p] = programs[p] /\ outbox'[p] = outbox[p]
        /\ OthersKept(p)
    BY <1>5 DEF IgnoredStale
  <2>2. CutExplains(programs'[p], outbox'[p])
    BY <2>1 DEF LimitInv
  <2>3. QED
    BY <2>1, <2>2, OthersStillExplained
<1>6. QED
  BY <1>1, <1>2, <1>3, <1>4, <1>5, NextEffects

\* A program is over its limit only since treasury cut it, and has reserved nothing
\* since.
THEOREM OnlyCutsExceedLimits == Spec => []OverLimitOnlyByCut
<1>1. Init => LimitInv
  BY DEF Init, LimitInv, CutExplains
<1>2. TypeInv /\ TypeInv' /\ LimitInv /\ [Next]_vars => LimitInv'
  <2>1. UNCHANGED vars /\ LimitInv => LimitInv'
    BY DEF vars, LimitInv
  <2>2. QED
    BY <2>1, NextExplained
<1>3. LimitInv => OverLimitOnlyByCut
  BY LimitImplies
<1>4. QED
  BY <1>1, <1>2, <1>3, TypesInvariant, PTL DEF Spec

-----------------------------------------------------------------------------
(* The newest of treasury's messages decide.                               *)

AppliedIn(log) == {i \in DOMAIN log : log[i].applied}

NamingLimit(log) == {i \in AppliedIn(log) : log[i].message.limit # None}

NamingStatus(log) == {i \in AppliedIn(log) : log[i].message.status # None}

LastOf(i, S) == i \in S /\ \A j \in S : j <= i

AppliedInOrder(log) ==
  \A i, j \in AppliedIn(log) : i < j => log[i].message.sequence < log[j].message.sequence

IgnoredForNewer(log) ==
  \A i \in DOMAIN log \ AppliedIn(log) :
    \E j \in AppliedIn(log) : j < i /\ log[i].message.sequence <= log[j].message.sequence

\* The program's treasury state is that of the last message applied, of the last
\* that named a limit and of the last that named a status.
TreasuryDecides(program, log) ==
  /\ program = None => log = <<>>
  /\ program # None =>
       /\ \E i : LastOf(i, AppliedIn(log)) /\ program.treasurySequence = log[i].message.sequence
       /\ \E i : LastOf(i, NamingLimit(log)) /\ program.creditLimit = log[i].message.limit.minor
       /\ \/ NamingStatus(log) = {} /\ program.status = "ACTIVE"
          \/ \E i : LastOf(i, NamingStatus(log)) /\ program.status = log[i].message.status
  /\ AppliedInOrder(log) /\ IgnoredForNewer(log)

DecidedInv == \A p \in ProgramIds : TreasuryDecides(programs[p], treasuryEvents[p])

\* What a message recorded adds to the log.
Recorded(log, n, message, applied, longer) ==
  /\ n \notin DOMAIN log /\ DOMAIN longer = DOMAIN log \union {n}
  /\ longer[n].message = message
  /\ \A i \in DOMAIN log : longer[i] = log[i]
  /\ \A i \in DOMAIN log : i \in Int /\ i < n
  /\ n \in Int
  /\ AppliedIn(longer) = AppliedIn(log) \union (IF applied THEN {n} ELSE {})
  /\ AppliedIn(log) \subseteq DOMAIN log

\* Recording a message adds its place to the messages applied, or to those
\* that name a limit or a status, and moves nothing.
LEMMA LogGrows ==
  ASSUME NEW S, NEW log \in Seq(S), NEW message, NEW applied \in BOOLEAN
  PROVE  Recorded(log, Len(log) + 1, message, applied,
                  Append(log, [message |-> message, applied |-> applied]))
<1> DEFINE n == Len(log) + 1
           row == [message |-> message, applied |-> applied]
           longer == Append(log, row)
<1>1. row.message = message /\ row.applied = applied /\ longer = Append(log, row)
  OBVIOUS
<1> HIDE DEF row
<1>2. /\ n \notin DOMAIN log /\ DOMAIN longer = DOMAIN log \union {n}
      /\ longer[n] = row
      /\ \A i \in DOMAIN log : longer[i] = log[i] /\ i \in Int /\ i < n
      /\ n \in Int
  BY <1>1
<1> HIDE DEF n, longer
<1>3. AppliedIn(longer) = AppliedIn(log) \union (IF applied THEN {n} ELSE {})
  <2>1. ASSUME NEW i PROVE i \in AppliedIn(longer) <=>
                            i \in AppliedIn(log) \union (IF applied THEN {n} ELSE {})
    <3>1. CASE i = n
      BY <1>1, <1>2, <3>1 DEF AppliedIn
    <3>2. CASE i # n
      BY <1>1, <1>2, <3>2 DEF AppliedIn
    <3>3. QED
      BY <3>1, <3>2
  <2>2. QED
    BY <2>1
<1>4. AppliedIn(log) \subseteq DOMAIN log
  BY DEF AppliedIn
<1>5. QED
  BY <1>1, <1>2, <1>3, <1>4 DEF Recorded, n, longer, row

\* A message added after the others is the last of those it is among.
LEMMA LastAdded ==
  ASSUME NEW n \in Int, NEW S, NEW T, T = S \union {n}, \A i \in S : i \in Int /\ i < n
  PROVE  LastOf(n, T)
<1>1. \A j \in T : j <= n
  OBVIOUS
<1>2. QED
  BY <1>1 DEF LastOf

\* A message newer than any applied decides what it names and leaves the rest.
DecidedBy(log, n, message, longer) ==
  /\ AppliedInOrder(longer) /\ IgnoredForNewer(longer)
  /\ LastOf(n, AppliedIn(longer)) /\ longer[n].message = message
  /\ IF message.limit # None THEN LastOf(n, NamingLimit(longer))
     ELSE \A i : LastOf(i, NamingLimit(log)) => LastOf(i, NamingLimit(longer))
  /\ IF message.status # None THEN LastOf(n, NamingStatus(longer))
     ELSE /\ \A i : LastOf(i, NamingStatus(log)) => LastOf(i, NamingStatus(longer))
          /\ NamingStatus(log) = {} => NamingStatus(longer) = {}
  /\ \A i \in DOMAIN log : longer[i] = log[i]

\* A message applied is the last one that was, and decides what it names.
LEMMA AppliedDecides ==
  ASSUME NEW S, NEW log \in Seq(S), AppliedInOrder(log), IgnoredForNewer(log),
         NEW message,
         \A i \in AppliedIn(log) : log[i].message.sequence < message.sequence
  PROVE  DecidedBy(log, Len(log) + 1, message,
                   Append(log, [message |-> message, applied |-> TRUE]))
<1> DEFINE n == Len(log) + 1
           longer == Append(log, [message |-> message, applied |-> TRUE])
<1>1. /\ n \notin DOMAIN log /\ DOMAIN longer = DOMAIN log \union {n}
      /\ longer[n].message = message
      /\ \A i \in DOMAIN log : longer[i] = log[i]
      /\ \A i \in DOMAIN log : i \in Int /\ i < n
      /\ n \in Int
      /\ AppliedIn(longer) = AppliedIn(log) \union {n}
      /\ AppliedIn(log) \subseteq DOMAIN log
  <2>1. Recorded(log, n, message, TRUE, longer)
    BY LogGrows
  <2>2. QED
    BY <2>1 DEF Recorded
<1> HIDE DEF n, longer
<1>2. AppliedInOrder(longer)
  <2> SUFFICES ASSUME NEW i \in AppliedIn(longer), NEW j \in AppliedIn(longer), i < j
               PROVE  longer[i].message.sequence < longer[j].message.sequence
    BY DEF AppliedInOrder
  <2>1. CASE i \in AppliedIn(log) /\ j \in AppliedIn(log)
    BY <1>1, <2>1 DEF AppliedInOrder
  <2>2. CASE i \in AppliedIn(log) /\ j = n
    BY <1>1, <2>2
  <2>3. CASE i = n
    <3>1. CASE j = n
      BY <1>1, <2>3, <3>1
    <3>2. CASE j \in AppliedIn(log)
      <4>1. j \in Int /\ j < n
        BY <1>1, <3>2
      <4>2. QED
        BY <1>1, <2>3, <4>1
    <3>3. QED
      BY <1>1, <3>1, <3>2
  <2>4. QED
    BY <1>1, <2>1, <2>2, <2>3
<1>3. IgnoredForNewer(longer)
  BY <1>1 DEF IgnoredForNewer
<1>4. LastOf(n, AppliedIn(longer))
  BY <1>1, LastAdded
<1>5. /\ NamingLimit(longer) = NamingLimit(log) \union (IF message.limit # None THEN {n} ELSE {})
      /\ NamingLimit(log) \subseteq DOMAIN log
  BY <1>1 DEF NamingLimit
<1>6. /\ NamingStatus(longer) = NamingStatus(log) \union (IF message.status # None THEN {n} ELSE {})
      /\ NamingStatus(log) \subseteq DOMAIN log
  BY <1>1 DEF NamingStatus
<1>7. IF message.limit # None THEN LastOf(n, NamingLimit(longer))
      ELSE \A i : LastOf(i, NamingLimit(log)) => LastOf(i, NamingLimit(longer))
  <2>1. CASE message.limit # None
    BY <1>1, <1>5, <2>1, LastAdded
  <2>2. CASE message.limit = None
    BY <1>5, <2>2
  <2>3. QED
    BY <2>1, <2>2
<1>8. IF message.status # None THEN LastOf(n, NamingStatus(longer))
      ELSE /\ \A i : LastOf(i, NamingStatus(log)) => LastOf(i, NamingStatus(longer))
           /\ NamingStatus(log) = {} => NamingStatus(longer) = {}
  <2>1. CASE message.status # None
    BY <1>1, <1>6, <2>1, LastAdded
  <2>2. CASE message.status = None
    BY <1>6, <2>2
  <2>3. QED
    BY <2>1, <2>2
<1>9. QED
  BY <1>1, <1>2, <1>3, <1>4, <1>7, <1>8 DEF DecidedBy, n, longer

\* A message that is ignored changes nothing that is decided.
LEMMA IgnoredDecidesNothing ==
  ASSUME NEW S, NEW log \in Seq(S), NEW program, program # None,
         TreasuryDecides(program, log),
         NEW message, message.sequence <= program.treasurySequence,
         NEW longer, longer = Append(log, [message |-> message, applied |-> FALSE])
  PROVE  TreasuryDecides(program, longer)
<1> DEFINE n == Len(log) + 1
<1>1. /\ n \notin DOMAIN log /\ DOMAIN longer = DOMAIN log \union {n}
      /\ longer[n].message = message
      /\ \A i \in DOMAIN log : longer[i] = log[i]
      /\ \A i \in DOMAIN log : i \in Int /\ i < n
      /\ n \in Int
      /\ AppliedIn(longer) = AppliedIn(log)
      /\ AppliedIn(log) \subseteq DOMAIN log
  <2>1. Recorded(log, n, message, FALSE, longer)
    BY LogGrows
  <2>2. QED
    BY <2>1 DEF Recorded
<1> HIDE DEF n
<1>2. NamingLimit(longer) = NamingLimit(log) /\ NamingStatus(longer) = NamingStatus(log)
  BY <1>1 DEF NamingLimit, NamingStatus
<1>3. NamingLimit(log) \subseteq DOMAIN log /\ NamingStatus(log) \subseteq DOMAIN log
  BY <1>1 DEF NamingLimit, NamingStatus
<1>4. AppliedInOrder(longer)
  BY <1>1 DEF TreasuryDecides, AppliedInOrder
<1>5. PICK last : /\ LastOf(last, AppliedIn(log))
                  /\ program.treasurySequence = log[last].message.sequence
  BY DEF TreasuryDecides
<1>6. IgnoredForNewer(longer)
  <2> SUFFICES ASSUME NEW i \in DOMAIN longer \ AppliedIn(longer)
               PROVE  \E j \in AppliedIn(longer) :
                        j < i /\ longer[i].message.sequence <= longer[j].message.sequence
    BY DEF IgnoredForNewer
  <2>1. CASE i = n
    <3>1. last \in AppliedIn(longer) /\ last < n /\ longer[last] = log[last]
      BY <1>1, <1>5 DEF LastOf
    <3>2. QED
      BY <1>1, <1>5, <2>1, <3>1
  <2>2. CASE i \in DOMAIN log
    BY <1>1, <2>2 DEF TreasuryDecides, IgnoredForNewer
  <2>3. QED
    BY <1>1, <2>1, <2>2
<1>7. /\ \E i : /\ LastOf(i, AppliedIn(longer))
                /\ program.treasurySequence = longer[i].message.sequence
      /\ \E i : /\ LastOf(i, NamingLimit(longer))
                /\ program.creditLimit = longer[i].message.limit.minor
      /\ \/ NamingStatus(longer) = {} /\ program.status = "ACTIVE"
         \/ \E i : LastOf(i, NamingStatus(longer)) /\ program.status = longer[i].message.status
  <2>1. \A i : /\ LastOf(i, AppliedIn(log)) => longer[i] = log[i]
               /\ LastOf(i, NamingLimit(log)) => longer[i] = log[i]
               /\ LastOf(i, NamingStatus(log)) => longer[i] = log[i]
    BY <1>1, <1>3 DEF LastOf
  <2>2. QED
    BY <1>1, <1>2, <2>1 DEF TreasuryDecides
<1>8. QED
  BY <1>4, <1>6, <1>7 DEF TreasuryDecides

\* The messages applied are no newer than the state that is decided.
LEMMA DecidedIsNewest ==
  ASSUME NEW log \in Seq(TreasuryRow), NEW program, program # None,
         TreasuryDecides(program, log)
  PROVE  \A i \in AppliedIn(log) : log[i].message.sequence <= program.treasurySequence
<1>1. PICK last : /\ LastOf(last, AppliedIn(log))
                  /\ program.treasurySequence = log[last].message.sequence
  BY DEF TreasuryDecides
<1> SUFFICES ASSUME NEW i \in AppliedIn(log)
             PROVE  log[i].message.sequence <= program.treasurySequence
  OBVIOUS
<1>2. /\ i \in DOMAIN log /\ last \in DOMAIN log
      /\ last \in AppliedIn(log) /\ i <= last
  BY <1>1 DEF AppliedIn, LastOf
<1>3. /\ i \in Int /\ last \in Int
      /\ log[i] \in TreasuryRow /\ log[last] \in TreasuryRow
  BY <1>2
<1>4. log[i].message.sequence \in Nat /\ log[last].message.sequence \in Nat
  BY <1>3, MessageTypes DEF TreasuryRow
<1>5. i # last => log[i].message.sequence < log[last].message.sequence
  BY <1>2, <1>3 DEF TreasuryDecides, AppliedInOrder
<1>6. QED
  BY <1>1, <1>4, <1>5

\* What a step does to one program decides for all of them.
LEMMA OthersStillDecided ==
  ASSUME DecidedInv, NEW p \in ProgramIds, OthersKept(p),
         TreasuryDecides(programs'[p], treasuryEvents'[p])
  PROVE  DecidedInv'
BY DEF DecidedInv, OthersKept

\* The step that opens a program, or updates it.
LEMMA OpenedIsDecided ==
  ASSUME TypeInv, DecidedInv, NEW message \in TreasuryMessage, NEW p, NEW after,
         OpenedWith(message, p, after)
  PROVE  DecidedInv'
<1> DEFINE log == treasuryEvents[p]
           longer == treasuryEvents'[p]
           n == Len(log) + 1
<1>1. /\ p \in ProgramIds /\ programs[p] = None /\ message.limit # None
      /\ programs'[p] = after /\ after \in ProgramRow
      /\ after.creditLimit = message.limit.minor
      /\ after.status = (IF message.status = None THEN "ACTIVE" ELSE message.status)
      /\ after.treasurySequence = message.sequence
      /\ longer = Append(log, [message |-> message, applied |-> TRUE])
      /\ OthersKept(p)
  BY DEF OpenedWith
<1>2. log = <<>> /\ log \in Seq(TreasuryRow)
  BY <1>1, TablesTyped DEF DecidedInv, TreasuryDecides
<1>3. after # None
  BY <1>1, NullAssumption
<1>4. AppliedIn(log) = {} /\ NamingStatus(log) = {} /\ DOMAIN log = {}
  BY <1>2 DEF AppliedIn, NamingStatus
<1>5. AppliedInOrder(log) /\ IgnoredForNewer(log)
  BY <1>4 DEF AppliedInOrder, IgnoredForNewer
<1> HIDE DEF longer, n, log
<1>6. /\ AppliedInOrder(longer) /\ IgnoredForNewer(longer)
      /\ LastOf(n, AppliedIn(longer)) /\ longer[n].message = message
      /\ IF message.limit # None THEN LastOf(n, NamingLimit(longer))
         ELSE \A i : LastOf(i, NamingLimit(log)) => LastOf(i, NamingLimit(longer))
      /\ IF message.status # None THEN LastOf(n, NamingStatus(longer))
         ELSE /\ \A i : LastOf(i, NamingStatus(log)) => LastOf(i, NamingStatus(longer))
              /\ NamingStatus(log) = {} => NamingStatus(longer) = {}
  <2>1. DecidedBy(log, n, message, longer)
    BY <1>1, <1>2, <1>4, <1>5, AppliedDecides DEF n
  <2>2. QED
    BY <2>1 DEF DecidedBy
<1>7. TreasuryDecides(after, longer)
  BY <1>1, <1>3, <1>4, <1>6 DEF TreasuryDecides
<1>8. QED
  BY <1>1, <1>7, OthersStillDecided DEF longer

\* An update leaves the program as its last messages have it.
LEMMA UpdatedIsDecided ==
  ASSUME TypeInv, DecidedInv, NEW message \in TreasuryMessage, NEW p, NEW before, NEW after,
         UpdatedWith(message, p, before, after)
  PROVE  DecidedInv'
<1> DEFINE log == treasuryEvents[p]
           longer == treasuryEvents'[p]
           program == programs'[p]
           n == Len(log) + 1
<1>1. /\ p \in ProgramIds /\ before = programs[p] /\ before \in ProgramRow
      /\ program \in ProgramRow
      /\ message.sequence > before.treasurySequence
      /\ program.creditLimit =
           (IF message.limit = None THEN before.creditLimit ELSE message.limit.minor)
      /\ program.status = (IF message.status = None THEN before.status ELSE message.status)
      /\ program.treasurySequence = message.sequence
      /\ longer = Append(log, [message |-> message, applied |-> TRUE])
      /\ OthersKept(p)
  BY DEF UpdatedWith
<1>2. log \in Seq(TreasuryRow) /\ TreasuryDecides(before, log)
  BY <1>1, TablesTyped DEF DecidedInv
<1>3. before # None /\ program # None
  BY <1>1, NullAssumption
<1>4. \A i \in AppliedIn(log) : log[i].message.sequence < message.sequence
  <2> SUFFICES ASSUME NEW i \in AppliedIn(log)
               PROVE  log[i].message.sequence < message.sequence
    OBVIOUS
  <2>1. log[i].message.sequence <= before.treasurySequence
    BY <1>2, <1>3, DecidedIsNewest
  <2>2. i \in DOMAIN log /\ log[i] \in TreasuryRow
    BY <1>2 DEF AppliedIn
  <2>3. log[i].message.sequence \in Nat /\ message.sequence \in Nat
    BY <2>2, MessageTypes DEF TreasuryRow
  <2>4. before.treasurySequence \in Nat
    BY <1>1 DEF ProgramRow
  <2>5. QED
    BY <1>1, <2>1, <2>3, <2>4
<1>5. AppliedInOrder(log) /\ IgnoredForNewer(log)
  BY <1>2 DEF TreasuryDecides
<1> HIDE DEF longer, n, log, program
<1>6. /\ AppliedInOrder(longer) /\ IgnoredForNewer(longer)
      /\ LastOf(n, AppliedIn(longer)) /\ longer[n].message = message
      /\ IF message.limit # None THEN LastOf(n, NamingLimit(longer))
         ELSE \A i : LastOf(i, NamingLimit(log)) => LastOf(i, NamingLimit(longer))
      /\ IF message.status # None THEN LastOf(n, NamingStatus(longer))
         ELSE /\ \A i : LastOf(i, NamingStatus(log)) => LastOf(i, NamingStatus(longer))
              /\ NamingStatus(log) = {} => NamingStatus(longer) = {}
      /\ \A i \in DOMAIN log : longer[i] = log[i]
  <2>1. DecidedBy(log, n, message, longer)
    BY <1>1, <1>2, <1>4, <1>5, AppliedDecides DEF n
  <2>2. QED
    BY <2>1 DEF DecidedBy
<1>7. \A i : /\ LastOf(i, NamingLimit(log)) => i \in DOMAIN log
             /\ LastOf(i, NamingStatus(log)) => i \in DOMAIN log
  BY DEF LastOf, NamingLimit, NamingStatus, AppliedIn
<1>8. \E i : LastOf(i, NamingLimit(longer)) /\ program.creditLimit = longer[i].message.limit.minor
  <2>1. CASE message.limit # None
    BY <1>1, <1>6, <2>1
  <2>2. CASE message.limit = None
    <3>1. PICK i : LastOf(i, NamingLimit(log)) /\ before.creditLimit = log[i].message.limit.minor
      BY <1>2, <1>3 DEF TreasuryDecides
    <3>2. QED
      BY <1>1, <1>6, <1>7, <2>2, <3>1
  <2>3. QED
    BY <2>1, <2>2
<1>9. \/ NamingStatus(longer) = {} /\ program.status = "ACTIVE"
      \/ \E i : LastOf(i, NamingStatus(longer)) /\ program.status = longer[i].message.status
  <2>1. CASE message.status # None
    BY <1>1, <1>6, <2>1
  <2>2. CASE message.status = None
    <3>1. \/ NamingStatus(log) = {} /\ before.status = "ACTIVE"
          \/ \E i : LastOf(i, NamingStatus(log)) /\ before.status = log[i].message.status
      BY <1>2, <1>3 DEF TreasuryDecides
    <3>2. CASE NamingStatus(log) = {} /\ before.status = "ACTIVE"
      BY <1>1, <1>6, <2>2, <3>2
    <3>3. CASE \E i : LastOf(i, NamingStatus(log)) /\ before.status = log[i].message.status
      <4>1. PICK i : LastOf(i, NamingStatus(log)) /\ before.status = log[i].message.status
        BY <3>3
      <4>2. QED
        BY <1>1, <1>6, <1>7, <2>2, <4>1
    <3>4. QED
      BY <3>1, <3>2, <3>3
  <2>3. QED
    BY <2>1, <2>2
<1>10. TreasuryDecides(program, longer)
  BY <1>1, <1>3, <1>6, <1>8, <1>9 DEF TreasuryDecides
<1>11. QED
  BY <1>1, <1>10, OthersStillDecided DEF longer, program

\* Every command leaves each program as its last messages have it.
LEMMA NextDecided == TypeInv /\ DecidedInv /\ Next => DecidedInv'
<1> SUFFICES ASSUME TypeInv, DecidedInv, Next PROVE DecidedInv'
  OBVIOUS
<1>1. ASSUME NEW p \in ProgramIds, OthersKept(p), programs[p] \in ProgramRow,
             programs'[p] \in ProgramRow, treasuryEvents'[p] = treasuryEvents[p],
             programs'[p].creditLimit = programs[p].creditLimit,
             programs'[p].status = programs[p].status,
             programs'[p].treasurySequence = programs[p].treasurySequence
      PROVE  DecidedInv'
  <2>1. programs[p] # None /\ programs'[p] # None
    BY <1>1, NullAssumption
  <2>2. TreasuryDecides(programs'[p], treasuryEvents'[p])
    BY <1>1, <2>1 DEF DecidedInv, TreasuryDecides
  <2>3. QED
    BY <1>1, <2>2, OthersStillDecided
<1>2. ASSUME NEW request, NEW p, NEW id, NEW toHold, NEW row,
             ReservedBy(request, p, id, toHold, row)
      PROVE  DecidedInv'
  BY <1>1, <1>2 DEF ReservedBy
<1>3. ASSUME NEW request, NEW p, NEW id, NEW before, NEW after,
             RepaidBy(request, p, id, before, after)
      PROVE  DecidedInv'
  BY <1>1, <1>3 DEF RepaidBy
<1>4. ASSUME NEW message \in TreasuryMessage, NEW p, IgnoredStale(message, p)
      PROVE  DecidedInv'
  <2>1. /\ p \in ProgramIds /\ programs[p] \in ProgramRow
        /\ message.sequence <= programs[p].treasurySequence
        /\ treasuryEvents'[p] =
             Append(treasuryEvents[p], [message |-> message, applied |-> FALSE])
        /\ programs'[p] = programs[p] /\ OthersKept(p)
    BY <1>4 DEF IgnoredStale
  <2>2. /\ programs[p] # None /\ treasuryEvents[p] \in Seq(TreasuryRow)
        /\ TreasuryDecides(programs[p], treasuryEvents[p])
    BY <2>1, TablesTyped, NullAssumption DEF DecidedInv
  <2>3. TreasuryDecides(programs[p], treasuryEvents'[p])
    BY <2>1, <2>2, IgnoredDecidesNothing
  <2>4. QED
    BY <2>1, <2>3, OthersStillDecided
<1>5. QED
  BY <1>2, <1>3, <1>4, OpenedIsDecided, UpdatedIsDecided, NextEffects

\* Among messages applied in order, the newest is the last.
LEMMA LastIsNewest ==
  ASSUME TypeInv, NEW p \in ProgramIds, AppliedInOrder(treasuryEvents[p]),
         NEW S, S \subseteq AppliedIn(treasuryEvents[p]), NEW last, LastOf(last, S)
  PROVE  Newest(p, S) = last
<1> DEFINE log == treasuryEvents[p]
           IsNewest(i) == \A j \in S : Message(p, j).sequence <= Message(p, i).sequence
<1>1. /\ log \in Seq(TreasuryRow) /\ AppliedIn(log) \subseteq DOMAIN log
      /\ last \in S
  BY TablesTyped DEF AppliedIn, LastOf
<1>2. \A i \in S : /\ i \in Int /\ i <= last
                   /\ Message(p, i) = log[i].message
                   /\ log[i].message.sequence \in Nat
  <2> SUFFICES ASSUME NEW i \in S
               PROVE  /\ i \in Int /\ i <= last
                      /\ Message(p, i) = log[i].message
                      /\ log[i].message.sequence \in Nat
    OBVIOUS
  <2>1. i \in DOMAIN log /\ i <= last
    BY <1>1 DEF LastOf
  <2>2. i \in Int /\ log[i] \in TreasuryRow
    BY <1>1, <2>1
  <2>3. QED
    BY <2>1, <2>2, MessageTypes DEF TreasuryRow, Message
<1>3. \A i \in S : i # last => Message(p, i).sequence < Message(p, last).sequence
  <2> SUFFICES ASSUME NEW i \in S, i # last
               PROVE  Message(p, i).sequence < Message(p, last).sequence
    OBVIOUS
  <2>1. i < last
    BY <1>1, <1>2
  <2>2. i \in AppliedIn(log) /\ last \in AppliedIn(log)
    BY <1>1
  <2>3. log[i].message.sequence < log[last].message.sequence
    BY <2>1, <2>2 DEF AppliedInOrder
  <2>4. QED
    BY <1>1, <1>2, <2>3
<1>4. \A i \in S : Message(p, i).sequence \in Nat
  BY <1>2
<1>5. IsNewest(last)
  BY <1>1, <1>3, <1>4
<1>6. \A i \in S : IsNewest(i) => i = last
  BY <1>1, <1>3, <1>4
<1>7. Newest(p, S) = CHOOSE i \in S : IsNewest(i)
  BY DEF Newest
<1> HIDE DEF IsNewest
<1>8. QED
  BY <1>1, <1>5, <1>6, <1>7

\* As messages are applied in the order of their sequences, the last is the
\* newest.
LEMMA DecidedImplies == TypeInv /\ DecidedInv => NewestTreasuryStateWins
<1> SUFFICES ASSUME TypeInv, DecidedInv, NEW p \in ProgramIds, programs[p] # None
             PROVE  LET withLimit  == {i \in Applied(p) : Message(p, i).limit # None}
                        withStatus == {i \in Applied(p) : Message(p, i).status # None}
                    IN  /\ programs[p].treasurySequence =
                             Message(p, Newest(p, Applied(p))).sequence
                        /\ programs[p].creditLimit =
                             Message(p, Newest(p, withLimit)).limit.minor
                        /\ programs[p].status =
                             IF withStatus = {} THEN "ACTIVE"
                             ELSE Message(p, Newest(p, withStatus)).status
                        /\ \A i, j \in Applied(p) :
                             i < j => Message(p, i).sequence < Message(p, j).sequence
                        /\ \A i \in DOMAIN treasuryEvents[p] \ Applied(p) :
                             \E j \in Applied(p) :
                               j < i /\ Message(p, i).sequence <= Message(p, j).sequence
  BY DEF NewestTreasuryStateWins, Opened
<1> DEFINE log == treasuryEvents[p]
           withLimit  == {i \in Applied(p) : Message(p, i).limit # None}
           withStatus == {i \in Applied(p) : Message(p, i).status # None}
<1>1. /\ Applied(p) = AppliedIn(log)
      /\ withLimit = NamingLimit(log) /\ withStatus = NamingStatus(log)
  BY DEF Applied, Message, AppliedIn, NamingLimit, NamingStatus
<1>2. /\ \E i : LastOf(i, AppliedIn(log))
                /\ programs[p].treasurySequence = log[i].message.sequence
      /\ \E i : LastOf(i, NamingLimit(log))
                /\ programs[p].creditLimit = log[i].message.limit.minor
      /\ \/ NamingStatus(log) = {} /\ programs[p].status = "ACTIVE"
         \/ \E i : LastOf(i, NamingStatus(log)) /\ programs[p].status = log[i].message.status
      /\ AppliedInOrder(log) /\ IgnoredForNewer(log)
  BY DEF DecidedInv, TreasuryDecides
<1>3. NamingLimit(log) \subseteq AppliedIn(log) /\ NamingStatus(log) \subseteq AppliedIn(log)
  BY DEF NamingLimit, NamingStatus
<1> HIDE DEF withLimit, withStatus
<1>4. \A S \in {AppliedIn(log), NamingLimit(log), NamingStatus(log)} :
        \A i : LastOf(i, S) => Newest(p, S) = i
  BY <1>2, <1>3, LastIsNewest
<1>5. programs[p].treasurySequence = Message(p, Newest(p, Applied(p))).sequence
  BY <1>1, <1>2, <1>4 DEF Message
<1>6. programs[p].creditLimit = Message(p, Newest(p, withLimit)).limit.minor
  BY <1>1, <1>2, <1>4 DEF Message
<1>7. programs[p].status = IF withStatus = {} THEN "ACTIVE"
                           ELSE Message(p, Newest(p, withStatus)).status
  <2>1. \A i : LastOf(i, NamingStatus(log)) => NamingStatus(log) # {}
    BY DEF LastOf
  <2>2. QED
    BY <1>1, <1>2, <1>4, <2>1 DEF Message
<1>8. \A i, j \in Applied(p) : i < j => Message(p, i).sequence < Message(p, j).sequence
  BY <1>1, <1>2 DEF AppliedInOrder, Message
<1>9. \A i \in DOMAIN treasuryEvents[p] \ Applied(p) :
        \E j \in Applied(p) : j < i /\ Message(p, i).sequence <= Message(p, j).sequence
  BY <1>1, <1>2 DEF IgnoredForNewer, Message
<1>10. QED
  BY <1>5, <1>6, <1>7, <1>8, <1>9 DEF withLimit, withStatus

\* The newest of treasury's messages applied decide, and none is ignored unless one
\* as new was applied before it.
THEOREM NewestDecides == Spec => []NewestTreasuryStateWins
<1>1. Init => DecidedInv
  BY DEF Init, DecidedInv, TreasuryDecides, AppliedInOrder, IgnoredForNewer, AppliedIn
<1>2. TypeInv /\ DecidedInv /\ [Next]_vars => DecidedInv'
  <2>1. UNCHANGED vars /\ DecidedInv => DecidedInv'
    BY DEF vars, DecidedInv
  <2>2. QED
    BY <2>1, NextDecided
<1>3. TypeInv /\ DecidedInv => NewestTreasuryStateWins
  BY DecidedImplies
<1>4. QED
  BY <1>1, <1>2, <1>3, TypesInvariant, PTL DEF Spec

-----------------------------------------------------------------------------
(* The ledger explains the reservations.                                   *)

\* What a movement says was reserved of a reservation.
ReservedOf(movement, id) ==
  IF movement.type = "RESERVE" /\ movement.reservation = id THEN movement.amount ELSE 0

\* A ledger row adds what it reserved to its reservation.
LEMMA ReservedGrows ==
  ASSUME NEW S, NEW ledger \in Seq(S), NEW movement, NEW id
  PROVE  ReservedInLedger(Append(ledger, movement), id) =
           ReservedInLedger(ledger, id) + ReservedOf(movement, id)
<1> DEFINE n == Len(ledger)
           longer == Append(ledger, movement)
           v == [m \in DOMAIN ledger |-> ReservedOf(ledger[m], id)]
           w == [m \in DOMAIN longer |-> ReservedOf(longer[m], id)]
<1>1. /\ n \in Nat /\ Len(longer) = n + 1 /\ DOMAIN longer = 1..(n + 1)
      /\ DOMAIN ledger = 1..n /\ longer[n + 1] = movement
      /\ \A m \in 1..n : longer[m] = ledger[m]
  OBVIOUS
<1> HIDE DEF longer
<1>2. w[n + 1] = ReservedOf(movement, id) /\ \A m \in 1..n : v[m] = w[m]
  BY <1>1
<1>3. /\ ReservedInLedger(ledger, id) = Total(v, n)
      /\ ReservedInLedger(longer, id) = Total(w, n + 1)
  BY <1>1 DEF ReservedInLedger, ReservedOf
<1> HIDE DEF v, w, n
<1>4. Total(w, n + 1) = Total(v, n) + w[n + 1]
  BY <1>1, <1>2, TotalGrows
<1>5. QED
  BY <1>2, <1>3, <1>4 DEF longer

\* What a movement says was released of a reservation.
ReleasedOf(movement, id) ==
  IF movement.type = "RELEASE" /\ movement.reservation = id THEN movement.amount ELSE 0

\* A ledger row adds what it freed to its reservation.
LEMMA ReleasedGrows ==
  ASSUME NEW S, NEW ledger \in Seq(S), NEW movement, NEW id
  PROVE  ReleasedInLedger(Append(ledger, movement), id) =
           ReleasedInLedger(ledger, id) + ReleasedOf(movement, id)
<1> DEFINE n == Len(ledger)
           longer == Append(ledger, movement)
           v == [m \in DOMAIN ledger |-> ReleasedOf(ledger[m], id)]
           w == [m \in DOMAIN longer |-> ReleasedOf(longer[m], id)]
<1>1. /\ n \in Nat /\ Len(longer) = n + 1 /\ DOMAIN longer = 1..(n + 1)
      /\ DOMAIN ledger = 1..n /\ longer[n + 1] = movement
      /\ \A m \in 1..n : longer[m] = ledger[m]
  OBVIOUS
<1> HIDE DEF longer
<1>2. w[n + 1] = ReleasedOf(movement, id) /\ \A m \in 1..n : v[m] = w[m]
  BY <1>1
<1>3. /\ ReleasedInLedger(ledger, id) = Total(v, n)
      /\ ReleasedInLedger(longer, id) = Total(w, n + 1)
  BY <1>1 DEF ReleasedInLedger, ReleasedOf
<1> HIDE DEF v, w, n
<1>4. Total(w, n + 1) = Total(v, n) + w[n + 1]
  BY <1>1, <1>2, TotalGrows
<1>5. QED
  BY <1>2, <1>3, <1>4 DEF longer

\* What a movement says was repaid of a reservation.
RepaidOf(movement, id) ==
  IF movement.type = "RELEASE" /\ movement.reservation = id THEN movement.repaidMinor ELSE 0

\* A ledger row adds what it repaid to its reservation.
LEMMA RepaidGrows ==
  ASSUME NEW S, NEW ledger \in Seq(S), NEW movement, NEW id
  PROVE  RepaidInLedger(Append(ledger, movement), id) =
           RepaidInLedger(ledger, id) + RepaidOf(movement, id)
<1> DEFINE n == Len(ledger)
           longer == Append(ledger, movement)
           v == [m \in DOMAIN ledger |-> RepaidOf(ledger[m], id)]
           w == [m \in DOMAIN longer |-> RepaidOf(longer[m], id)]
<1>1. /\ n \in Nat /\ Len(longer) = n + 1 /\ DOMAIN longer = 1..(n + 1)
      /\ DOMAIN ledger = 1..n /\ longer[n + 1] = movement
      /\ \A m \in 1..n : longer[m] = ledger[m]
  OBVIOUS
<1> HIDE DEF longer
<1>2. w[n + 1] = RepaidOf(movement, id) /\ \A m \in 1..n : v[m] = w[m]
  BY <1>1
<1>3. /\ RepaidInLedger(ledger, id) = Total(v, n)
      /\ RepaidInLedger(longer, id) = Total(w, n + 1)
  BY <1>1 DEF RepaidInLedger, RepaidOf
<1> HIDE DEF v, w, n
<1>4. Total(w, n + 1) = Total(v, n) + w[n + 1]
  BY <1>1, <1>2, TotalGrows
<1>5. QED
  BY <1>2, <1>3, <1>4 DEF longer

\* A ledger that never names a reservation explains nothing of it.
LEMMA NothingNamed ==
  ASSUME NEW S, NEW ledger \in Seq(S), NEW id,
         \A m \in DOMAIN ledger : ledger[m].reservation # id
  PROVE  /\ ReservedInLedger(ledger, id) = 0
         /\ ReleasedInLedger(ledger, id) = 0
         /\ RepaidInLedger(ledger, id) = 0
<1>1. Len(ledger) \in Nat /\ DOMAIN ledger = 1..Len(ledger)
  OBVIOUS
<1> DEFINE v == [m \in DOMAIN ledger |->
                   IF ledger[m].type = "RESERVE" /\ ledger[m].reservation = id
                   THEN ledger[m].amount ELSE 0]
           w == [m \in DOMAIN ledger |->
                   IF ledger[m].type = "RELEASE" /\ ledger[m].reservation = id
                   THEN ledger[m].amount ELSE 0]
           u == [m \in DOMAIN ledger |->
                   IF ledger[m].type = "RELEASE" /\ ledger[m].reservation = id
                   THEN ledger[m].repaidMinor ELSE 0]
<1>2. \A m \in 1..Len(ledger) : v[m] = 0 /\ w[m] = 0 /\ u[m] = 0
  BY <1>1
<1>3. /\ ReservedInLedger(ledger, id) = Total(v, Len(ledger))
      /\ ReleasedInLedger(ledger, id) = Total(w, Len(ledger))
      /\ RepaidInLedger(ledger, id) = Total(u, Len(ledger))
  BY DEF ReservedInLedger, ReleasedInLedger, RepaidInLedger
<1> HIDE DEF v, w, u
<1>4. QED
  BY <1>1, <1>2, <1>3, TotalZero

Explains(ledger, row, id) ==
  /\ ReservedInLedger(ledger, id) = row.reserved
  /\ ReleasedInLedger(ledger, id) = row.released
  /\ RepaidInLedger(ledger, id) = row.repaid

\* The ledger names reservations that exist, and explains each.
LedgerFits(ledger, rows) ==
  /\ \A m \in DOMAIN ledger : ledger[m].reservation \in DOMAIN rows
  /\ \A i \in DOMAIN rows : Explains(ledger, rows[i], i)

LedgerInv == \A p \in ProgramIds : LedgerFits(movements[p], reservations[p])

\* A movement of another reservation changes nothing that is explained.
LEMMA ExplainedStill ==
  ASSUME NEW S, NEW ledger \in Seq(S), NEW row \in ReservationRow, NEW id,
         Explains(ledger, row, id), NEW movement, movement.reservation # id
  PROVE  Explains(Append(ledger, movement), row, id)
<1>1. /\ row.reserved \in Nat /\ row.released \in Nat /\ row.repaid \in Nat
  BY DEF ReservationRow
<1>2. ReservedOf(movement, id) = 0 /\ ReleasedOf(movement, id) = 0 /\ RepaidOf(movement, id) = 0
  BY DEF ReservedOf, ReleasedOf, RepaidOf
<1>3. /\ ReservedInLedger(ledger, id) \in Nat
      /\ ReleasedInLedger(ledger, id) \in Nat
      /\ RepaidInLedger(ledger, id) \in Nat
  BY <1>1 DEF Explains
<1>4. /\ ReservedInLedger(Append(ledger, movement), id) = ReservedInLedger(ledger, id)
      /\ ReleasedInLedger(Append(ledger, movement), id) = ReleasedInLedger(ledger, id)
      /\ RepaidInLedger(Append(ledger, movement), id) = RepaidInLedger(ledger, id)
  BY <1>2, <1>3, ReservedGrows, ReleasedGrows, RepaidGrows
<1>5. QED
  BY <1>4 DEF Explains

\* What a step does to one program decides for all of them.
LEMMA OthersStillFit ==
  ASSUME LedgerInv, NEW p \in ProgramIds, OthersKept(p),
         LedgerFits(movements'[p], reservations'[p])
  PROVE  LedgerInv'
BY DEF LedgerInv, OthersKept

\* A reservation is created with the ledger row that explains it.
LEMMA ReservedFits ==
  ASSUME TypeInv, LedgerInv, NEW request, NEW p, NEW id, NEW toHold, NEW row,
         ReservedBy(request, p, id, toHold, row)
  PROVE  LedgerInv'
<1> DEFINE movement == ReserveMovement(id, toHold, programs'[p])
           ledger == movements[p]
           rows == reservations[p]
<1>1. /\ p \in ProgramIds /\ row \in ReservationRow /\ id = Len(rows) + 1
      /\ row.reserved = toHold /\ row.repaid = 0 /\ row.released = 0
      /\ toHold \in Nat
      /\ reservations'[p] = Append(rows, row)
      /\ movements'[p] = Append(ledger, movement)
      /\ OthersKept(p)
  BY DEF ReservedBy
<1>2. /\ rows \in Seq(ReservationRow) /\ ledger \in Seq(MovementRow)
      /\ LedgerFits(ledger, rows)
  BY <1>1, TablesTyped DEF LedgerInv
<1>3. movement.reservation = id /\ movement.type = "RESERVE" /\ movement.amount = toHold
  BY DEF ReserveMovement
<1> HIDE DEF movement, ledger, rows
<1>4. /\ id \notin DOMAIN rows /\ DOMAIN reservations'[p] = DOMAIN rows \union {id}
      /\ reservations'[p][id] = row
      /\ \A i \in DOMAIN rows : reservations'[p][i] = rows[i] /\ rows[i] \in ReservationRow
  BY <1>1, <1>2
<1>5. \A m \in DOMAIN movements'[p] : movements'[p][m].reservation \in DOMAIN reservations'[p]
  <2> SUFFICES ASSUME NEW m \in DOMAIN movements'[p]
               PROVE  movements'[p][m].reservation \in DOMAIN reservations'[p]
    OBVIOUS
  <2>1. movements'[p][m] = movement \/ (m \in DOMAIN ledger /\ movements'[p][m] = ledger[m])
    BY <1>1, <1>2
  <2>2. QED
    BY <1>2, <1>3, <1>4, <2>1 DEF LedgerFits
<1>6. Explains(movements'[p], row, id)
  <2>1. /\ ReservedInLedger(ledger, id) = 0 /\ ReleasedInLedger(ledger, id) = 0
        /\ RepaidInLedger(ledger, id) = 0
    BY <1>2, <1>4, NothingNamed DEF LedgerFits
  <2>2. /\ ReservedOf(movement, id) = toHold
        /\ ReleasedOf(movement, id) = 0 /\ RepaidOf(movement, id) = 0
    BY <1>3 DEF ReservedOf, ReleasedOf, RepaidOf
  <2>3. /\ ReservedInLedger(movements'[p], id) = 0 + toHold
        /\ ReleasedInLedger(movements'[p], id) = 0 + 0
        /\ RepaidInLedger(movements'[p], id) = 0 + 0
    BY <1>1, <1>2, <2>1, <2>2, ReservedGrows, ReleasedGrows, RepaidGrows
  <2>4. QED
    BY <1>1, <2>3 DEF Explains
<1>7. ASSUME NEW i \in DOMAIN rows PROVE Explains(movements'[p], reservations'[p][i], i)
  <2>1. Explains(ledger, rows[i], i) /\ rows[i] \in ReservationRow /\ movement.reservation # i
    BY <1>2, <1>3, <1>4 DEF LedgerFits
  <2>2. QED
    BY <1>1, <1>2, <1>4, <2>1, ExplainedStill
<1>8. LedgerFits(movements'[p], reservations'[p])
  BY <1>4, <1>5, <1>6, <1>7 DEF LedgerFits
<1>9. QED
  BY <1>1, <1>8, OthersStillFit

\* A repayment adds to the ledger what it adds to its reservation.
LEMMA RepaidFits ==
  ASSUME TypeInv, LedgerInv, NEW request, NEW p, NEW id, NEW before, NEW after,
         RepaidBy(request, p, id, before, after)
  PROVE  LedgerInv'
<1> DEFINE movement == ReleaseMovement(id, before, after, programs'[p], request.repayment)
           ledger == movements[p]
           rows == reservations[p]
<1>1. /\ p \in ProgramIds /\ id \in DOMAIN rows /\ before = rows[id]
      /\ before \in ReservationRow /\ after \in ReservationRow
      /\ SameTerms(before, after)
      /\ reservations'[p] = [rows EXCEPT ![id] = after]
      /\ movements'[p] = Append(ledger, movement)
      /\ OthersKept(p)
  BY DEF RepaidBy
<1>2. /\ rows \in Seq(ReservationRow) /\ ledger \in Seq(MovementRow)
      /\ LedgerFits(ledger, rows)
  BY <1>1, TablesTyped DEF LedgerInv
<1>3. /\ movement.reservation = id /\ movement.type = "RELEASE"
      /\ movement.amount = after.released - before.released
      /\ movement.repaidMinor = after.repaid - before.repaid
  BY DEF ReleaseMovement
<1> HIDE DEF movement, ledger, rows
<1>4. /\ DOMAIN reservations'[p] = DOMAIN rows /\ reservations'[p][id] = after
      /\ \A i \in DOMAIN rows : i # id => reservations'[p][i] = rows[i]
      /\ \A i \in DOMAIN rows : rows[i] \in ReservationRow
  BY <1>1, <1>2
<1>5. \A m \in DOMAIN movements'[p] : movements'[p][m].reservation \in DOMAIN reservations'[p]
  <2> SUFFICES ASSUME NEW m \in DOMAIN movements'[p]
               PROVE  movements'[p][m].reservation \in DOMAIN reservations'[p]
    OBVIOUS
  <2>1. movements'[p][m] = movement \/ (m \in DOMAIN ledger /\ movements'[p][m] = ledger[m])
    BY <1>1, <1>2
  <2>2. QED
    BY <1>1, <1>2, <1>3, <1>4, <2>1 DEF LedgerFits
<1>6. Explains(movements'[p], after, id)
  <2>1. /\ ReservedInLedger(ledger, id) = before.reserved
        /\ ReleasedInLedger(ledger, id) = before.released
        /\ RepaidInLedger(ledger, id) = before.repaid
    BY <1>1, <1>2 DEF LedgerFits, Explains
  <2>2. /\ ReservedOf(movement, id) = 0
        /\ ReleasedOf(movement, id) = after.released - before.released
        /\ RepaidOf(movement, id) = after.repaid - before.repaid
    BY <1>3 DEF ReservedOf, ReleasedOf, RepaidOf
  <2>3. /\ ReservedInLedger(movements'[p], id) = before.reserved + 0
        /\ ReleasedInLedger(movements'[p], id) =
             before.released + (after.released - before.released)
        /\ RepaidInLedger(movements'[p], id) = before.repaid + (after.repaid - before.repaid)
    BY <1>1, <1>2, <2>1, <2>2, ReservedGrows, ReleasedGrows, RepaidGrows
  <2>4. /\ before.reserved \in Nat /\ before.released \in Nat /\ before.repaid \in Nat
        /\ after.released \in Nat /\ after.repaid \in Nat
        /\ after.reserved = before.reserved
    BY <1>1 DEF ReservationRow, SameTerms
  <2>5. QED
    BY <2>3, <2>4 DEF Explains
<1>7. ASSUME NEW i \in DOMAIN rows, i # id
      PROVE  Explains(movements'[p], reservations'[p][i], i)
  <2>1. Explains(ledger, rows[i], i) /\ rows[i] \in ReservationRow /\ movement.reservation # i
    BY <1>2, <1>3, <1>4, <1>7 DEF LedgerFits
  <2>2. QED
    BY <1>1, <1>2, <1>4, <1>7, <2>1, ExplainedStill
<1>8. LedgerFits(movements'[p], reservations'[p])
  BY <1>4, <1>5, <1>6, <1>7 DEF LedgerFits
<1>9. QED
  BY <1>1, <1>8, OthersStillFit

\* Every command keeps ledger and reservations in step.
LEMMA NextFits == TypeInv /\ LedgerInv /\ Next => LedgerInv'
<1> SUFFICES ASSUME TypeInv, LedgerInv, Next PROVE LedgerInv'
  OBVIOUS
<1>1. ASSUME NEW p \in ProgramIds, OthersKept(p),
             reservations'[p] = reservations[p], movements'[p] = movements[p]
      PROVE  LedgerInv'
  BY <1>1, OthersStillFit DEF LedgerInv
<1>2. ASSUME NEW message \in TreasuryMessage, NEW p, NEW after, OpenedWith(message, p, after)
      PROVE  LedgerInv'
  BY <1>1, <1>2 DEF OpenedWith
<1>3. ASSUME NEW message \in TreasuryMessage, NEW p, NEW before, NEW after,
             UpdatedWith(message, p, before, after)
      PROVE  LedgerInv'
  BY <1>1, <1>3 DEF UpdatedWith
<1>4. ASSUME NEW message \in TreasuryMessage, NEW p, IgnoredStale(message, p)
      PROVE  LedgerInv'
  BY <1>1, <1>4 DEF IgnoredStale
<1>5. QED
  BY <1>2, <1>3, <1>4, ReservedFits, RepaidFits, NextEffects

\* The ledger alone accounts for what each reservation reserved, released and was
\* repaid.
THEOREM LedgerAccounts == Spec => []LedgerExplainsReservations
<1>1. Init => LedgerInv
  BY DEF Init, LedgerInv, LedgerFits
<1>2. TypeInv /\ LedgerInv /\ [Next]_vars => LedgerInv'
  <2>1. UNCHANGED vars /\ LedgerInv => LedgerInv'
    BY DEF vars, LedgerInv
  <2>2. QED
    BY <2>1, NextFits
<1>3. LedgerInv => LedgerExplainsReservations
  BY DEF LedgerInv, LedgerFits, Explains, LedgerExplainsReservations
<1>4. QED
  BY <1>1, <1>2, <1>3, TypesInvariant, PTL DEF Spec

-----------------------------------------------------------------------------
(* The events tell the state.                                              *)

\* The views after each of the first n messages: what the recursive function in
\* Replay is meant to be.
Viewing(messages, n, view) ==
  view = [k \in 0..n |-> IF k = 0 THEN None ELSE Consume(view[k - 1], messages[k])]

\* Reading one message after another defines a view at each place.
LEMMA ViewingExists ==
  ASSUME NEW messages
  PROVE  \A n \in Nat : \E view : Viewing(messages, n, view)
<1> DEFINE S == {n \in Nat : \E view : Viewing(messages, n, view)}
<1>1. 0 \in S
  <2>1. Viewing(messages, 0, [k \in 0..0 |-> None])
    BY DEF Viewing
  <2>2. QED
    BY <2>1
<1>2. ASSUME NEW n \in Nat, n \in S PROVE n + 1 \in S
  <2>1. PICK t : Viewing(messages, n, t)
    BY <1>2
  <2> DEFINE u == [k \in 0..(n + 1) |->
                     IF k = n + 1 THEN Consume(t[n], messages[n + 1]) ELSE t[k]]
  <2>2. \A k \in 0..(n + 1) : u[k] = IF k = 0 THEN None ELSE Consume(u[k - 1], messages[k])
    BY <2>1 DEF Viewing
  <2>3. Viewing(messages, n + 1, u)
    BY <2>2 DEF Viewing
  <2>4. QED
    BY <2>3
<1> HIDE DEF S
<1>3. Nat \subseteq S
  BY <1>1, <1>2, NatSetInduction
<1>4. QED
  BY <1>3 DEF S

\* There is only one such view.
LEMMA ViewingUnique ==
  ASSUME NEW v, NEW w, NEW m \in Nat, NEW n \in Nat, NEW t, NEW u,
         Viewing(v, m, t), Viewing(w, n, u)
  PROVE  \A k \in Nat : k <= m /\ k <= n /\ (\A i \in 1..k : v[i] = w[i]) => t[k] = u[k]
<1> DEFINE S == {k \in Nat : k <= m /\ k <= n /\ (\A i \in 1..k : v[i] = w[i]) => t[k] = u[k]}
<1>1. 0 \in S
  BY DEF Viewing
<1>2. ASSUME NEW k \in Nat, k \in S PROVE k + 1 \in S
  BY <1>2 DEF Viewing
<1> HIDE DEF S
<1>3. Nat \subseteq S
  BY <1>1, <1>2, NatSetInduction
<1>4. QED
  BY <1>3 DEF S

\* Replay is the last of the views.
LEMMA ReplayIsViewing ==
  ASSUME NEW S, NEW messages \in Seq(S)
  PROVE  \E view : /\ Viewing(messages, Len(messages), view)
                   /\ Replay(messages) = view[Len(messages)]
<1> DEFINE n == Len(messages)
           view[k \in 0..n] == IF k = 0 THEN None ELSE Consume(view[k - 1], messages[k])
<1>1. n \in Nat
  OBVIOUS
<1>2. \E u : Viewing(messages, n, u)
  BY <1>1, ViewingExists
<1>3. Viewing(messages, n, view)
  BY <1>2, Zenon DEF Viewing
<1>4. Replay(messages) = view[n]
  BY DEF Replay
<1>5. QED
  BY <1>3, <1>4

\* One message more is consumed after the others.
LEMMA ReplayNext ==
  ASSUME NEW S, NEW messages \in Seq(S), NEW message \in S
  PROVE  Replay(Append(messages, message)) = Consume(Replay(messages), message)
<1> DEFINE n == Len(messages)
           longer == Append(messages, message)
<1>1. /\ n \in Nat /\ longer \in Seq(S) /\ Len(longer) = n + 1
      /\ longer[n + 1] = message /\ \A i \in 1..n : longer[i] = messages[i]
  OBVIOUS
<1>2. PICK t : Viewing(messages, n, t) /\ Replay(messages) = t[n]
  BY ReplayIsViewing
<1>3. PICK u : Viewing(longer, n + 1, u) /\ Replay(longer) = u[n + 1]
  BY <1>1, ReplayIsViewing
<1> HIDE DEF n, longer
<1>4. t[n] = u[n]
  BY <1>1, <1>2, <1>3, ViewingUnique
<1>5. u[n + 1] = Consume(u[n], longer[n + 1])
  BY <1>1, <1>3 DEF Viewing
<1>6. QED
  BY <1>1, <1>2, <1>3, <1>4, <1>5 DEF longer

-----------------------------------------------------------------------------
\* The messages of a program's events, and what a consumer then knows.
MessagesOf(p, events) == [i \in DOMAIN events |-> ToCapacityEventMessage(p, events[i])]

ViewAfter(p, events) == Replay(MessagesOf(p, events))

\* An event stored is a message consumed.
LEMMA EventConsumed ==
  ASSUME NEW p, NEW events \in Seq(OutboxEvent), NEW event \in OutboxEvent
  PROVE  ViewAfter(p, Append(events, event)) =
           Consume(ViewAfter(p, events), ToCapacityEventMessage(p, event))
<1> DEFINE M == {ToCapacityEventMessage(p, e) : e \in OutboxEvent}
           message == ToCapacityEventMessage(p, event)
           longer == Append(events, event)
<1>1. /\ Len(longer) = Len(events) + 1 /\ Len(events) \in Nat
      /\ DOMAIN longer = 1..(Len(events) + 1) /\ DOMAIN events = 1..Len(events)
      /\ longer[Len(events) + 1] = event
      /\ \A i \in DOMAIN events : longer[i] = events[i] /\ events[i] \in OutboxEvent
  OBVIOUS
<1>2. /\ message \in M /\ \A i \in DOMAIN events : ToCapacityEventMessage(p, events[i]) \in M
  BY <1>1
<1> HIDE DEF M, message, longer
<1>3. MessagesOf(p, events) \in Seq(M) /\ Len(MessagesOf(p, events)) = Len(events)
  BY <1>1, <1>2 DEF MessagesOf
<1>4. MessagesOf(p, longer) = Append(MessagesOf(p, events), message)
  BY <1>1, <1>3 DEF MessagesOf, message
<1>5. Replay(MessagesOf(p, longer)) = Consume(Replay(MessagesOf(p, events)), message)
  BY <1>2, <1>3, <1>4, ReplayNext
<1>6. QED
  BY <1>5 DEF ViewAfter, longer, message

View(limit, status, available, overLimit, holding) ==
  [limit |-> limit, status |-> status, available |-> available,
   overLimit |-> overLimit, holding |-> holding]

\* A record with the parts of a view is that view.
LEMMA ViewIs ==
  ASSUME NEW limit, NEW status, NEW available, NEW overLimit, NEW holding, NEW view
  PROVE  view = View(limit, status, available, overLimit, holding) <=>
           view \in [limit : {limit}, status : {status}, available : {available},
                     overLimit : {overLimit}, holding : {holding}]
BY DEF View

\* What each event tells a consumer that knows the program already.
LEMMA OpenedTells ==
  ASSUME NEW p, NEW view, NEW program
  PROVE  Consume(view, ToCapacityEventMessage(p, ProgramOpened(program))) =
           View(program.creditLimit, program.status, program.creditLimit, FALSE, {})
<1> DEFINE event == ProgramOpened(program)
           message == ToCapacityEventMessage(p, event)
<1>1. /\ event.type = "ProgramOpened" /\ event.creditLimit = program.creditLimit
      /\ event.status = program.status
  BY DEF ProgramOpened
<1> HIDE DEF event
<1>2. /\ message.eventType = "ProgramOpened"
      /\ message.data = [creditLimit |-> program.creditLimit, status |-> program.status]
  BY <1>1 DEF ToCapacityEventMessage, DataOf
<1> HIDE DEF message
<1>3. Consume(view, message) =
        View(program.creditLimit, program.status, program.creditLimit, FALSE, {})
  BY <1>2 DEF Consume, View
<1>4. QED
  BY <1>3 DEF message, event

\* A consumer told of a reservation learns what is available and who holds.
LEMMA ReservedTells ==
  ASSUME NEW p, NEW id, NEW program,
         NEW limit, NEW status, NEW available, NEW overLimit, NEW holding
  PROVE  Consume(View(limit, status, available, overLimit, holding),
                 ToCapacityEventMessage(p, CapacityReserved(id, program))) =
           View(limit, status, Available(program), overLimit, holding \union {id})
<1> DEFINE event == CapacityReserved(id, program)
           message == ToCapacityEventMessage(p, event)
           now == Available(program)
<1>1. event.type = "CapacityReserved" /\ event.reservation = id /\ event.availableAfter = now
  BY DEF CapacityReserved
<1> HIDE DEF event, now
<1>2. /\ message.eventType = "CapacityReserved"
      /\ message.data = [reservation |-> id, availableAfter |-> now]
  BY <1>1 DEF ToCapacityEventMessage, DataOf
<1> HIDE DEF message
<1> DEFINE view == View(limit, status, available, overLimit, holding)
<1>3. Consume(view, message) = [view EXCEPT !.available = message.data.availableAfter,
                          !.holding = @ \union {message.data.reservation}]
  <2> HIDE DEF view
  <2>1. QED
    BY <1>2 DEF Consume
<1>4. [view EXCEPT !.available = message.data.availableAfter,
                          !.holding = @ \union {message.data.reservation}] =
        View(limit, status, now, overLimit, holding \union {id})
  <2>1. view \in [limit : {limit}, status : {status}, available : {available},
                  overLimit : {overLimit}, holding : {holding}]
    BY ViewIs
  <2> DEFINE a == message.data.availableAfter
             h == view.holding \union {message.data.reservation}
             new == [view EXCEPT !.available = a, !.holding = h]
  <2>2. /\ a = now
        /\ h = holding \union {id}
    BY <1>2, <2>1
  <2> HIDE DEF view, a, h
  <2>3. new \in [limit : {limit}, status : {status},
                  available : {a}, overLimit : {overLimit}, holding : {h}]
    BY <2>1
  <2> HIDE DEF new
  <2>4. new = View(limit, status, now, overLimit, holding \union {id})
    BY <2>2, <2>3, ViewIs
  <2>5. QED
    BY <2>4 DEF new, a, h
<1> HIDE DEF view
<1>5. QED
  BY <1>3, <1>4 DEF view, message, event, now

\* A consumer told of a repayment learns what is available and who still
\* holds.
LEMMA ReleasedTells ==
  ASSUME NEW p, NEW id, NEW after, NEW program,
         NEW limit, NEW status, NEW available, NEW overLimit, NEW holding
  PROVE  Consume(View(limit, status, available, overLimit, holding),
                 ToCapacityEventMessage(p, CapacityReleased(id, after, program))) =
           View(limit, status, Available(program), Available(program) < 0,
                IF after.status = "RELEASED" THEN holding \ {id} ELSE holding)
<1> DEFINE event == CapacityReleased(id, after, program)
           message == ToCapacityEventMessage(p, event)
           now == Available(program)
           full == after.status = "RELEASED"
<1>1. /\ event.type = "CapacityReleased" /\ event.reservation = id
      /\ event.availableAfter = now /\ event.fullyReleased = full
  BY DEF CapacityReleased
<1> HIDE DEF event, now, full
<1>2. /\ message.eventType = "CapacityReleased"
      /\ message.data = [reservation |-> id, availableAfter |-> now,
                         reservationFullyReleased |-> full]
  BY <1>1 DEF ToCapacityEventMessage, DataOf
<1> HIDE DEF message
<1> DEFINE view == View(limit, status, available, overLimit, holding)
<1>3. Consume(view, message) = [view EXCEPT !.available = message.data.availableAfter,
                          !.overLimit = message.data.availableAfter < 0,
                          !.holding = IF message.data.reservationFullyReleased
                                      THEN @ \ {message.data.reservation} ELSE @]
  <2> HIDE DEF view
  <2>1. QED
    BY <1>2 DEF Consume
<1>4. [view EXCEPT !.available = message.data.availableAfter,
                          !.overLimit = message.data.availableAfter < 0,
                          !.holding = IF message.data.reservationFullyReleased
                                      THEN @ \ {message.data.reservation} ELSE @] =
        View(limit, status, now, now < 0, IF full THEN holding \ {id} ELSE holding)
  <2>1. view \in [limit : {limit}, status : {status}, available : {available},
                  overLimit : {overLimit}, holding : {holding}]
    BY ViewIs
  <2> DEFINE a == message.data.availableAfter
             o == message.data.availableAfter < 0
             h == IF message.data.reservationFullyReleased
                  THEN view.holding \ {message.data.reservation} ELSE view.holding
             new == [view EXCEPT !.available = a, !.overLimit = o, !.holding = h]
  <2>2. /\ a = now
        /\ o = (now < 0)
        /\ h = IF full THEN holding \ {id} ELSE holding
    BY <1>2, <2>1
  <2> HIDE DEF view, a, o, h
  <2>3. new \in [limit : {limit}, status : {status},
                  available : {a}, overLimit : {o}, holding : {h}]
    BY <2>1
  <2> HIDE DEF new
  <2>4. new = View(limit, status, now, now < 0, IF full THEN holding \ {id} ELSE holding)
    BY <2>2, <2>3, ViewIs
  <2>5. QED
    BY <2>4 DEF new, a, o, h
<1> HIDE DEF view
<1>5. QED
  BY <1>3, <1>4 DEF view, message, event, now, full

\* A consumer told of a new limit learns it, what is available and whether it
\* is exceeded.
LEMMA LimitTells ==
  ASSUME NEW p, NEW newLimit, NEW reserved,
         NEW limit, NEW status, NEW available, NEW overLimit, NEW holding
  PROVE  Consume(View(limit, status, available, overLimit, holding),
                 ToCapacityEventMessage(p, [type |-> "CreditLimitChanged",
                                            creditLimit |-> newLimit, reserved |-> reserved])) =
           View(newLimit, status, newLimit - reserved, reserved > newLimit, holding)
<1> DEFINE event == [type |-> "CreditLimitChanged",
                     creditLimit |-> newLimit, reserved |-> reserved]
           message == ToCapacityEventMessage(p, event)
<1>1. /\ event.type = "CreditLimitChanged" /\ event.creditLimit = newLimit
      /\ event.reserved = reserved
  OBVIOUS
<1> HIDE DEF event
<1>2. /\ message.eventType = "CreditLimitChanged"
      /\ message.data = [creditLimit |-> newLimit, reservedAmount |-> reserved,
                         overLimit |-> reserved > newLimit]
  BY <1>1 DEF ToCapacityEventMessage, DataOf
<1> HIDE DEF message
<1> DEFINE view == View(limit, status, available, overLimit, holding)
<1>3. Consume(view, message) = [view EXCEPT !.limit = message.data.creditLimit,
                          !.overLimit = message.data.overLimit,
                          !.available = message.data.creditLimit - message.data.reservedAmount]
  <2> HIDE DEF view
  <2>1. QED
    BY <1>2 DEF Consume
<1>4. [view EXCEPT !.limit = message.data.creditLimit,
                          !.overLimit = message.data.overLimit,
                          !.available = message.data.creditLimit - message.data.reservedAmount] =
        View(newLimit, status, newLimit - reserved, reserved > newLimit, holding)
  <2>1. view \in [limit : {limit}, status : {status}, available : {available},
                  overLimit : {overLimit}, holding : {holding}]
    BY ViewIs
  <2> DEFINE l == message.data.creditLimit
             o == message.data.overLimit
             a == message.data.creditLimit - message.data.reservedAmount
             new == [view EXCEPT !.limit = l, !.overLimit = o, !.available = a]
  <2>2. /\ l = newLimit
        /\ o = (reserved > newLimit)
        /\ a = newLimit - reserved
    BY <1>2, <2>1
  <2> HIDE DEF view, l, o, a
  <2>3. new \in [limit : {l}, status : {status},
                  available : {a}, overLimit : {o}, holding : {holding}]
    BY <2>1
  <2> HIDE DEF new
  <2>4. new = View(newLimit, status, newLimit - reserved, reserved > newLimit, holding)
    BY <2>2, <2>3, ViewIs
  <2>5. QED
    BY <2>4 DEF new, l, o, a
<1> HIDE DEF view
<1>5. QED
  BY <1>3, <1>4 DEF view, message, event

\* A consumer told of a new status learns it.
LEMMA StatusTells ==
  ASSUME NEW p, NEW newStatus,
         NEW limit, NEW status, NEW available, NEW overLimit, NEW holding
  PROVE  Consume(View(limit, status, available, overLimit, holding),
                 ToCapacityEventMessage(p, [type |-> "ProgramStatusChanged",
                                            status |-> newStatus])) =
           View(limit, newStatus, available, overLimit, holding)
<1> DEFINE event == [type |-> "ProgramStatusChanged", status |-> newStatus]
           message == ToCapacityEventMessage(p, event)
<1>1. event.type = "ProgramStatusChanged" /\ event.status = newStatus
  OBVIOUS
<1> HIDE DEF event
<1>2. /\ message.eventType = "ProgramStatusChanged"
      /\ message.data = [status |-> newStatus]
  BY <1>1 DEF ToCapacityEventMessage, DataOf
<1> HIDE DEF message
<1>3. Consume(View(limit, status, available, overLimit, holding), message) =
        View(limit, newStatus, available, overLimit, holding)
  BY <1>2 DEF Consume, View
<1>4. QED
  BY <1>3 DEF message, event

-----------------------------------------------------------------------------
ActiveIn(rows) == {i \in DOMAIN rows : rows[i].status = "ACTIVE"}

\* What there is to know of a program.
StateView(program, rows) ==
  View(program.creditLimit, program.status, Available(program),
       program.reserved > program.creditLimit, ActiveIn(rows))

Told(p, program, rows, events) ==
  program # None => ViewAfter(p, events) = StateView(program, rows)

ToldInv == \A p \in ProgramIds : Told(p, programs[p], reservations[p], outbox[p])

\* A consumer told of every program is what the run checks.
LEMMA ToldImplies == ToldInv => EventsTellTheState
BY DEF ToldInv, Told, ViewAfter, MessagesOf, Published, StateView, View, ActiveIn,
       EventsTellTheState, Opened

\* What a step does to one program decides for all of them.
LEMMA OthersStillTold ==
  ASSUME ToldInv, NEW p \in ProgramIds, OthersKept(p),
         Told(p, programs'[p], reservations'[p], outbox'[p])
  PROVE  ToldInv'
BY DEF ToldInv, OthersKept

\* An event that was stored is one.
LEMMA StoredIsEvent ==
  ASSUME TypeInv, TypeInv', NEW p \in ProgramIds, NEW event,
         outbox'[p] = Append(outbox[p], event)
  PROVE  event \in OutboxEvent
<1>1. outbox[p] \in Seq(OutboxEvent) /\ outbox'[p] \in Seq(OutboxEvent)
  BY DEF TypeInv, TypeOK
<1>2. /\ Len(outbox[p]) \in Nat /\ Len(outbox'[p]) = Len(outbox[p]) + 1
      /\ outbox'[p][Len(outbox[p]) + 1] = event
  BY <1>1
<1>3. QED
  BY <1>1, <1>2

\* The step that stores an event tells what the consumer then knows.
LEMMA StoredTells ==
  ASSUME TypeInv, TypeInv', NEW p \in ProgramIds, NEW event,
         outbox'[p] = Append(outbox[p], event)
  PROVE  ViewAfter(p, outbox'[p]) =
           Consume(ViewAfter(p, outbox[p]), ToCapacityEventMessage(p, event))
<1>1. outbox[p] \in Seq(OutboxEvent) /\ event \in OutboxEvent
  BY TablesTyped, StoredIsEvent
<1>2. QED
  BY <1>1, EventConsumed

\* A reservation is told.
LEMMA ReservedIsTold ==
  ASSUME TypeInv, TypeInv', ToldInv, NEW request, NEW p, NEW id, NEW toHold, NEW row,
         ReservedBy(request, p, id, toHold, row)
  PROVE  ToldInv'
<1> DEFINE before == programs[p]
           program == programs'[p]
           rows == reservations[p]
           event == CapacityReserved(id, program)
<1>1. /\ p \in ProgramIds /\ before \in ProgramRow /\ program \in ProgramRow
      /\ row.status = "ACTIVE" /\ id = Len(rows) + 1
      /\ toHold \in Nat \ {0} /\ toHold <= Available(before)
      /\ program.reserved = before.reserved + toHold
      /\ program.creditLimit = before.creditLimit
      /\ program.status = before.status
      /\ reservations'[p] = Append(rows, row)
      /\ outbox'[p] = Append(outbox[p], event)
      /\ OthersKept(p)
  BY DEF ReservedBy
<1>2. rows \in Seq(ReservationRow) /\ before # None
  BY <1>1, TablesTyped, NullAssumption
<1>3. ViewAfter(p, outbox[p]) =
        View(before.creditLimit, before.status, Available(before),
             before.reserved > before.creditLimit, ActiveIn(rows))
  BY <1>1, <1>2 DEF ToldInv, Told, StateView
<1>4. ActiveIn(reservations'[p]) = ActiveIn(rows) \union {id}
  BY <1>1, <1>2 DEF ActiveIn
<1>5. /\ before.reserved \in Nat /\ before.creditLimit \in Nat
  BY <1>1 DEF ProgramRow
<1>6. (before.reserved > before.creditLimit) = (program.reserved > program.creditLimit)
  BY <1>1, <1>5 DEF Available
<1>7. ViewAfter(p, outbox'[p]) =
        Consume(ViewAfter(p, outbox[p]), ToCapacityEventMessage(p, event))
  BY <1>1, StoredTells
<1> HIDE DEF program, before, rows
<1>8. ViewAfter(p, outbox'[p]) =
        View(before.creditLimit, before.status, Available(program),
             before.reserved > before.creditLimit, ActiveIn(rows) \union {id})
  BY <1>3, <1>7, ReservedTells
<1>9. ViewAfter(p, outbox'[p]) = StateView(program, reservations'[p])
  BY <1>1, <1>4, <1>6, <1>8 DEF StateView
<1>10. QED
  BY <1>1, <1>9, OthersStillTold DEF Told, program

\* A repayment is told.
LEMMA RepaidIsTold ==
  ASSUME TypeInv, TypeInv', ToldInv, NEW request, NEW p, NEW id, NEW before, NEW after,
         RepaidBy(request, p, id, before, after)
  PROVE  ToldInv'
<1> DEFINE old == programs[p]
           program == programs'[p]
           rows == reservations[p]
           event == CapacityReleased(id, after, program)
<1>1. /\ p \in ProgramIds /\ old \in ProgramRow /\ program \in ProgramRow
      /\ id \in DOMAIN rows /\ before = rows[id] /\ before.status = "ACTIVE"
      /\ after \in ReservationRow
      /\ program.creditLimit = old.creditLimit
      /\ program.status = old.status
      /\ reservations'[p] = [rows EXCEPT ![id] = after]
      /\ outbox'[p] = Append(outbox[p], event)
      /\ OthersKept(p)
  BY DEF RepaidBy
<1>2. rows \in Seq(ReservationRow) /\ old # None
  BY <1>1, TablesTyped, NullAssumption
<1>3. ViewAfter(p, outbox[p]) =
        View(old.creditLimit, old.status, Available(old),
             old.reserved > old.creditLimit, ActiveIn(rows))
  BY <1>1, <1>2 DEF ToldInv, Told, StateView
<1>4. ActiveIn(reservations'[p]) =
        IF after.status = "RELEASED" THEN ActiveIn(rows) \ {id} ELSE ActiveIn(rows)
  <2>1. /\ DOMAIN reservations'[p] = DOMAIN rows
        /\ \A i \in DOMAIN rows : reservations'[p][i] = IF i = id THEN after ELSE rows[i]
    BY <1>1, <1>2
  <2>2. after.status = "RELEASED" \/ after.status = "ACTIVE"
    BY <1>1 DEF ReservationRow, ReservationStatuses
  <2>3. CASE after.status = "RELEASED"
    BY <1>1, <2>1, <2>3 DEF ActiveIn
  <2>4. CASE after.status = "ACTIVE"
    BY <1>1, <2>1, <2>4 DEF ActiveIn
  <2>5. QED
    BY <2>2, <2>3, <2>4
<1>5. (Available(program) < 0) = (program.reserved > program.creditLimit)
  BY <1>1 DEF Available, ProgramRow
<1>6. ViewAfter(p, outbox'[p]) =
        Consume(ViewAfter(p, outbox[p]), ToCapacityEventMessage(p, event))
  BY <1>1, StoredTells
<1> HIDE DEF program, old, rows
<1>7. ViewAfter(p, outbox'[p]) =
        View(old.creditLimit, old.status, Available(program), Available(program) < 0,
             IF after.status = "RELEASED" THEN ActiveIn(rows) \ {id} ELSE ActiveIn(rows))
  BY <1>3, <1>6, ReleasedTells
<1>8. ViewAfter(p, outbox'[p]) = StateView(program, reservations'[p])
  BY <1>1, <1>4, <1>5, <1>7 DEF StateView
<1>9. QED
  BY <1>1, <1>8, OthersStillTold DEF Told, program

\* The opening of a program is told.
LEMMA OpenedIsTold ==
  ASSUME TypeInv, TypeInv', LoadInv, ToldInv, NEW message \in TreasuryMessage,
         NEW p, NEW after, OpenedWith(message, p, after)
  PROVE  ToldInv'
<1>1. /\ p \in ProgramIds /\ programs[p] = None
      /\ programs'[p] = after /\ after \in ProgramRow /\ after.reserved = 0
      /\ outbox'[p] = Append(outbox[p], ProgramOpened(after))
      /\ reservations'[p] = reservations[p] /\ OthersKept(p)
  BY DEF OpenedWith
<1>2. ActiveIn(reservations'[p]) = {}
  BY <1>1 DEF LoadInv, RowsLoad, ActiveIn
<1>3. ViewAfter(p, outbox'[p]) =
        View(after.creditLimit, after.status, after.creditLimit, FALSE, {})
  BY <1>1, StoredTells, OpenedTells
<1>4. after.creditLimit \in Nat
  BY <1>1 DEF ProgramRow
<1>5. Available(after) = after.creditLimit /\ ~ (after.reserved > after.creditLimit)
  BY <1>1, <1>4 DEF Available
<1>6. ViewAfter(p, outbox'[p]) = StateView(after, reservations'[p])
  <2>1. (after.reserved > after.creditLimit) = FALSE
    BY <1>5, SMT
  <2>2. QED
    BY <1>2, <1>3, <1>5, <2>1 DEF StateView
<1>7. QED
  BY <1>1, <1>6, OthersStillTold DEF Told

\* Adding the one or two events of an update is adding each.
LEMMA AddedOneByOne ==
  ASSUME NEW S, NEW s \in Seq(S), NEW a \in S, NEW b \in S
  PROVE  /\ s \o (<<>> \o <<>>) = s
         /\ s \o (<<a>> \o <<>>) = Append(s, a)
         /\ s \o (<<>> \o <<b>>) = Append(s, b)
         /\ s \o (<<a>> \o <<b>>) = Append(Append(s, a), b)
<1>1. s \o (<<>> \o <<>>) = s
  OBVIOUS
<1>2. s \o (<<a>> \o <<>>) = Append(s, a)
  OBVIOUS
<1>3. s \o (<<>> \o <<b>>) = Append(s, b)
  OBVIOUS
<1>4. s \o (<<a>> \o <<b>>) = Append(Append(s, a), b)
  OBVIOUS
<1>5. QED
  BY <1>1, <1>2, <1>3, <1>4

\* An update is told, one event for each thing it changed.
LEMMA UpdatedIsTold ==
  ASSUME TypeInv, TypeInv', ToldInv, NEW message \in TreasuryMessage,
         NEW p, NEW before, NEW after, UpdatedWith(message, p, before, after)
  PROVE  ToldInv'
<1> DEFINE program == programs'[p]
           rows == reservations[p]
           events == outbox[p]
           limitChanged == [type |-> "CreditLimitChanged",
                            creditLimit |-> after.creditLimit, reserved |-> after.reserved]
           statusChanged == [type |-> "ProgramStatusChanged", status |-> after.status]
           limited == IF after.creditLimit = before.creditLimit THEN events
                      ELSE Append(events, limitChanged)
           told == IF after.status = before.status THEN limited
                   ELSE Append(limited, statusChanged)
<1>1. /\ p \in ProgramIds /\ before = programs[p]
      /\ before \in ProgramRow /\ after \in ProgramRow
      /\ after.reserved = before.reserved
      /\ program.reserved = before.reserved
      /\ program.creditLimit = after.creditLimit
      /\ program.status = after.status
      /\ outbox'[p] = events \o TreasuryUpdateEvents(before, after)
      /\ reservations'[p] = rows /\ OthersKept(p)
  BY DEF UpdatedWith
<1>2. events \in Seq(OutboxEvent) /\ before # None
  BY <1>1, TablesTyped, NullAssumption
<1>3. limitChanged \in OutboxEvent /\ statusChanged \in OutboxEvent
  BY <1>1 DEF ProgramRow, OutboxEvent
<1>4. outbox'[p] = told
  <2> HIDE DEF limitChanged, statusChanged, events
  <2>1. TreasuryUpdateEvents(before, after) =
          (IF after.creditLimit = before.creditLimit THEN <<>> ELSE <<limitChanged>>) \o
          (IF after.status = before.status THEN <<>> ELSE <<statusChanged>>)
    BY DEF TreasuryUpdateEvents, limitChanged, statusChanged
  <2>2. /\ events \o (<<>> \o <<>>) = events
        /\ events \o (<<limitChanged>> \o <<>>) = Append(events, limitChanged)
        /\ events \o (<<>> \o <<statusChanged>>) = Append(events, statusChanged)
        /\ events \o (<<limitChanged>> \o <<statusChanged>>) =
             Append(Append(events, limitChanged), statusChanged)
    BY <1>2, <1>3, AddedOneByOne
  <2>3. outbox'[p] = events \o TreasuryUpdateEvents(before, after)
    BY <1>1
  <2>4. CASE after.creditLimit = before.creditLimit
    BY <2>1, <2>2, <2>3, <2>4
  <2>5. CASE after.creditLimit # before.creditLimit
    BY <2>1, <2>2, <2>3, <2>5
  <2>6. QED
    BY <2>4, <2>5
<1>5. ViewAfter(p, events) =
        View(before.creditLimit, before.status, Available(before),
             before.reserved > before.creditLimit, ActiveIn(rows))
  BY <1>1, <1>2 DEF ToldInv, Told, StateView
<1>6. /\ before.reserved \in Nat /\ before.creditLimit \in Nat /\ after.creditLimit \in Nat
  BY <1>1 DEF ProgramRow
<1> HIDE DEF rows, events, program
<1>7. /\ ViewAfter(p, limited) =
           View(after.creditLimit, before.status, after.creditLimit - after.reserved,
                after.reserved > after.creditLimit, ActiveIn(rows))
      /\ limited \in Seq(OutboxEvent)
  <2>1. CASE after.creditLimit = before.creditLimit
    BY <1>1, <1>2, <1>5, <2>1 DEF Available
  <2>2. CASE after.creditLimit # before.creditLimit
    <3>1. ViewAfter(p, limited) =
            Consume(ViewAfter(p, events), ToCapacityEventMessage(p, limitChanged))
      <4> HIDE DEF limitChanged
      <4>1. QED
        BY <1>2, <1>3, <2>2, EventConsumed
    <3>2. ViewAfter(p, limited) =
            View(after.creditLimit, before.status, after.creditLimit - after.reserved,
                 after.reserved > after.creditLimit, ActiveIn(rows))
      BY <1>5, <3>1, LimitTells
    <3>3. QED
      BY <1>2, <1>3, <2>2, <3>2
  <2>3. QED
    BY <2>1, <2>2
<1> HIDE DEF limited, limitChanged
<1>8. ViewAfter(p, told) =
        View(after.creditLimit, after.status, after.creditLimit - after.reserved,
             after.reserved > after.creditLimit, ActiveIn(rows))
  <2>1. CASE after.status = before.status
    BY <1>7, <2>1
  <2>2. CASE after.status # before.status
    <3>1. ViewAfter(p, told) =
            Consume(ViewAfter(p, limited), ToCapacityEventMessage(p, statusChanged))
      <4> HIDE DEF statusChanged
      <4>1. QED
        BY <1>3, <1>7, <2>2, EventConsumed
    <3>2. QED
      BY <1>7, <3>1, StatusTells
  <2>3. QED
    BY <2>1, <2>2
<1>9. StateView(program, rows) =
        View(after.creditLimit, after.status, after.creditLimit - after.reserved,
             after.reserved > after.creditLimit, ActiveIn(rows))
  BY <1>1 DEF StateView, Available
<1> HIDE DEF told
<1>10. Told(p, program, reservations'[p], outbox'[p])
  BY <1>1, <1>4, <1>8, <1>9 DEF Told
<1>11. QED
  BY <1>1, <1>10, OthersStillTold DEF program

\* Every command tells what it changed.
LEMMA NextTold == TypeInv /\ TypeInv' /\ LoadInv /\ ToldInv /\ Next => ToldInv'
<1> SUFFICES ASSUME TypeInv, TypeInv', LoadInv, ToldInv, Next PROVE ToldInv'
  OBVIOUS
<1>1. ASSUME NEW message \in TreasuryMessage, NEW p, IgnoredStale(message, p)
      PROVE  ToldInv'
  <2>1. /\ p \in ProgramIds /\ programs'[p] = programs[p] /\ outbox'[p] = outbox[p]
        /\ reservations'[p] = reservations[p] /\ OthersKept(p)
    BY <1>1 DEF IgnoredStale
  <2>2. Told(p, programs'[p], reservations'[p], outbox'[p])
    BY <2>1 DEF ToldInv
  <2>3. QED
    BY <2>1, <2>2, OthersStillTold
<1>2. QED
  BY <1>1, ReservedIsTold, RepaidIsTold, OpenedIsTold, UpdatedIsTold, NextEffects

\* Whoever has read a program's messages knows the program.
THEOREM MessagesTell == Spec => []EventsTellTheState
<1>1. Init => ToldInv
  BY DEF Init, ToldInv, Told
<1>2. TypeInv /\ TypeInv' /\ LoadInv /\ ToldInv /\ [Next]_vars => ToldInv'
  <2>1. UNCHANGED vars /\ ToldInv => ToldInv'
    BY DEF vars, ToldInv
  <2>2. QED
    BY <2>1, NextTold
<1>3. ToldInv => EventsTellTheState
  BY ToldImplies
<1>4. QED
  BY <1>1, <1>2, <1>3, LoadInvariant, PTL DEF Spec
=============================================================================
