-------------------------- MODULE CapacityProofs --------------------------
(***************************************************************************)
(* Proofs about Capacity, for every set of programs, invoices, keys,       *)
(* amounts, rates and messages.                                            *)
(*                                                                         *)
(* TypeOK alone is not inductive: that a repayment leaves the counter a    *)
(* natural rests on what a reservation frees growing with what is repaid,  *)
(* and never beyond what it reserved, which is RowsAccount.                *)
(***************************************************************************)
EXTENDS Capacity, ArithmeticTheorems

\* Each reservation's amounts are what its aggregate computes.
RowsAccount ==
  \A p \in ProgramIds : \A i \in DOMAIN reservations[p] : RowAccounts(reservations[p][i])

TypeInv == TypeOK /\ RowsAccount

-----------------------------------------------------------------------------
(* What an answer says of the checks that were made before it.             *)

\* ReserveCapacityHandler creates a reservation only when the request repeats
\* none, and reserveFor then refuses nothing.
LEMMA ReserveCreated ==
  ASSUME NEW program, NEW rows, NEW request, NEW rate,
         ReserveAnswer(program, rows, request, rate) = "CREATED"
  PROVE  /\ program # None /\ Repeated(rows, request) = {}
         /\ request.key # None => ActiveFor(rows, request.invoice) = {}
         /\ request.key = None => ReleasedFor(rows, request.invoice) = {}
         /\ rate # Unavailable
         /\ program.status = "ACTIVE"
         /\ ~ (request.amount.minor <= 0)
         /\ ~ (ToProgramCurrency(request.amount, rate) > Available(program))
<1>1. ReserveRefusal(program, request.amount, rate) # "CREATED"
  BY Zenon DEF ReserveRefusal
<1>2. /\ program # None /\ Repeated(rows, request) = {}
      /\ request.key # None => ActiveFor(rows, request.invoice) = {}
      /\ request.key = None => ReleasedFor(rows, request.invoice) = {}
      /\ rate # Unavailable
      /\ ReserveRefusal(program, request.amount, rate) = "ACCEPTED"
  BY <1>1 DEF ReserveAnswer
<1>3. QED
  BY <1>2, Zenon DEF ReserveRefusal

\* RecordRepaymentHandler applies a repayment only under an id the ledger does not
\* have, to an active reservation, and release then refuses nothing.
LEMMA RepayApplied ==
  ASSUME NEW program, NEW rows, NEW ledger, NEW request,
         RepayAnswer(program, rows, ledger, request) = "APPLIED",
         NEW reservation, reservation = rows[ActiveId(rows, request.invoice)],
         NEW amount, amount = RepaidAmount(reservation, request)
  PROVE  /\ program # None /\ RepaymentsRecorded(ledger, request.repayment) = {}
         /\ ActiveFor(rows, request.invoice) # {}
         /\ ~ (Held(reservation) > program.reserved)
         /\ ~ (amount.minor <= 0)
         /\ ~ (amount.minor > Outstanding(reservation))
<1>1. ReleaseRefusal(program, reservation, amount) # "APPLIED"
  BY SMT DEF ReleaseRefusal, RepaymentRefusal
<1>2. /\ program # None /\ RepaymentsRecorded(ledger, request.repayment) = {}
      /\ ActiveFor(rows, request.invoice) # {}
      /\ ReleaseRefusal(program, reservation, amount) = "ACCEPTED"
  BY <1>1 DEF RepayAnswer
<1>3. QED
  BY <1>2, SMT DEF ReleaseRefusal, RepaymentRefusal

\* ApplyTreasuryUpdateHandler opens a program only when it is not known and the
\* message names a positive limit.
LEMMA TreasuryCreated ==
  ASSUME NEW program, NEW message, TreasuryAnswer(program, message) = "CREATED"
  PROVE  program = None /\ message.limit # None /\ ~ (message.limit.minor <= 0)
<1>1. TreasuryRefusal(program, message) # "CREATED"
  BY Zenon DEF TreasuryRefusal
<1>2. QED
  BY <1>1, Zenon DEF TreasuryAnswer

\* It updates a known program from a message newer than the state applied, and
\* any limit the message names is positive and in the program's currency.
LEMMA TreasuryApplied ==
  ASSUME NEW program, NEW message, TreasuryAnswer(program, message) = "APPLIED"
  PROVE  /\ program # None
         /\ ~ (message.sequence <= program.treasurySequence)
         /\ message.limit # None => /\ message.limit.currency = program.currency
                                    /\ ~ (message.limit.minor <= 0)
<1>1. program # None /\ TreasuryRefusal(program, message) = "ACCEPTED"
  <2>1. TreasuryRefusal(program, message) # "APPLIED"
    BY Zenon DEF TreasuryRefusal
  <2>2. QED
    BY <2>1, Zenon DEF TreasuryAnswer
<1>2. QED
  BY <1>1, Zenon DEF TreasuryRefusal

-----------------------------------------------------------------------------
(* What each operation computes has the right type.                        *)

\* A reservation that is created holds a positive amount that was available.
LEMMA ReserveDecides ==
  ASSUME TypeInv, NEW request \in ReserveRequest, programs[request.program] # None,
         NEW rate \in RatesInto(programs[request.program].currency, request.amount),
         ReserveAnswer(programs[request.program], reservations[request.program],
                       request, rate) = "CREATED",
         NEW toHold, toHold = ToProgramCurrency(request.amount, rate),
         NEW row, row = OpenReservation(request.invoice, request.key, request.amount, rate, toHold)
  PROVE  /\ request.program \in ProgramIds
         /\ programs[request.program] \in ProgramRow
         /\ toHold \in Nat \ {0}
         /\ toHold <= Available(programs[request.program])
         /\ row \in ReservationRow
         /\ RowAccounts(row)
<1> DEFINE p == request.program
           program == programs[p]
<1>1. /\ p \in ProgramIds /\ program \in ProgramRow
      /\ request.invoice \in InvoiceIds
      /\ request.key \in ReservationKeys \union {None}
      /\ request.amount \in Money
  BY ConstantsAssumption DEF TypeInv, TypeOK, ReserveRequest
<1>2. request.amount.minor \in Int /\ request.amount.currency \in Currencies
  BY <1>1, MaxMinorUnitsAssumption DEF Money
<1>3. /\ rate # Unavailable
      /\ ~ (request.amount.minor <= 0)
      /\ ~ (toHold > Available(program))
  BY ReserveCreated
<1>4. request.amount.minor \in Nat \ {0}
  BY <1>2, <1>3
<1>5. rate \in ExchangeRate \union {None}
  <2>1. program.currency \in Currencies
    BY <1>1 DEF ProgramRow
  <2>2. <<request.amount.currency, program.currency>> \in Currencies \X Currencies
    BY <1>2, <2>1
  <2>3. Quotes[<<request.amount.currency, program.currency>>] \subseteq ExchangeRate
    BY <2>2, ConstantsAssumption
  <2>4. QED
    BY <1>3, <2>3 DEF RatesInto
<1>6. toHold \in Nat \ {0} /\ toHold <= Available(program)
  <2>1. toHold \in Nat \ {0}
    BY <1>4, <1>5, NullAssumption, ConvertBounds, ConvertOrder DEF ToProgramCurrency
  <2>2. Available(program) \in Int
    BY <1>1 DEF ProgramRow, Available
  <2>3. QED
    BY <1>3, <2>1, <2>2
<1>7. row \in ReservationRow
  BY <1>1, <1>2, <1>4, <1>5, <1>6 DEF OpenReservation, ReservationRow, ReservationStatuses
<1>8. ReleasedOnceRepaid(row, 0) = 0
  <2>1. row.invoiceMinor # 0 /\ row.rate = rate
    BY <1>4 DEF OpenReservation
  <2>2. CASE rate = None
    BY <2>1, <2>2 DEF ReleasedOnceRepaid
  <2>3. CASE rate \in ExchangeRate
    <3>1. rate.num \in Nat /\ rate.den \in Nat \ {0}
      BY <2>3 DEF ExchangeRate
    <3>2. Convert(0, rate, "FLOOR") = 0
      BY <3>1 DEF Convert, DivideWithRounding, Quotient
    <3>3. QED
      BY <2>1, <2>3, <3>2, NullAssumption DEF ReleasedOnceRepaid
  <2>4. QED
    BY <1>5, <2>2, <2>3
<1>9. RowAccounts(row)
  BY <1>1, <1>4, <1>8 DEF RowAccounts, OpenReservation, Money, ToProgramCurrency
<1>10. QED
  BY <1>1, <1>4, <1>6, <1>7, <1>9

\* What a request that creates a reservation computes.
LEMMA ReserveComputes ==
  ASSUME TypeInv, NEW request \in ReserveRequest, programs[request.program] # None,
         NEW rate \in RatesInto(programs[request.program].currency, request.amount),
         ReserveCapacity(request, rate),
         NEW toHold, toHold = ToProgramCurrency(request.amount, rate),
         NEW row, row = OpenReservation(request.invoice, request.key, request.amount, rate, toHold)
  PROVE  /\ request.program \in ProgramIds
         /\ programs[request.program] \in ProgramRow
         /\ toHold \in Nat \ {0}
         /\ toHold <= Available(programs[request.program])
         /\ row \in ReservationRow
         /\ RowAccounts(row)
<1>1. ReserveAnswer(programs[request.program], reservations[request.program],
                    request, rate) = "CREATED"
  BY DEF ReserveCapacity
<1>2. QED
  BY <1>1, ReserveDecides

\* The reservation a repayment goes to is an active one of the invoice.
LEMMA ActiveIdIsActive ==
  ASSUME NEW rows, NEW invoice, ActiveFor(rows, invoice) # {}
  PROVE  /\ ActiveId(rows, invoice) \in DOMAIN rows
         /\ rows[ActiveId(rows, invoice)].invoice = invoice
         /\ rows[ActiveId(rows, invoice)].status = "ACTIVE"
<1>1. ActiveId(rows, invoice) \in ActiveFor(rows, invoice)
  BY DEF ActiveId
<1>2. QED
  BY <1>1 DEF ActiveFor

\* Recording a repayment of no more than what is outstanding leaves a row whose
\* amounts are in order, and frees no more than the reservation held.
LEMMA RepaymentRecorded ==
  ASSUME NEW before \in ReservationRow, RowAccounts(before),
         NEW minor \in Nat \ {0}, minor <= Outstanding(before)
  PROVE  LET after == RecordRepayment(before, minor)
         IN  /\ after \in ReservationRow /\ RowAccounts(after)
             /\ SameTerms(before, after)
             /\ after.repaid - before.repaid \in Nat \ {0}
             /\ after.released - before.released \in Nat
             /\ after.released - before.released <= Held(before)
<1> DEFINE after == RecordRepayment(before, minor)
           repaid == before.repaid + minor
           released == ReleasedOnceRepaid(before, repaid)
<1>1. /\ before.invoiceMinor \in Nat \ {0} /\ before.repaid \in Nat
      /\ before.reserved \in Nat \ {0} /\ before.released \in Nat
      /\ before.rate \in ExchangeRate \union {None}
  BY DEF ReservationRow
<1>2. repaid \in Nat /\ before.repaid <= repaid /\ repaid <= before.invoiceMinor
  BY <1>1 DEF Outstanding
<1>3. repaid - before.repaid \in Nat \ {0}
  BY <1>1
<1>4. after = [before EXCEPT !.repaid   = repaid,
                             !.released = released,
                             !.status   = IF repaid = before.invoiceMinor THEN "RELEASED" ELSE @]
  BY DEF RecordRepayment
<1> HIDE DEF after, repaid
<1>5. released \in Nat /\ before.released <= released /\ released <= before.reserved
  <2>1. before.released = ReleasedOnceRepaid(before, before.repaid)
    BY DEF RowAccounts
  <2>2. None \notin ExchangeRate
    BY NullAssumption
  <2>3. QED
    BY <1>1, <1>2, <2>1, <2>2, ReleaseGrows
<1> HIDE DEF released
<1>6. released - before.released \in Nat /\ released - before.released <= Held(before)
  BY <1>1, <1>5 DEF Held
<1>7. after \in ReservationRow
  <2>1. (IF repaid = before.invoiceMinor THEN "RELEASED" ELSE before.status) \in ReservationStatuses
    BY DEF ReservationRow, ReservationStatuses
  <2>2. QED
    BY <1>2, <1>4, <1>5, <2>1 DEF ReservationRow
<1>8. /\ after.repaid = repaid /\ after.released = released
      /\ after.status = IF repaid = before.invoiceMinor THEN "RELEASED" ELSE before.status
      /\ after.invoiceMinor = before.invoiceMinor /\ after.rate = before.rate
      /\ after.reserved = before.reserved /\ after.invoiceCurrency = before.invoiceCurrency
      /\ after.invoice = before.invoice /\ after.key = before.key
  BY <1>4 DEF ReservationRow
<1>9. RowAccounts(after)
  <2>1. ReleasedOnceRepaid(after, repaid) = ReleasedOnceRepaid(before, repaid)
    BY <1>8 DEF ReleasedOnceRepaid
  <2>2. /\ after.reserved = ToProgramCurrency([minor |-> after.invoiceMinor,
                                               currency |-> after.invoiceCurrency], after.rate)
    BY <1>8 DEF RowAccounts
  <2>3. after.released = ReleasedOnceRepaid(after, after.repaid)
    BY <1>8, <2>1 DEF released
  <2>4. before.status = "ACTIVE"
    BY <1>1, <1>2, <1>3 DEF RowAccounts
  <2>5. after.status = IF after.repaid = after.invoiceMinor THEN "RELEASED" ELSE "ACTIVE"
    BY <1>8, <2>4
  <2>6. after.repaid <= after.invoiceMinor
    BY <1>2, <1>8
  <2>7. QED
    BY <2>2, <2>3, <2>5, <2>6 DEF RowAccounts
<1>10. SameTerms(before, after)
  BY <1>8 DEF SameTerms
<1>11. QED
  BY <1>3, <1>6, <1>7, <1>8, <1>9, <1>10 DEF after

\* A repayment that is applied frees no more than the counter has.
LEMMA RepayDecides ==
  ASSUME TypeInv, NEW request \in RepaymentRequest, NEW p, p = request.program,
         RepayAnswer(programs[p], reservations[p], movements[p], request) = "APPLIED",
         NEW id, id = ActiveId(reservations[p], request.invoice),
         NEW before, before = reservations[p][id],
         NEW after, after = RecordRepayment(before, RepaidAmount(before, request).minor)
  PROVE  /\ p \in ProgramIds /\ programs[p] \in ProgramRow
         /\ id \in DOMAIN reservations[p]
         /\ before \in ReservationRow /\ before.status = "ACTIVE"
         /\ before.invoice = request.invoice
         /\ after \in ReservationRow /\ RowAccounts(after)
         /\ SameTerms(before, after)
         /\ after.repaid - before.repaid \in Nat \ {0}
         /\ after.released - before.released \in Nat
         /\ after.released - before.released <= programs[p].reserved
<1>1. p \in ProgramIds /\ request.repayment \in RepaymentIds
  BY DEF RepaymentRequest
<1>2. /\ programs[p] # None
      /\ ActiveFor(reservations[p], request.invoice) # {}
      /\ ~ (Held(before) > programs[p].reserved)
      /\ ~ (RepaidAmount(before, request).minor <= 0)
      /\ ~ (RepaidAmount(before, request).minor > Outstanding(before))
  BY RepayApplied
<1>3. programs[p] \in ProgramRow
  BY <1>1, <1>2 DEF TypeInv, TypeOK
<1>4. id \in DOMAIN reservations[p] /\ before.invoice = request.invoice /\ before.status = "ACTIVE"
  BY <1>2, ActiveIdIsActive
<1>5. before \in ReservationRow /\ RowAccounts(before)
  <2>1. reservations[p] \in Seq(ReservationRow)
    BY <1>1 DEF TypeInv, TypeOK
  <2>2. before \in ReservationRow
    BY <1>4, <2>1
  <2>3. RowAccounts(before)
    BY <1>1, <1>4 DEF TypeInv, RowsAccount
  <2>4. QED
    BY <2>2, <2>3
<1>6. /\ Outstanding(before) \in Int /\ Held(before) \in Int /\ programs[p].reserved \in Nat
  <2>1. programs[p].reserved \in Nat
    BY <1>3 DEF ProgramRow
  <2>2. /\ before.invoiceMinor \in Nat /\ before.repaid \in Nat
        /\ before.reserved \in Nat /\ before.released \in Nat
    BY <1>5 DEF ReservationRow
  <2>3. QED
    BY <2>1, <2>2 DEF Held, Outstanding
<1> DEFINE minor == RepaidAmount(before, request).minor
<1>7. minor \in Int
  <2>1. CASE request.amount = None
    BY <1>6, <2>1 DEF RepaidAmount
  <2>2. CASE request.amount \in Money
    BY <2>2, NullAssumption, MaxMinorUnitsAssumption DEF RepaidAmount, Money
  <2>3. QED
    BY <2>1, <2>2, ConstantsAssumption DEF RepaymentRequest
<1>8. ~ (minor <= 0) /\ ~ (minor > Outstanding(before)) /\ ~ (Held(before) > programs[p].reserved)
  BY <1>2
<1>9. after = RecordRepayment(before, minor)
  OBVIOUS
<1> HIDE DEF minor
<1>10. minor \in Nat \ {0} /\ minor <= Outstanding(before) /\ Held(before) <= programs[p].reserved
  BY <1>6, <1>7, <1>8
<1>11. /\ after \in ReservationRow /\ RowAccounts(after) /\ SameTerms(before, after)
       /\ after.repaid - before.repaid \in Nat \ {0}
       /\ after.released - before.released \in Nat
       /\ after.released - before.released <= Held(before)
  BY <1>5, <1>9, <1>10, RepaymentRecorded
<1> DEFINE freed == after.released - before.released
<1>12. freed \in Nat /\ freed <= Held(before)
  BY <1>11
<1> HIDE DEF freed
<1>13. freed <= programs[p].reserved
  BY <1>6, <1>10, <1>12
<1>14. QED
  BY <1>1, <1>3, <1>4, <1>5, <1>11, <1>13 DEF freed

\* What a repayment that is applied computes.
LEMMA RepayComputes ==
  ASSUME TypeInv, NEW request \in RepaymentRequest, RecordRepaymentFor(request),
         NEW p, p = request.program,
         NEW id, id = ActiveId(reservations[p], request.invoice),
         NEW before, before = reservations[p][id],
         NEW after, after = RecordRepayment(before, RepaidAmount(before, request).minor)
  PROVE  /\ p \in ProgramIds /\ programs[p] \in ProgramRow
         /\ id \in DOMAIN reservations[p]
         /\ before \in ReservationRow /\ before.status = "ACTIVE"
         /\ before.invoice = request.invoice
         /\ after \in ReservationRow /\ RowAccounts(after)
         /\ SameTerms(before, after)
         /\ after.repaid - before.repaid \in Nat \ {0}
         /\ after.released - before.released \in Nat
         /\ after.released - before.released <= programs[p].reserved
<1>1. RepayAnswer(programs[p], reservations[p], movements[p], request) = "APPLIED"
  BY DEF RecordRepaymentFor
<1>2. QED
  BY <1>1, RepayDecides

-----------------------------------------------------------------------------
(* Types.                                                                  *)

\* Nothing is stored to begin with.
LEMMA InitTypes == Init => TypeInv
BY DEF Init, TypeInv, TypeOK, RowsAccount

\* Adding a row to the rows of one program.
LEMMA RowAdded ==
  ASSUME NEW Programs, NEW Rows, NEW table \in [Programs -> Seq(Rows)],
         NEW p \in Programs, NEW row \in Rows
  PROVE  [table EXCEPT ![p] = Append(@, row)] \in [Programs -> Seq(Rows)]
<1>1. Append(table[p], row) \in Seq(Rows)
  OBVIOUS
<1>2. QED
  BY <1>1

\* Writing a program's row.
LEMMA RowWritten ==
  ASSUME NEW table \in [ProgramIds -> ProgramRow \union {None}],
         NEW p \in ProgramIds, NEW row \in ProgramRow
  PROVE  [table EXCEPT ![p] = row] \in [ProgramIds -> ProgramRow \union {None}]
OBVIOUS

\* A program whose counter is written anew, and nothing else but its version.
LEMMA CounterWritten ==
  ASSUME NEW program \in ProgramRow, NEW reserved \in Nat,
         NEW after, after = WithReserved(program, reserved)
  PROVE  /\ after \in ProgramRow
         /\ after.reserved = reserved
         /\ after.creditLimit = program.creditLimit
         /\ after.currency = program.currency
         /\ after.status = program.status
         /\ after.treasurySequence = program.treasurySequence
         /\ Available(after) = program.creditLimit - reserved
         /\ Available(after) \in Int
<1>1. /\ program.currency \in Currencies /\ program.creditLimit \in Nat \ {0}
      /\ program.status \in ProgramStatuses /\ program.version \in Nat
      /\ program.treasurySequence \in Nat
  BY DEF ProgramRow
<1>2. after = [currency |-> program.currency, creditLimit |-> program.creditLimit,
               reserved |-> reserved, status |-> program.status,
               version |-> program.version + 1,
               treasurySequence |-> program.treasurySequence]
  BY DEF ProgramRow, WithReserved, Saved
<1>3. after \in ProgramRow
  BY <1>1, <1>2 DEF ProgramRow
<1>4. QED
  BY <1>1, <1>2, <1>3 DEF Available

\* A reservation that is created keeps the tables well typed.
LEMMA ReserveTypes ==
  ASSUME TypeInv, NEW request \in ReserveRequest, programs[request.program] # None,
         NEW rate \in RatesInto(programs[request.program].currency, request.amount),
         ReserveCapacity(request, rate)
  PROVE  TypeInv'
<1> DEFINE p == request.program
           toHold == ToProgramCurrency(request.amount, rate)
           row == OpenReservation(request.invoice, request.key, request.amount, rate, toHold)
           program == WithReserved(programs[p], programs[p].reserved + toHold)
           id == Len(reservations[p]) + 1
           movement == [type |-> "RESERVE", reservation |-> id, amount |-> toHold,
                        availableAfter |-> Available(program)]
           event == [type |-> "CapacityReserved", reservation |-> id,
                     availableAfter |-> Available(program)]
<1>1. /\ p \in ProgramIds /\ programs[p] \in ProgramRow
      /\ toHold \in Nat \ {0} /\ row \in ReservationRow /\ RowAccounts(row)
  BY ReserveComputes
<1>2. /\ programs' = [programs EXCEPT ![p] = program]
      /\ reservations' = [reservations EXCEPT ![p] = Append(@, row)]
      /\ movements' = [movements EXCEPT ![p] = Append(@, movement)]
      /\ outbox' = [outbox EXCEPT ![p] = Append(@, event)]
      /\ treasuryEvents' = treasuryEvents
  BY DEF ReserveCapacity, ReserveMovement, CapacityReserved
<1> HIDE DEF toHold, row
<1>3. programs[p].reserved + toHold \in Nat
  BY <1>1 DEF ProgramRow
<1>4. program \in ProgramRow /\ Available(program) \in Int
  BY <1>1, <1>3, CounterWritten
<1> HIDE DEF program
<1>5. reservations[p] \in Seq(ReservationRow)
  BY <1>1 DEF TypeInv, TypeOK
<1>6. id \in Nat \ {0}
  BY <1>5
<1> HIDE DEF id
<1>7. movement \in MovementRow /\ event \in OutboxEvent
  BY <1>1, <1>4, <1>6 DEF MovementRow, OutboxEvent
<1> HIDE DEF movement, event
<1>8. TypeOK'
  <2>1. programs' \in [ProgramIds -> ProgramRow \union {None}]
    BY <1>1, <1>2, <1>4, RowWritten DEF TypeInv, TypeOK
  <2>2. reservations' \in [ProgramIds -> Seq(ReservationRow)]
    BY <1>1, <1>2, RowAdded DEF TypeInv, TypeOK
  <2>3. movements' \in [ProgramIds -> Seq(MovementRow)]
    BY <1>1, <1>2, <1>7, RowAdded DEF TypeInv, TypeOK
  <2>4. outbox' \in [ProgramIds -> Seq(OutboxEvent)]
    BY <1>1, <1>2, <1>7, RowAdded DEF TypeInv, TypeOK
  <2>5. QED
    BY <1>2, <2>1, <2>2, <2>3, <2>4 DEF TypeInv, TypeOK
<1>9. RowsAccount'
  <2> SUFFICES ASSUME NEW q \in ProgramIds, NEW i \in DOMAIN reservations'[q]
               PROVE  RowAccounts(reservations'[q][i])
    BY DEF RowsAccount
  <2>1. CASE q = p /\ i = Len(reservations[p]) + 1
    BY <1>1, <1>2, <1>5, <2>1 DEF TypeInv, TypeOK
  <2>2. CASE ~ (q = p /\ i = Len(reservations[p]) + 1)
    <3>1. CASE q # p
      <4>1. reservations'[q] = reservations[q]
        BY <1>2, <3>1 DEF TypeInv, TypeOK
      <4>2. QED
        BY <4>1 DEF TypeInv, RowsAccount
    <3>2. CASE q = p
      <4>1. reservations'[p] = Append(reservations[p], row)
        BY <1>1, <1>2 DEF TypeInv, TypeOK
      <4>2. i \in DOMAIN reservations[p] /\ reservations'[p][i] = reservations[p][i]
        BY <1>5, <2>2, <3>2, <4>1
      <4>3. QED
        BY <1>1, <3>2, <4>2 DEF TypeInv, RowsAccount
    <3>3. QED
      BY <3>1, <3>2
  <2>3. QED
    BY <2>1, <2>2
<1>10. QED
  BY <1>8, <1>9 DEF TypeInv

\* A repayment that is applied keeps the tables well typed.
LEMMA RepayTypes ==
  ASSUME TypeInv, NEW request \in RepaymentRequest, RecordRepaymentFor(request)
  PROVE  TypeInv'
<1> DEFINE p == request.program
           id == ActiveId(reservations[p], request.invoice)
           before == reservations[p][id]
           after == RecordRepayment(before, RepaidAmount(before, request).minor)
           program == ReleaseFrom(programs[p], before, after)
           movement == ReleaseMovement(id, before, after, program, request.repayment)
           event == [type |-> "CapacityReleased", reservation |-> id,
                     availableAfter |-> Available(program),
                     fullyReleased |-> after.status = "RELEASED"]
<1>1. /\ p \in ProgramIds /\ programs[p] \in ProgramRow
      /\ id \in DOMAIN reservations[p]
      /\ before \in ReservationRow /\ after \in ReservationRow /\ RowAccounts(after)
      /\ after.repaid - before.repaid \in Nat \ {0}
      /\ after.released - before.released \in Nat
      /\ after.released - before.released <= programs[p].reserved
  BY RepayComputes
<1>2. /\ programs' = [programs EXCEPT ![p] = program]
      /\ reservations' = [reservations EXCEPT ![p][id] = after]
      /\ movements' = [movements EXCEPT ![p] = Append(@, movement)]
      /\ outbox' = [outbox EXCEPT ![p] = Append(@, event)]
      /\ treasuryEvents' = treasuryEvents
  BY DEF RecordRepaymentFor, CapacityReleased
<1> HIDE DEF after, before, id
<1>3. programs[p].reserved - (after.released - before.released) \in Nat
  BY <1>1 DEF ProgramRow
<1>4. program \in ProgramRow /\ Available(program) \in Int
  BY <1>1, <1>3, CounterWritten DEF ReleaseFrom
<1> HIDE DEF program
<1>5. reservations[p] \in Seq(ReservationRow)
  BY <1>1 DEF TypeInv, TypeOK
<1>6. id \in Nat \ {0}
  BY <1>1, <1>5
<1>7. movement \in MovementRow
  <2>1. request.repayment \in RepaymentIds /\ after.invoiceCurrency \in Currencies
    BY <1>1 DEF RepaymentRequest, ReservationRow
  <2>2. QED
    BY <1>1, <1>4, <1>6, <2>1 DEF MovementRow, ReleaseMovement
<1>8. event \in OutboxEvent
  BY <1>4, <1>6 DEF OutboxEvent
<1> HIDE DEF movement, event
<1>9. [reservations[p] EXCEPT ![id] = after] \in Seq(ReservationRow)
  BY <1>1, <1>5
<1>10. TypeOK'
  <2>1. programs' \in [ProgramIds -> ProgramRow \union {None}]
    BY <1>1, <1>2, <1>4, RowWritten DEF TypeInv, TypeOK
  <2>2. reservations' \in [ProgramIds -> Seq(ReservationRow)]
    BY <1>1, <1>2, <1>9 DEF TypeInv, TypeOK
  <2>3. movements' \in [ProgramIds -> Seq(MovementRow)]
    BY <1>1, <1>2, <1>7, RowAdded DEF TypeInv, TypeOK
  <2>4. outbox' \in [ProgramIds -> Seq(OutboxEvent)]
    BY <1>1, <1>2, <1>8, RowAdded DEF TypeInv, TypeOK
  <2>5. QED
    BY <1>2, <2>1, <2>2, <2>3, <2>4 DEF TypeInv, TypeOK
<1>11. RowsAccount'
  <2> SUFFICES ASSUME NEW q \in ProgramIds, NEW i \in DOMAIN reservations'[q]
               PROVE  RowAccounts(reservations'[q][i])
    BY DEF RowsAccount
  <2>1. CASE q = p /\ i = id
    BY <1>1, <1>2, <2>1 DEF TypeInv, TypeOK
  <2>2. CASE ~ (q = p /\ i = id)
    <3>1. i \in DOMAIN reservations[q] /\ reservations'[q][i] = reservations[q][i]
      BY <1>1, <1>2, <2>2 DEF TypeInv, TypeOK
    <3>2. QED
      BY <3>1 DEF TypeInv, RowsAccount
  <2>3. QED
    BY <2>1, <2>2
<1>12. QED
  BY <1>10, <1>11 DEF TypeInv

\* A message has a sequence, and any limit and status it names are amounts and
\* statuses.
LEMMA MessageTypes ==
  ASSUME NEW message \in TreasuryMessage
  PROVE  /\ message.program \in ProgramIds
         /\ message.sequence \in Nat
         /\ message.limit # None => /\ message.limit \in Money
                                    /\ message.limit.minor \in Int
                                    /\ message.limit.minor <= MaxMinorUnits
                                    /\ message.limit.currency \in Currencies
         /\ message.status # None => message.status \in ProgramStatuses
<1>1. message \in [program : ProgramIds, event : EventIds, sequence : Sequences,
                   limit : Limits \union {None}, status : ProgramStatuses \union {None}]
  BY DEF TreasuryMessage
<1>2. message.limit # None => message.limit \in Money
  BY <1>1, ConstantsAssumption
<1>3. \A amount \in Money : /\ amount.minor \in Int
                            /\ amount.minor <= MaxMinorUnits
                            /\ amount.currency \in Currencies
  BY MaxMinorUnitsAssumption DEF Money
<1>4. Sequences \subseteq Nat
  BY ConstantsAssumption
<1>5. QED
  BY <1>1, <1>2, <1>3, <1>4

\* The program a message opens.
LEMMA OpenDecides ==
  ASSUME NEW message \in TreasuryMessage,
         NEW before, TreasuryAnswer(before, message) = "CREATED",
         NEW status, status = (IF message.status = None THEN "ACTIVE" ELSE message.status),
         NEW program, program = OpenProgram(message.limit, status, message.sequence)
  PROVE  /\ before = None
         /\ program \in ProgramRow
         /\ status \in ProgramStatuses
         /\ program.reserved = 0
         /\ program.creditLimit = message.limit.minor
         /\ program.creditLimit <= MaxMinorUnits
<1>1. /\ before = None
      /\ message.limit # None
      /\ ~ (message.limit.minor <= 0)
  BY TreasuryCreated
<1>2. /\ message.sequence \in Nat
      /\ message.limit.minor \in Nat \ {0}
      /\ message.limit.minor <= MaxMinorUnits
      /\ message.limit.currency \in Currencies
  BY <1>1, MessageTypes
<1>3. status \in ProgramStatuses
  BY MessageTypes DEF ProgramStatuses
<1>4. QED
  BY <1>1, <1>2, <1>3 DEF OpenProgram, ProgramRow

\* The program that a message opens, when there is none.
LEMMA OpenComputes ==
  ASSUME NEW message \in TreasuryMessage,
         TreasuryAnswer(programs[message.program], message) = "CREATED",
         NEW status, status = (IF message.status = None THEN "ACTIVE" ELSE message.status),
         NEW program, program = OpenProgram(message.limit, status, message.sequence)
  PROVE  /\ programs[message.program] = None
         /\ program \in ProgramRow
         /\ status \in ProgramStatuses
         /\ program.reserved = 0
         /\ program.creditLimit = message.limit.minor
         /\ program.creditLimit <= MaxMinorUnits
BY OpenDecides

\* The program an update leaves: another limit and status perhaps, and the same
\* counter and currency.
LEMMA UpdateComputes ==
  ASSUME NEW message \in TreasuryMessage,
         NEW before, before \in ProgramRow \union {None},
         TreasuryAnswer(before, message) = "APPLIED",
         NEW after, after = ApplyTreasuryState(before, message),
         NEW saved, saved = Saved(after)
  PROVE  /\ before \in ProgramRow
         /\ after \in ProgramRow
         /\ saved \in ProgramRow
         /\ saved.reserved = before.reserved
         /\ saved.currency = before.currency
         /\ saved.creditLimit = after.creditLimit
         /\ saved.status = after.status
         /\ after.reserved = before.reserved
         /\ after.creditLimit =
              IF message.limit = None THEN before.creditLimit ELSE message.limit.minor
         /\ after.status = IF message.status = None THEN before.status ELSE message.status
         /\ saved.treasurySequence = message.sequence
         /\ message.sequence > before.treasurySequence
<1>1. /\ before \in ProgramRow
      /\ ~ (message.sequence <= before.treasurySequence)
      /\ message.limit # None => ~ (message.limit.minor <= 0)
  BY TreasuryApplied
<1>2. /\ message.sequence \in Nat
      /\ message.limit # None => message.limit.minor \in Nat \ {0}
      /\ message.status # None => message.status \in ProgramStatuses
  BY <1>1, MessageTypes
<1> DEFINE limit == IF message.limit = None THEN before.creditLimit ELSE message.limit.minor
           status == IF message.status = None THEN before.status ELSE message.status
<1>3. /\ before.currency \in Currencies /\ before.reserved \in Nat
      /\ before.version \in Nat /\ before.treasurySequence \in Nat
      /\ limit \in Nat \ {0} /\ status \in ProgramStatuses
  BY <1>1, <1>2 DEF ProgramRow
<1>4. after = [currency |-> before.currency, creditLimit |-> limit,
               reserved |-> before.reserved, status |-> status,
               version |-> before.version, treasurySequence |-> message.sequence]
  BY <1>1 DEF ProgramRow, ApplyTreasuryState
<1> HIDE DEF limit, status
<1>5. saved = [currency |-> before.currency, creditLimit |-> limit,
               reserved |-> before.reserved, status |-> status,
               version |-> before.version + 1, treasurySequence |-> message.sequence]
  BY <1>4 DEF Saved
<1>6. after \in ProgramRow /\ saved \in ProgramRow
  BY <1>2, <1>3, <1>4, <1>5 DEF ProgramRow
<1>7. QED
  BY <1>1, <1>2, <1>3, <1>4, <1>5, <1>6 DEF limit, status

\* What an update tells of are events.
LEMMA UpdateEventsTypes ==
  ASSUME NEW before \in ProgramRow, NEW after \in ProgramRow
  PROVE  TreasuryUpdateEvents(before, after) \in Seq(OutboxEvent)
<1> DEFINE limitChanged == [type |-> "CreditLimitChanged",
                            creditLimit |-> after.creditLimit, reserved |-> after.reserved]
           statusChanged == [type |-> "ProgramStatusChanged", status |-> after.status]
<1>1. limitChanged \in OutboxEvent /\ statusChanged \in OutboxEvent
  BY DEF ProgramRow, OutboxEvent
<1> HIDE DEF limitChanged, statusChanged
<1>2. <<limitChanged>> \in Seq(OutboxEvent) /\ <<statusChanged>> \in Seq(OutboxEvent)
  BY <1>1
<1>3. QED
  BY <1>2 DEF TreasuryUpdateEvents, limitChanged, statusChanged

\* Each of treasury's messages keeps the tables well typed.
LEMMA TreasuryTypes ==
  ASSUME TypeInv, NEW message \in TreasuryMessage,
         \/ OpenFromTreasury(message)
         \/ UpdateFromTreasury(message)
         \/ RecordStale(message)
  PROVE  TypeInv'
<1> DEFINE p == message.program
<1>1. p \in ProgramIds
  BY MessageTypes
<1>2. ASSUME NEW applied \in BOOLEAN, RecordTreasuryEvent(message, applied)
      PROVE  treasuryEvents' \in [ProgramIds -> Seq(TreasuryRow)]
  <2> DEFINE row == [message |-> message, applied |-> applied]
  <2>1. row \in TreasuryRow
    BY DEF TreasuryRow
  <2>2. treasuryEvents' = [treasuryEvents EXCEPT ![p] = Append(@, row)]
    BY <1>2 DEF RecordTreasuryEvent
  <2> HIDE DEF row
  <2>3. QED
    BY <1>1, <2>1, <2>2 DEF TypeInv, TypeOK
<1>3. CASE OpenFromTreasury(message)
  <2> DEFINE program == OpenedBy(message)
             event == [type |-> "ProgramOpened", creditLimit |-> program.creditLimit,
                       status |-> program.status]
  <2>1. program \in ProgramRow
    BY <1>3, OpenComputes DEF OpenFromTreasury, OpenedBy
  <2>2. /\ programs' = [programs EXCEPT ![p] = program]
        /\ RecordTreasuryEvent(message, TRUE)
        /\ outbox' = [outbox EXCEPT ![p] = Append(@, event)]
        /\ reservations' = reservations /\ movements' = movements
    BY <1>3 DEF OpenFromTreasury, ProgramOpened
  <2> HIDE DEF program
  <2>3. event \in OutboxEvent
    BY <2>1 DEF ProgramRow, OutboxEvent
  <2> HIDE DEF event
  <2>4. treasuryEvents' \in [ProgramIds -> Seq(TreasuryRow)]
    BY <1>2, <2>2
  <2>5. programs' \in [ProgramIds -> ProgramRow \union {None}]
    BY <1>1, <2>1, <2>2 DEF TypeInv, TypeOK
  <2>6. outbox' \in [ProgramIds -> Seq(OutboxEvent)]
    <3>1. Append(outbox[p], event) \in Seq(OutboxEvent)
      BY <1>1, <2>3 DEF TypeInv, TypeOK
    <3>2. QED
      BY <1>1, <2>2, <3>1 DEF TypeInv, TypeOK
  <2>7. QED
    BY <2>2, <2>4, <2>5, <2>6 DEF TypeInv, TypeOK, RowsAccount
<1>4. CASE UpdateFromTreasury(message)
  <2> DEFINE before == programs[p]
             after == ApplyTreasuryState(before, message)
             saved == Saved(after)
             events == TreasuryUpdateEvents(before, after)
  <2>1. before \in ProgramRow \union {None}
    BY <1>1 DEF TypeInv, TypeOK
  <2>2. before \in ProgramRow /\ after \in ProgramRow /\ saved \in ProgramRow
    BY <1>4, <2>1, UpdateComputes DEF UpdateFromTreasury
  <2>3. /\ programs' = [programs EXCEPT ![p] = saved]
        /\ RecordTreasuryEvent(message, TRUE)
        /\ outbox' = [outbox EXCEPT ![p] = @ \o events]
        /\ reservations' = reservations /\ movements' = movements
    BY <1>4 DEF UpdateFromTreasury
  <2>4. events \in Seq(OutboxEvent)
    BY <2>2, UpdateEventsTypes
  <2> HIDE DEF saved, events
  <2>5. treasuryEvents' \in [ProgramIds -> Seq(TreasuryRow)]
    BY <1>2, <2>3
  <2>6. outbox' \in [ProgramIds -> Seq(OutboxEvent)]
    <3>1. outbox[p] \o events \in Seq(OutboxEvent)
      BY <1>1, <2>4 DEF TypeInv, TypeOK
    <3>2. QED
      BY <1>1, <2>3, <3>1 DEF TypeInv, TypeOK
  <2>7. TypeOK'
    BY <1>1, <2>2, <2>3, <2>5, <2>6 DEF TypeInv, TypeOK
  <2>8. QED
    BY <2>3, <2>7 DEF TypeInv, RowsAccount
<1>5. CASE RecordStale(message)
  <2>1. /\ treasuryEvents' \in [ProgramIds -> Seq(TreasuryRow)]
        /\ UNCHANGED <<programs, reservations, movements, outbox>>
    BY <1>2, <1>5 DEF RecordStale
  <2>2. QED
    BY <2>1 DEF TypeInv, TypeOK, RowsAccount
<1>6. QED
  BY <1>3, <1>4, <1>5

\* Every step keeps the tables well typed.
LEMMA NextTypes == TypeInv /\ [Next]_vars => TypeInv'
<1> SUFFICES ASSUME TypeInv, [Next]_vars PROVE TypeInv'
  OBVIOUS
<1>1. CASE Reserve
  BY <1>1, ReserveTypes DEF Reserve
<1>2. CASE Repay
  BY <1>2, RepayTypes DEF Repay
<1>3. CASE Treasury
  BY <1>3, TreasuryTypes DEF Treasury
<1>4. CASE UNCHANGED vars
  BY <1>4 DEF vars, TypeInv, TypeOK, RowsAccount
<1>5. QED
  BY <1>1, <1>2, <1>3, <1>4 DEF Next

\* The tables are well typed and reservations' amounts in order at every moment.
LEMMA TypesInvariant == Spec => []TypeInv
<1>1. Init => TypeInv
  BY InitTypes
<1>2. TypeInv /\ [Next]_vars => TypeInv'
  BY NextTypes
<1>3. QED
  BY <1>1, <1>2, PTL DEF Spec

\* Every row of the five tables has the type its columns and checks give it: among
\* others the counter and what repayments free are never negative, and no
\* reservation is for nothing.
THEOREM TypeCorrectness == Spec => []TypeOK
<1>1. TypeInv => TypeOK
  BY DEF TypeInv
<1>2. QED
  BY <1>1, TypesInvariant, PTL

\* What a reservation holds never falls short of what its invoice still owes at
\* its own rate, nor reaches two minor units more, and is gone exactly when the
\* invoice is repaid: whatever the rate, the amount and the instalments.
THEOREM HoldTracks == Spec => []HoldTracksOutstanding
<1>1. TypeInv => HoldTracksOutstanding
  <2> SUFFICES ASSUME TypeInv, NEW p \in ProgramIds, NEW i \in DOMAIN reservations[p],
                      NEW r, r = reservations[p][i],
                      NEW num, num = IF r.rate = None THEN 1 ELSE r.rate.num,
                      NEW den, den = IF r.rate = None THEN 1 ELSE r.rate.den
               PROVE  /\ Held(r) * den >= Outstanding(r) * num
                      /\ Held(r) * den < Outstanding(r) * num + 2 * den
                      /\ r.status = "RELEASED" <=> Outstanding(r) = 0
                      /\ r.status = "RELEASED" <=> Held(r) = 0
    BY DEF HoldTracksOutstanding
  <2>1. RowAccounts(r) /\ r \in ReservationRow
    BY DEF TypeInv, TypeOK, RowsAccount
  <2>2. /\ r.invoiceMinor \in Nat \ {0} /\ r.repaid \in Nat
        /\ r.rate \in ExchangeRate \union {None}
    BY <2>1 DEF ReservationRow
  <2>3. QED
    BY <2>1, <2>2, HoldBounds, NullAssumption
<1>2. QED
  BY <1>1, TypesInvariant, PTL
=============================================================================
