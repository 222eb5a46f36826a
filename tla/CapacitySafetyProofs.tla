----------------------- MODULE CapacitySafetyProofs -----------------------
(***************************************************************************)
(* Proofs of the safety properties of Capacity, for every set of programs, *)
(* invoices, keys, amounts, rates and messages.  They rest on the typing   *)
(* invariant of CapacityProofs.                                            *)
(***************************************************************************)
EXTENDS CapacityProofs

-----------------------------------------------------------------------------
(* What the steps do to the rows, given that the tables are well typed.    *)

\* A reservation that is created is the last row of its program, and no other
\* program's rows change.
LEMMA ReserveRows ==
  ASSUME TypeInv, NEW request \in ReserveRequest, programs[request.program] # None,
         NEW rate \in RatesInto(programs[request.program].currency, request.amount),
         ReserveCapacity(request, rate),
         NEW p, p = request.program,
         NEW rows, rows = reservations[p],
         NEW row, row = OpenReservation(request.invoice, request.key, request.amount, rate,
                                        ToProgramCurrency(request.amount, rate))
  PROVE  /\ p \in ProgramIds
         /\ rows \in Seq(ReservationRow) /\ row \in ReservationRow
         /\ row.status = "ACTIVE" /\ row.released = 0 /\ row.repaid = 0
         /\ row.invoice = request.invoice /\ row.key = request.key
         /\ reservations'[p] = Append(rows, row)
         /\ \A q \in ProgramIds : q # p => reservations'[q] = reservations[q]
<1>1. p \in ProgramIds /\ row \in ReservationRow
  BY ReserveComputes
<1>2. reservations' = [reservations EXCEPT ![p] = Append(@, row)]
  BY DEF ReserveCapacity
<1>3. /\ row.status = "ACTIVE" /\ row.released = 0 /\ row.repaid = 0
      /\ row.invoice = request.invoice /\ row.key = request.key
  BY DEF OpenReservation
<1>4. reservations \in [ProgramIds -> Seq(ReservationRow)]
  BY DEF TypeInv, TypeOK
<1>5. QED
  BY <1>1, <1>2, <1>3, <1>4

\* A repayment that is applied changes one row of one program.
LEMMA RepayRows ==
  ASSUME TypeInv, NEW request \in RepaymentRequest, RecordRepaymentFor(request),
         NEW p, p = request.program,
         NEW rows, rows = reservations[p],
         NEW id, id = ActiveId(rows, request.invoice),
         NEW after, after = RecordRepayment(rows[id], RepaidAmount(rows[id], request).minor)
  PROVE  /\ rows \in Seq(ReservationRow)
         /\ reservations'[p] = [rows EXCEPT ![id] = after]
         /\ \A q \in ProgramIds : q # p => reservations'[q] = reservations[q]
<1>1. p \in ProgramIds
  BY DEF RepaymentRequest
<1>2. reservations' = [reservations EXCEPT ![p][id] = after]
  BY DEF RecordRepaymentFor
<1>3. reservations \in [ProgramIds -> Seq(ReservationRow)]
  BY DEF TypeInv, TypeOK
<1>4. QED
  BY <1>1, <1>2, <1>3

-----------------------------------------------------------------------------
(* The counter.                                                            *)

\* A reservation appended adds what it holds.
LEMMA HeldAppended ==
  ASSUME NEW rows \in Seq(ReservationRow), NEW row \in ReservationRow
  PROVE  TotalHeld(Append(rows, row)) = TotalHeld(rows) + Held(row)
<1> DEFINE n == Len(rows)
           v == [i \in DOMAIN rows |-> Held(rows[i])]
           longer == Append(rows, row)
           w == [i \in DOMAIN longer |-> Held(longer[i])]
<1>1. /\ n \in Nat /\ Len(longer) = n + 1 /\ DOMAIN longer = 1..(n + 1)
      /\ DOMAIN rows = 1..n /\ longer[n + 1] = row
      /\ \A i \in 1..n : longer[i] = rows[i]
  OBVIOUS
<1> HIDE DEF longer
<1>2. w[n + 1] = Held(row) /\ \A i \in 1..n : v[i] = w[i]
  BY <1>1
<1> HIDE DEF v, w, n
<1>3. Total(w, n + 1) = Total(w, n) + w[n + 1]
  BY <1>1, TotalNext
<1>4. Total(v, n) = Total(w, n)
  BY <1>1, <1>2, TotalAgree
<1>5. TotalHeld(rows) = Total(v, n) /\ TotalHeld(longer) = Total(w, n + 1)
  BY <1>1 DEF TotalHeld, v, w, n
<1>6. QED
  BY <1>2, <1>3, <1>4, <1>5 DEF longer

\* A reservation that changes changes the total by as much.
LEMMA HeldReplaced ==
  ASSUME NEW rows \in Seq(ReservationRow), NEW id \in DOMAIN rows,
         NEW after \in ReservationRow
  PROVE  TotalHeld([rows EXCEPT ![id] = after]) =
           TotalHeld(rows) - Held(rows[id]) + Held(after)
<1> DEFINE n == Len(rows)
           v == [i \in DOMAIN rows |-> Held(rows[i])]
           changed == [rows EXCEPT ![id] = after]
           w == [i \in DOMAIN changed |-> Held(changed[i])]
<1>1. /\ n \in Nat /\ id \in 1..n /\ DOMAIN rows = 1..n
      /\ DOMAIN changed = 1..n /\ Len(changed) = n
      /\ \A i \in 1..n : /\ rows[i] \in ReservationRow
                         /\ changed[i] = IF i = id THEN after ELSE rows[i]
  OBVIOUS
<1>2. \A r \in ReservationRow : Held(r) \in Int
  BY DEF ReservationRow, Held
<1> HIDE DEF changed
<1>3. \A i \in 1..n : v[i] \in Int /\ w[i] \in Int /\ (i # id => v[i] = w[i])
  BY <1>1, <1>2
<1>4. v[id] = Held(rows[id]) /\ w[id] = Held(after)
  BY <1>1
<1>5. TotalHeld(rows) = Total(v, n) /\ TotalHeld(changed) = Total(w, n)
  BY <1>1 DEF TotalHeld
<1> HIDE DEF v, w, n
<1>6. Total(w, n) = Total(v, n) - v[id] + w[id]
  <2>1. DifferAt(v, w, n, id)
    BY <1>1, <1>3 DEF DifferAt
  <2>2. QED
    BY <2>1, TotalChange
<1>7. QED
  BY <1>4, <1>5, <1>6 DEF changed

\* A reservation is made of an opened program.
ReservedOnceOpened ==
  \A p \in ProgramIds : programs[p] = None => reservations[p] = <<>>

CounterInv == TypeInv /\ ReservedOnceOpened /\ CounterMatchesHolds

\* A reservation created adds to the counter what it holds.
LEMMA ReserveCounts ==
  ASSUME CounterInv, NEW request \in ReserveRequest, programs[request.program] # None,
         NEW rate \in RatesInto(programs[request.program].currency, request.amount),
         ReserveCapacity(request, rate)
  PROVE  CounterInv'
<1> DEFINE p == request.program
           toHold == ToProgramCurrency(request.amount, rate)
           row == OpenReservation(request.invoice, request.key, request.amount, rate, toHold)
           program == WithReserved(programs[p], programs[p].reserved + toHold)
<1>1. TypeInv /\ TypeInv'
  BY ReserveTypes DEF CounterInv
<1>2. /\ p \in ProgramIds /\ programs[p] \in ProgramRow
      /\ toHold \in Nat \ {0} /\ row \in ReservationRow
  BY <1>1, ReserveComputes
<1>3. /\ reservations[p] \in Seq(ReservationRow)
      /\ reservations'[p] = Append(reservations[p], row)
      /\ \A q \in ProgramIds : q # p => reservations'[q] = reservations[q]
  BY <1>1, ReserveRows
<1>4. programs' = [programs EXCEPT ![p] = program]
  BY DEF ReserveCapacity
<1>5. Held(row) = toHold
  BY <1>2 DEF Held, OpenReservation
<1> HIDE DEF toHold, row
<1>6. program \in ProgramRow /\ program.reserved = programs[p].reserved + toHold
  <2>1. programs[p].reserved + toHold \in Nat
    BY <1>2 DEF ProgramRow
  <2>2. \A n \in Nat : /\ WithReserved(programs[p], n) \in ProgramRow
                       /\ WithReserved(programs[p], n).reserved = n
    BY <1>2, CounterWritten
  <2>3. QED
    BY <2>1, <2>2
<1> HIDE DEF program
<1>7. programs'[p] = program /\ \A q \in ProgramIds : q # p => programs'[q] = programs[q]
  BY <1>1, <1>2, <1>4 DEF TypeInv, TypeOK
<1>8. TotalHeld(reservations'[p]) = TotalHeld(reservations[p]) + toHold
  BY <1>2, <1>3, <1>5, HeldAppended
<1>9. programs[p].reserved = TotalHeld(reservations[p])
  BY <1>2 DEF CounterInv, CounterMatchesHolds, Opened
<1>10. CounterMatchesHolds'
  BY <1>3, <1>6, <1>7, <1>8, <1>9 DEF CounterInv, CounterMatchesHolds, Opened
<1>11. ReservedOnceOpened'
  <2>1. programs'[p] # None
    BY <1>6, <1>7, NullAssumption
  <2>2. QED
    BY <1>3, <1>7, <2>1 DEF CounterInv, ReservedOnceOpened
<1>12. QED
  BY <1>1, <1>10, <1>11 DEF CounterInv

\* What a row holds falls by what a repayment frees.
LEMMA HeldLessFreed ==
  ASSUME NEW before \in ReservationRow, NEW after \in ReservationRow,
         SameTerms(before, after)
  PROVE  /\ Held(before) \in Int
         /\ Held(after) = Held(before) - (after.released - before.released)
<1>1. /\ before.reserved \in Int /\ before.released \in Int /\ after.released \in Int
  BY DEF ReservationRow
<1>2. after.reserved = before.reserved
  BY DEF SameTerms
<1>3. QED
  BY <1>1, <1>2 DEF Held

\* A repayment applied takes from the counter what it frees.
LEMMA RepayCounts ==
  ASSUME CounterInv, NEW request \in RepaymentRequest, RecordRepaymentFor(request)
  PROVE  CounterInv'
<1> DEFINE p == request.program
           id == ActiveId(reservations[p], request.invoice)
           before == reservations[p][id]
           after == RecordRepayment(before, RepaidAmount(before, request).minor)
           freed == after.released - before.released
           program == WithReserved(programs[p], programs[p].reserved - freed)
<1>1. TypeInv /\ TypeInv'
  BY RepayTypes DEF CounterInv
<1>2. /\ p \in ProgramIds /\ programs[p] \in ProgramRow
      /\ id \in DOMAIN reservations[p]
      /\ before \in ReservationRow /\ after \in ReservationRow
      /\ SameTerms(before, after)
      /\ freed \in Nat /\ freed <= programs[p].reserved
  BY <1>1, RepayComputes
<1>3. /\ reservations[p] \in Seq(ReservationRow)
      /\ reservations'[p] = [reservations[p] EXCEPT ![id] = after]
      /\ \A q \in ProgramIds : q # p => reservations'[q] = reservations[q]
  BY <1>1, RepayRows
<1>4. programs' = [programs EXCEPT ![p] = program]
  BY DEF RecordRepaymentFor, ReleaseFrom
<1>5. Held(before) \in Int /\ Held(after) = Held(before) - freed
  BY <1>2, HeldLessFreed
<1> HIDE DEF freed, after
<1>6. program \in ProgramRow /\ program.reserved = programs[p].reserved - freed
  <2>1. programs[p].reserved - freed \in Nat
    BY <1>2 DEF ProgramRow
  <2>2. \A n \in Nat : /\ WithReserved(programs[p], n) \in ProgramRow
                       /\ WithReserved(programs[p], n).reserved = n
    BY <1>2, CounterWritten
  <2>3. QED
    BY <2>1, <2>2
<1> HIDE DEF program
<1>7. programs'[p] = program /\ \A q \in ProgramIds : q # p => programs'[q] = programs[q]
  BY <1>1, <1>2, <1>4 DEF TypeInv, TypeOK
<1>8. TotalHeld(reservations'[p]) =
        TotalHeld(reservations[p]) - Held(before) + Held(after)
  BY <1>2, <1>3, HeldReplaced
<1> HIDE DEF before, id
<1>9. programs[p].reserved \in Nat /\ programs[p].reserved = TotalHeld(reservations[p])
  BY <1>2, NullAssumption DEF CounterInv, CounterMatchesHolds, Opened, ProgramRow
<1>10. CounterMatchesHolds'
  <2>1. programs'[p].reserved = TotalHeld(reservations'[p])
    BY <1>2, <1>5, <1>6, <1>7, <1>8, <1>9
  <2>2. QED
    BY <1>3, <1>7, <2>1 DEF CounterInv, CounterMatchesHolds, Opened
<1>11. ReservedOnceOpened'
  <2>1. programs'[p] # None
    BY <1>6, <1>7, NullAssumption
  <2>2. QED
    BY <1>3, <1>7, <2>1 DEF CounterInv, ReservedOnceOpened
<1>12. QED
  BY <1>1, <1>10, <1>11 DEF CounterInv

\* Treasury changes no reservation, and no counter: a program it opens has
\* nothing reserved.
LEMMA TreasuryRows ==
  ASSUME TypeInv, NEW message \in TreasuryMessage,
         \/ OpenFromTreasury(message)
         \/ UpdateFromTreasury(message)
         \/ RecordStale(message),
         NEW p, p = message.program
  PROVE  /\ p \in ProgramIds
         /\ reservations' = reservations /\ movements' = movements
         /\ \A q \in ProgramIds : q # p => programs'[q] = programs[q]
         /\ programs'[p] \in ProgramRow
         /\ programs[p] = None => programs'[p].reserved = 0
         /\ programs[p] # None => /\ programs'[p].reserved = programs[p].reserved
                                  /\ programs'[p].currency = programs[p].currency
         /\ \/ /\ programs[p] # None
               /\ programs'[p].creditLimit = programs[p].creditLimit
            \/ programs'[p].creditLimit <= MaxMinorUnits
<1>1. p \in ProgramIds /\ programs \in [ProgramIds -> ProgramRow \union {None}]
  BY MessageTypes DEF TypeInv, TypeOK
<1>2. CASE OpenFromTreasury(message)
  <2> DEFINE status == IF message.status = None THEN "ACTIVE" ELSE message.status
             program == OpenProgram(message.limit, status, message.sequence)
  <2>1. /\ programs[p] = None /\ program \in ProgramRow /\ program.reserved = 0
        /\ program.creditLimit <= MaxMinorUnits
    BY <1>2, OpenComputes DEF OpenFromTreasury, OpenedBy
  <2>2. /\ programs' = [programs EXCEPT ![p] = program]
        /\ reservations' = reservations /\ movements' = movements
    BY <1>2 DEF OpenFromTreasury, OpenedBy
  <2> HIDE DEF program
  <2>3. QED
    BY <1>1, <2>1, <2>2
<1>3. CASE UpdateFromTreasury(message)
  <2> DEFINE before == programs[p]
             after == ApplyTreasuryState(before, message)
             saved == Saved(after)
  <2>1. /\ before \in ProgramRow /\ saved \in ProgramRow
        /\ saved.reserved = before.reserved /\ saved.currency = before.currency
        /\ saved.creditLimit = after.creditLimit
        /\ after.creditLimit =
             IF message.limit = None THEN before.creditLimit ELSE message.limit.minor
    <3>1. before \in ProgramRow \union {None}
      BY <1>1
    <3>2. TreasuryAnswer(before, message) = "APPLIED"
      BY <1>3 DEF UpdateFromTreasury
    <3> HIDE DEF before
    <3>3. QED
      BY <3>1, <3>2, UpdateComputes
  <2>2. \/ saved.creditLimit = before.creditLimit
        \/ saved.creditLimit <= MaxMinorUnits
    BY <2>1, MessageTypes
  <2>3. /\ programs' = [programs EXCEPT ![p] = saved]
        /\ reservations' = reservations /\ movements' = movements
    BY <1>3 DEF UpdateFromTreasury
  <2> HIDE DEF saved
  <2>4. QED
    BY <1>1, <2>1, <2>2, <2>3, NullAssumption
<1>4. CASE RecordStale(message)
  <2>1. programs[p] # None
    <3>1. ASSUME programs[p] = None PROVE FALSE
      BY <1>4, <3>1, Zenon DEF RecordStale, TreasuryAnswer
    <3>2. QED
      BY <3>1
  <2>2. UNCHANGED <<programs, reservations, movements>>
    BY <1>4 DEF RecordStale
  <2>3. QED
    BY <1>1, <2>1, <2>2
<1>5. QED
  BY <1>2, <1>3, <1>4

\* Every command keeps the counter at what the reservations hold.
LEMMA NextCounts == CounterInv /\ [Next]_vars => CounterInv'
<1> SUFFICES ASSUME CounterInv, [Next]_vars PROVE CounterInv'
  OBVIOUS
<1>1. CASE Reserve
  BY <1>1, ReserveCounts DEF Reserve
<1>2. CASE Repay
  BY <1>2, RepayCounts DEF Repay
<1>3. CASE Treasury
  <2>1. TypeInv'
    BY NextTypes DEF CounterInv
  <2>2. PICK message \in TreasuryMessage : \/ OpenFromTreasury(message)
                                           \/ UpdateFromTreasury(message)
                                           \/ RecordStale(message)
    BY <1>3 DEF Treasury
  <2> DEFINE p == message.program
  <2>3. /\ p \in ProgramIds /\ reservations' = reservations
        /\ \A q \in ProgramIds : q # p => programs'[q] = programs[q]
        /\ programs'[p] # None
        /\ programs[p] = None => programs'[p].reserved = 0
        /\ programs[p] # None => programs'[p].reserved = programs[p].reserved
    BY <2>2, TreasuryRows, NullAssumption DEF CounterInv
  <2>4. TotalHeld(<<>>) = 0
    BY TotalEmpty DEF TotalHeld
  <2>5. CounterMatchesHolds' /\ ReservedOnceOpened'
    BY <2>3, <2>4 DEF CounterInv, CounterMatchesHolds, ReservedOnceOpened, Opened
  <2>6. QED
    BY <2>1, <2>5 DEF CounterInv
<1>4. CASE UNCHANGED vars
  <2>1. TypeInv'
    BY NextTypes DEF CounterInv
  <2>2. QED
    BY <1>4, <2>1 DEF vars, CounterInv, CounterMatchesHolds, ReservedOnceOpened, Opened
<1>5. QED
  BY <1>1, <1>2, <1>3, <1>4 DEF Next

\* The counter is what the reservations hold, and they are of opened programs.
LEMMA CounterInvariant == Spec => []CounterInv
<1>1. Init => CounterInv
  BY InitTypes DEF Init, CounterInv, CounterMatchesHolds, Opened, ReservedOnceOpened
<1>2. CounterInv /\ [Next]_vars => CounterInv'
  BY NextCounts
<1>3. QED
  BY <1>1, <1>2, PTL DEF Spec

\* The counter is what the reservations hold, at every moment: Program.release
\* never finds that it drifted, and no other program's reservations are counted.
THEOREM CounterNeverDrifts == Spec => []CounterMatchesHolds
<1>1. CounterInv => CounterMatchesHolds
  BY DEF CounterInv
<1>2. QED
  BY <1>1, CounterInvariant, PTL

\* No reservation holds more than the counter has, so that release need not refuse
\* a repayment because the counter drifted.
LEMMA HoldIsCounted ==
  ASSUME CounterInv, NEW p \in ProgramIds, programs[p] # None,
         NEW i \in DOMAIN reservations[p]
  PROVE  Held(reservations[p][i]) <= programs[p].reserved
<1> DEFINE rows == reservations[p]
           held == [k \in DOMAIN rows |-> Held(rows[k])]
<1>1. /\ rows \in Seq(ReservationRow)
      /\ \A k \in DOMAIN rows : RowAccounts(rows[k])
      /\ programs[p].reserved = Total(held, Len(rows))
  BY DEF CounterInv, TypeInv, TypeOK, RowsAccount, CounterMatchesHolds, Opened, TotalHeld
<1>2. DOMAIN rows = 1..Len(rows) /\ Len(rows) \in Nat
  BY <1>1
<1>3. ASSUME NEW k \in DOMAIN rows PROVE held[k] \in Nat
  <2>1. rows[k] \in ReservationRow /\ RowAccounts(rows[k])
    BY <1>1
  <2>2. /\ rows[k].invoiceMinor \in Nat \ {0} /\ rows[k].repaid \in Nat
        /\ rows[k].rate \in ExchangeRate \union {None}
    BY <2>1 DEF ReservationRow
  <2>3. /\ rows[k].reserved \in Nat /\ rows[k].released \in Nat
        /\ rows[k].released <= rows[k].reserved
    BY <2>1, <2>2, ReleaseGrows, NullAssumption DEF RowAccounts
  <2>4. Held(rows[k]) \in Nat
    BY <2>3 DEF Held
  <2>5. QED
    BY <2>4
<1> HIDE DEF held
<1>4. held[i] <= Total(held, Len(rows))
  BY <1>2, <1>3, TotalAtLeast
<1>5. QED
  BY <1>1, <1>4 DEF held

-----------------------------------------------------------------------------
(* One reservation per request, one release per repayment.                 *)

\* Reserving keeps an invoice's reservations apart.
LEMMA ReserveKeepsApart ==
  ASSUME TypeInv, ReservedAgainOnlyUnderNewKey,
         NEW request \in ReserveRequest, programs[request.program] # None,
         NEW rate \in RatesInto(programs[request.program].currency, request.amount),
         ReserveCapacity(request, rate)
  PROVE  ReservedAgainOnlyUnderNewKey'
<1> DEFINE p == request.program
           rows == reservations[p]
           row == OpenReservation(request.invoice, request.key, request.amount, rate,
                                  ToProgramCurrency(request.amount, rate))
           n == Len(rows)
<1>1. /\ p \in ProgramIds /\ rows \in Seq(ReservationRow) /\ row \in ReservationRow
      /\ row.invoice = request.invoice /\ row.key = request.key
      /\ reservations'[p] = Append(rows, row)
      /\ \A q \in ProgramIds : q # p => reservations'[q] = reservations[q]
  BY ReserveRows
<1>2. /\ Repeated(rows, request) = {}
      /\ request.key # None => ActiveFor(rows, request.invoice) = {}
      /\ request.key = None => ReleasedFor(rows, request.invoice) = {}
  BY ReserveCreated DEF ReserveCapacity
<1> HIDE DEF row, rows
<1>3. /\ n \in Nat /\ DOMAIN rows = 1..n /\ DOMAIN reservations'[p] = 1..(n + 1)
      /\ reservations'[p][n + 1] = row
      /\ \A i \in 1..n : rows[i] \in ReservationRow /\ reservations'[p][i] = rows[i]
  BY <1>1
<1>4. ASSUME NEW i \in 1..n, rows[i].invoice = request.invoice
      PROVE  rows[i].status = "RELEASED" /\ row.key \notin {None, rows[i].key}
  <2>1. rows[i].status \in ReservationStatuses
    BY <1>3 DEF ReservationRow
  <2>2. CASE request.key = None
    <3>1. i \notin ActiveFor(rows, request.invoice) /\ i \notin ReleasedFor(rows, request.invoice)
      BY <1>2, <2>2 DEF Repeated
    <3>2. QED
      BY <1>3, <1>4, <2>1, <3>1 DEF ActiveFor, ReleasedFor, ReservationStatuses
  <2>3. CASE request.key # None
    <3>1. /\ i \notin ActiveFor(rows, request.invoice)
          /\ i \notin ByKey(rows, request.invoice, request.key)
      BY <1>2, <2>3 DEF Repeated
    <3>2. QED
      BY <1>1, <1>3, <1>4, <2>1, <2>3, <3>1 DEF ActiveFor, ByKey, ReservationStatuses
  <2>4. QED
    BY <2>2, <2>3
<1> HIDE DEF n
<1>5. SUFFICES ASSUME NEW q \in ProgramIds,
                      NEW i \in DOMAIN reservations'[q], NEW j \in DOMAIN reservations'[q],
                      i < j, reservations'[q][i].invoice = reservations'[q][j].invoice
               PROVE  /\ reservations'[q][j].key \notin {None, reservations'[q][i].key}
                      /\ reservations'[q][i].status = "RELEASED"
  BY DEF ReservedAgainOnlyUnderNewKey
<1>6. CASE q # p
  BY <1>1, <1>5, <1>6 DEF ReservedAgainOnlyUnderNewKey
<1>7. CASE q = p /\ j = n + 1
  <2>1. i \in 1..n
    BY <1>3, <1>5, <1>7
  <2>2. QED
    BY <1>1, <1>3, <1>4, <1>5, <1>7, <2>1
<1>8. CASE q = p /\ j # n + 1
  <2>1. i \in 1..n /\ j \in 1..n
    BY <1>3, <1>5, <1>8
  <2>2. /\ reservations'[p][i] = rows[i] /\ reservations'[p][j] = rows[j]
        /\ i \in DOMAIN rows /\ j \in DOMAIN rows
    BY <1>3, <2>1
  <2>3. i < j /\ rows[i].invoice = rows[j].invoice
    BY <1>5, <1>8, <2>2
  <2>4. rows[j].key \notin {None, rows[i].key} /\ rows[i].status = "RELEASED"
    <3>1. rows = reservations[p] /\ p \in ProgramIds
      BY <1>1 DEF rows
    <3>2. QED
      BY <2>2, <2>3, <3>1 DEF ReservedAgainOnlyUnderNewKey
  <2>5. QED
    BY <1>8, <2>2, <2>4
<1>9. QED
  BY <1>6, <1>7, <1>8

\* Repaying keeps an invoice's reservations apart: it changes no invoice and no
\* key, and an active reservation is the last of its invoice.
LEMMA RepayKeepsApart ==
  ASSUME TypeInv, ReservedAgainOnlyUnderNewKey,
         NEW request \in RepaymentRequest, RecordRepaymentFor(request)
  PROVE  ReservedAgainOnlyUnderNewKey'
<1> DEFINE p == request.program
           rows == reservations[p]
           id == ActiveId(rows, request.invoice)
           after == RecordRepayment(rows[id], RepaidAmount(rows[id], request).minor)
<1>1. /\ p \in ProgramIds /\ id \in DOMAIN rows
      /\ rows[id].status = "ACTIVE" /\ SameTerms(rows[id], after)
  BY RepayComputes
<1>2. /\ rows \in Seq(ReservationRow)
      /\ reservations'[p] = [rows EXCEPT ![id] = after]
      /\ \A q \in ProgramIds : q # p => reservations'[q] = reservations[q]
  BY RepayRows
<1> HIDE DEF after, id
<1>3. \A q \in ProgramIds :
        /\ DOMAIN reservations'[q] = DOMAIN reservations[q]
        /\ \A i \in DOMAIN reservations[q] :
             /\ reservations'[q][i].invoice = reservations[q][i].invoice
             /\ reservations'[q][i].key = reservations[q][i].key
             /\ \/ reservations'[q][i].status = reservations[q][i].status
                \/ reservations[q][i].status = "ACTIVE"
  BY <1>1, <1>2 DEF SameTerms
<1>4. QED
  BY <1>3 DEF ReservedAgainOnlyUnderNewKey

\* A request answered once never holds an invoice's capacity again, however late
\* it is retried: an invoice is reserved again only after every earlier
\* reservation of it was repaid in full, and under a key that is new to it.
THEOREM OneReservationPerRequest == Spec => []ReservedAgainOnlyUnderNewKey
<1>1. Init => ReservedAgainOnlyUnderNewKey
  BY DEF Init, ReservedAgainOnlyUnderNewKey
<1>2. TypeInv /\ ReservedAgainOnlyUnderNewKey /\ [Next]_vars => ReservedAgainOnlyUnderNewKey'
  <2> SUFFICES ASSUME TypeInv, ReservedAgainOnlyUnderNewKey, [Next]_vars
               PROVE  ReservedAgainOnlyUnderNewKey'
    OBVIOUS
  <2>1. CASE Reserve
    BY <2>1, ReserveKeepsApart DEF Reserve
  <2>2. CASE Repay
    BY <2>2, RepayKeepsApart DEF Repay
  <2>3. CASE Treasury
    <3>1. reservations' = reservations
      BY <2>3, TreasuryRows DEF Treasury
    <3>2. QED
      BY <3>1 DEF ReservedAgainOnlyUnderNewKey
  <2>4. CASE UNCHANGED vars
    BY <2>4 DEF vars, ReservedAgainOnlyUnderNewKey
  <2>5. QED
    BY <2>1, <2>2, <2>3, <2>4 DEF Next
<1>3. QED
  BY <1>1, <1>2, TypesInvariant, PTL DEF Spec

\* A ledger row appended under a repayment id the ledger does not have.
LEMMA LedgerGrows ==
  ASSUME NEW ledger \in Seq(MovementRow), NEW movement \in MovementRow,
         movement.type = "RELEASE" =>
           RepaymentsRecorded(ledger, movement.repayment) = {},
         \A i, j \in DOMAIN ledger :
           (/\ ledger[i].type = "RELEASE" /\ ledger[j].type = "RELEASE"
            /\ ledger[i].repayment = ledger[j].repayment) => i = j,
         NEW longer, longer = Append(ledger, movement)
  PROVE  \A i, j \in DOMAIN longer :
           (/\ longer[i].type = "RELEASE" /\ longer[j].type = "RELEASE"
            /\ longer[i].repayment = longer[j].repayment) => i = j
<1> DEFINE n == Len(ledger)
<1>1. /\ n \in Nat /\ DOMAIN ledger = 1..n /\ DOMAIN longer = 1..(n + 1)
      /\ longer[n + 1] = movement /\ \A i \in 1..n : longer[i] = ledger[i]
  OBVIOUS
<1>2. \A i \in 1..n : ledger[i].type = "RELEASE" /\ movement.type = "RELEASE" =>
                        ledger[i].repayment # movement.repayment
  BY <1>1 DEF RepaymentsRecorded
<1> HIDE DEF n
<1>3. SUFFICES ASSUME NEW i \in 1..(n + 1), NEW j \in 1..(n + 1),
                      longer[i].type = "RELEASE", longer[j].type = "RELEASE",
                      longer[i].repayment = longer[j].repayment
               PROVE  i = j
  BY <1>1
<1>4. CASE i \in 1..n /\ j \in 1..n
  BY <1>1, <1>3, <1>4
<1>5. CASE i = n + 1 /\ j \in 1..n
  BY <1>1, <1>2, <1>3, <1>5
<1>6. CASE i \in 1..n /\ j = n + 1
  BY <1>1, <1>2, <1>3, <1>6
<1>7. QED
  BY <1>1, <1>3, <1>4, <1>5, <1>6

\* A repayment id frees capacity once, however often it is sent and whatever else
\* is reserved and repaid between.
THEOREM RepaymentOnce == Spec => []RepaymentAppliedOnce
<1>1. Init => RepaymentAppliedOnce
  BY DEF Init, RepaymentAppliedOnce
<1>2. TypeInv /\ RepaymentAppliedOnce /\ [Next]_vars => RepaymentAppliedOnce'
  <2> SUFFICES ASSUME TypeInv, RepaymentAppliedOnce, [Next]_vars
               PROVE  RepaymentAppliedOnce'
    OBVIOUS
  <2> DEFINE Once(ledger) ==
        \A i, j \in DOMAIN ledger :
          (/\ ledger[i].type = "RELEASE" /\ ledger[j].type = "RELEASE"
           /\ ledger[i].repayment = ledger[j].repayment) => i = j
  <2>1. ASSUME NEW p \in ProgramIds, NEW movement,
               movements' = [movements EXCEPT ![p] = Append(@, movement)],
               movement.type = "RELEASE" =>
                 RepaymentsRecorded(movements[p], movement.repayment) = {}
        PROVE  RepaymentAppliedOnce'
    <3>1. movements \in [ProgramIds -> Seq(MovementRow)]
      BY DEF TypeInv, TypeOK
    <3>2. movements' \in [ProgramIds -> Seq(MovementRow)]
      BY NextTypes DEF TypeInv, TypeOK
    <3>3. movements'[p] = Append(movements[p], movement)
      BY <2>1, <3>1
    <3>4. movement \in MovementRow
      <4>1. movements'[p][Len(movements[p]) + 1] = movement
        BY <3>1, <3>3
      <4>2. Len(movements[p]) + 1 \in DOMAIN movements'[p]
        BY <3>1, <3>3
      <4>3. QED
        BY <3>2, <4>1, <4>2
    <3>5. \A q \in ProgramIds : Once(movements[q])
      BY DEF RepaymentAppliedOnce
    <3>6. movements[p] \in Seq(MovementRow)
      BY <3>1
    <3>7. Once(movements'[p])
      BY <2>1, <3>3, <3>4, <3>5, <3>6, LedgerGrows
    <3>8. \A q \in ProgramIds : q # p => movements'[q] = movements[q]
      BY <2>1, <3>1
    <3> HIDE DEF Once
    <3>9. \A q \in ProgramIds : Once(movements'[q])
      BY <3>5, <3>7, <3>8
    <3>10. QED
      BY <3>9 DEF Once, RepaymentAppliedOnce
  <2>2. CASE Reserve
    <3>1. PICK request \in ReserveRequest :
            \E rate \in RatesInto(programs[request.program].currency, request.amount) :
              ReserveCapacity(request, rate)
      BY <2>2 DEF Reserve
    <3>2. request.program \in ProgramIds
      BY DEF ReserveRequest
    <3>3. QED
      BY <2>1, <3>1, <3>2 DEF ReserveCapacity, ReserveMovement
  <2>3. CASE Repay
    <3>1. PICK request \in RepaymentRequest : RecordRepaymentFor(request)
      BY <2>3 DEF Repay
    <3>2. request.program \in ProgramIds
      BY DEF RepaymentRequest
    <3>3. RepaymentsRecorded(movements[request.program], request.repayment) = {}
      BY <3>1, RepayApplied DEF RecordRepaymentFor
    <3>4. QED
      BY <2>1, <3>1, <3>2, <3>3 DEF RecordRepaymentFor, ReleaseMovement
  <2>4. CASE Treasury
    <3>1. movements' = movements
      BY <2>4, TreasuryRows DEF Treasury
    <3>2. QED
      BY <3>1 DEF RepaymentAppliedOnce
  <2>5. CASE UNCHANGED vars
    BY <2>5 DEF vars, RepaymentAppliedOnce
  <2>6. QED
    BY <2>2, <2>3, <2>4, <2>5 DEF Next
<1>3. QED
  BY <1>1, <1>2, TypesInvariant, PTL DEF Spec

-----------------------------------------------------------------------------
(* The width of the columns.                                               *)

\* Treasury's limits fit, and no reservation is let through beyond the limit it
\* was checked against.
Fits ==
  \A p \in Opened : /\ programs[p].reserved <= MaxMinorUnits
                    /\ programs[p].creditLimit <= MaxMinorUnits

\* No amount the service computes outgrows the BIGINT column it is written to.
THEOREM AmountsFit == Spec => []FitsBigint
<1>1. Init => Fits
  BY DEF Init, Fits, Opened
<1>2. TypeInv /\ Fits /\ [Next]_vars => Fits'
  <2> SUFFICES ASSUME TypeInv, Fits, [Next]_vars PROVE Fits'
    OBVIOUS
  <2>1. programs \in [ProgramIds -> ProgramRow \union {None}]
    BY DEF TypeInv, TypeOK
  <2>2. CASE Reserve
    <3>1. PICK request \in ReserveRequest :
            /\ programs[request.program] # None
            /\ \E rate \in RatesInto(programs[request.program].currency, request.amount) :
                 ReserveCapacity(request, rate)
      BY <2>2 DEF Reserve
    <3>2. PICK rate \in RatesInto(programs[request.program].currency, request.amount) :
            ReserveCapacity(request, rate)
      BY <3>1
    <3> DEFINE p == request.program
               toHold == ToProgramCurrency(request.amount, rate)
    <3>3. /\ p \in ProgramIds /\ programs[p] \in ProgramRow
          /\ toHold \in Nat \ {0} /\ toHold <= Available(programs[p])
      BY <3>1, <3>2, ReserveComputes
    <3>4. programs' = [programs EXCEPT ![p] =
                         WithReserved(programs[p], programs[p].reserved + toHold)]
      BY <3>2 DEF ReserveCapacity
    <3> HIDE DEF toHold
    <3>5. /\ programs[p].reserved \in Nat /\ programs[p].creditLimit \in Nat
          /\ programs[p].creditLimit <= MaxMinorUnits
      BY <3>1, <3>3 DEF ProgramRow, Fits, Opened
    <3>6. /\ programs[p].reserved + toHold \in Nat
          /\ programs[p].reserved + toHold <= MaxMinorUnits
      BY <3>3, <3>5, MaxMinorUnitsAssumption DEF Available
    <3>7. \A n \in Nat : /\ WithReserved(programs[p], n).reserved = n
                         /\ WithReserved(programs[p], n).creditLimit = programs[p].creditLimit
      BY <3>3, CounterWritten
    <3>8. /\ programs'[p].reserved <= MaxMinorUnits /\ programs'[p].creditLimit <= MaxMinorUnits
          /\ \A q \in ProgramIds : q # p => programs'[q] = programs[q]
      BY <2>1, <3>3, <3>4, <3>5, <3>6, <3>7
    <3>9. QED
      BY <3>8 DEF Fits, Opened
  <2>3. CASE Repay
    <3>1. PICK request \in RepaymentRequest : RecordRepaymentFor(request)
      BY <2>3 DEF Repay
    <3> DEFINE p == request.program
               id == ActiveId(reservations[p], request.invoice)
               before == reservations[p][id]
               after == RecordRepayment(before, RepaidAmount(before, request).minor)
               freed == after.released - before.released
    <3>2. /\ p \in ProgramIds /\ programs[p] \in ProgramRow
          /\ freed \in Nat /\ freed <= programs[p].reserved
      BY <3>1, RepayComputes
    <3>3. programs' = [programs EXCEPT ![p] =
                         WithReserved(programs[p], programs[p].reserved - freed)]
      BY <3>1 DEF RecordRepaymentFor, ReleaseFrom
    <3> HIDE DEF freed
    <3>4. /\ programs[p].reserved \in Nat /\ programs[p].reserved <= MaxMinorUnits
          /\ programs[p].creditLimit <= MaxMinorUnits
      BY <3>2, NullAssumption DEF ProgramRow, Fits, Opened
    <3>5. /\ programs[p].reserved - freed \in Nat
          /\ programs[p].reserved - freed <= MaxMinorUnits
      BY <3>2, <3>4, MaxMinorUnitsAssumption
    <3>6. \A n \in Nat : /\ WithReserved(programs[p], n).reserved = n
                         /\ WithReserved(programs[p], n).creditLimit = programs[p].creditLimit
      <4> TAKE n \in Nat
      <4> DEFINE saved == WithReserved(programs[p], n)
      <4>1. programs[p] \in ProgramRow /\ saved = WithReserved(programs[p], n)
        BY <3>2
      <4> HIDE DEF saved
      <4>2. saved.reserved = n /\ saved.creditLimit = programs[p].creditLimit
        BY <4>1, CounterWritten
      <4>3. QED
        BY <4>1, <4>2
    <3>7. /\ programs'[p].reserved <= MaxMinorUnits /\ programs'[p].creditLimit <= MaxMinorUnits
          /\ \A q \in ProgramIds : q # p => programs'[q] = programs[q]
      BY <2>1, <3>2, <3>3, <3>4, <3>5, <3>6
    <3>8. QED
      BY <3>7 DEF Fits, Opened
  <2>4. CASE Treasury
    <3>1. PICK message \in TreasuryMessage : \/ OpenFromTreasury(message)
                                             \/ UpdateFromTreasury(message)
                                             \/ RecordStale(message)
      BY <2>4 DEF Treasury
    <3> DEFINE p == message.program
    <3>2. /\ p \in ProgramIds
          /\ \A q \in ProgramIds : q # p => programs'[q] = programs[q]
          /\ programs[p] = None => programs'[p].reserved = 0
          /\ programs[p] # None => programs'[p].reserved = programs[p].reserved
          /\ \/ /\ programs[p] # None
                /\ programs'[p].creditLimit = programs[p].creditLimit
             \/ programs'[p].creditLimit <= MaxMinorUnits
      BY <3>1, TreasuryRows
    <3>3. QED
      BY <3>2, MaxMinorUnitsAssumption DEF Fits, Opened
  <2>5. CASE UNCHANGED vars
    BY <2>5 DEF vars, Fits, Opened
  <2>6. QED
    BY <2>2, <2>3, <2>4, <2>5 DEF Next
<1>3. TypeInv /\ Fits => FitsBigint
  <2> SUFFICES ASSUME TypeInv, Fits, NEW p \in Opened
               PROVE  /\ programs[p].reserved <= MaxMinorUnits
                      /\ Available(programs[p]) \in (-MaxMinorUnits)..MaxMinorUnits
    BY DEF FitsBigint
  <2>1. programs[p] \in ProgramRow
    BY DEF TypeInv, TypeOK, Opened
  <2>2. /\ programs[p].reserved \in Nat /\ programs[p].creditLimit \in Nat
        /\ programs[p].reserved <= MaxMinorUnits /\ programs[p].creditLimit <= MaxMinorUnits
    BY <2>1 DEF ProgramRow, Fits
  <2>3. QED
    BY <2>2, MaxMinorUnitsAssumption DEF Available
<1>4. QED
  BY <1>1, <1>2, <1>3, TypesInvariant, PTL DEF Spec
=============================================================================
