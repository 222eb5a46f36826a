---------------------------- MODULE CapacityRows ----------------------------
(***************************************************************************)
(* The requests that the commands of the capacity service take, the rows   *)
(* of its five tables, and what each command answers and writes, given the *)
(* rows it has read: the decisions of the three handlers of                *)
(* src/src/contexts/capacity/application, apart from when they are taken.  *)
(*                                                                         *)
(* A program's rows are kept in the order they were committed, which the   *)
(* program's row lock makes a total order.  A reservation's id is its      *)
(* place in its program's sequence.  Times are left out.                   *)
(***************************************************************************)
EXTENDS CapacityDomain, Sequences

CONSTANTS ProgramIds, InvoiceIds, ReservationKeys, RepaymentIds,
          EventIds,         \* treasury's ids for its messages
          Sequences,        \* the sequence numbers of its messages
          InvoiceAmounts,   \* the amounts that requests ask to reserve
          RepaymentAmounts, \* the amounts that requests say were repaid
          Limits,           \* the limits that treasury sends
          Quotes,           \* the rates a deployment may hold for a currency pair
          Unavailable       \* the lookup of a rate that nobody quotes

ASSUME ConstantsAssumption ==
  /\ Sequences \subseteq Nat
  /\ InvoiceAmounts \subseteq Money
  /\ RepaymentAmounts \subseteq Money
  /\ Limits \subseteq Money
  /\ Quotes \in [Currencies \X Currencies -> SUBSET ExchangeRate]
  /\ \A pair \in Currencies \X Currencies :
       \A rate \in Quotes[pair] : rate.to = pair[2]

-----------------------------------------------------------------------------
(* Requests and rows. *)

ReserveRequest ==
  [program : ProgramIds, invoice : InvoiceIds,
   key : ReservationKeys \union {None}, amount : InvoiceAmounts]

RepaymentRequest ==
  [program : ProgramIds, invoice : InvoiceIds, repayment : RepaymentIds,
   amount : RepaymentAmounts \union {None}]

\* A limit change, a status change, or a reconciliation with both.
TreasuryMessage ==
  {m \in [program : ProgramIds, event : EventIds, sequence : Sequences,
          limit : Limits \union {None}, status : ProgramStatuses \union {None}] :
     m.limit # None \/ m.status # None}

ProgramRow ==
  [currency : Currencies, creditLimit : Nat \ {0}, reserved : Nat,
   status : ProgramStatuses, version : Nat, treasurySequence : Nat]

\* NULL is none of the values that stand beside it.
ASSUME NullAssumption ==
  /\ None \notin ReservationKeys \union ProgramStatuses \union Money
  /\ None \notin ExchangeRate \union ProgramRow
  /\ Unavailable \notin ExchangeRate \union {None}

ReservationRow ==
  [invoice : InvoiceIds, key : ReservationKeys \union {None},
   invoiceMinor : Nat \ {0}, invoiceCurrency : Currencies,
   rate : ExchangeRate \union {None}, reserved : Nat \ {0},
   repaid : Nat, released : Nat, status : ReservationStatuses]

MovementRow ==
  [type : {"RESERVE"}, reservation : Nat \ {0}, amount : Nat, availableAfter : Int]
    \union
  [type : {"RELEASE"}, reservation : Nat \ {0}, amount : Nat, availableAfter : Int,
   repayment : RepaymentIds, repaidMinor : Nat \ {0}, repaidCurrency : Currencies]

TreasuryRow == [message : TreasuryMessage, applied : BOOLEAN]

OutboxEvent ==
  [type : {"ProgramOpened"}, creditLimit : Nat \ {0}, status : ProgramStatuses]
    \union
  [type : {"CapacityReserved"}, reservation : Nat \ {0}, availableAfter : Int]
    \union
  [type : {"CapacityReleased"}, reservation : Nat \ {0}, availableAfter : Int,
   fullyReleased : BOOLEAN]
    \union
  [type : {"CreditLimitChanged"}, creditLimit : Nat \ {0}, reserved : Nat]
    \union
  [type : {"ProgramStatusChanged"}, status : ProgramStatuses]

\* What a consumer is told of an event: the data of the message that
\* toCapacityEventMessage builds when the event is stored.
DataOf(event) ==
  CASE event.type = "ProgramOpened" ->
         [creditLimit |-> event.creditLimit, status |-> event.status]
    [] event.type = "CapacityReserved" ->
         [reservation |-> event.reservation, availableAfter |-> event.availableAfter]
    [] event.type = "CapacityReleased" ->
         [reservation |-> event.reservation, availableAfter |-> event.availableAfter,
          reservationFullyReleased |-> event.fullyReleased]
    [] event.type = "CreditLimitChanged" ->
         [creditLimit |-> event.creditLimit, reservedAmount |-> event.reserved,
          overLimit |-> event.reserved > event.creditLimit]
    [] event.type = "ProgramStatusChanged" ->
         [status |-> event.status]

ToCapacityEventMessage(program, event) ==
  [programId |-> program, eventType |-> event.type, data |-> DataOf(event)]

-----------------------------------------------------------------------------
(* Reserving.                                                              *)

ByKey(rows, invoice, key) ==
  {i \in DOMAIN rows : rows[i].invoice = invoice /\ rows[i].key = key}

ActiveFor(rows, invoice) ==
  {i \in DOMAIN rows : rows[i].invoice = invoice /\ rows[i].status = "ACTIVE"}

\* Variant: nothing looks for a reservation the invoice had before.
ForgetsReleased(rows, invoice) == {}

ReleasedFor(rows, invoice) ==
  {i \in DOMAIN rows : rows[i].invoice = invoice /\ rows[i].status = "RELEASED"}

\* The reservations a request repeats: the one under its key when it has a key,
\* the invoice's active one when it has none.
Repeated(rows, request) ==
  IF request.key # None THEN ByKey(rows, request.invoice, request.key)
                        ELSE ActiveFor(rows, request.invoice)

SameAmount(reservation, amount) ==
  /\ reservation.invoiceMinor = amount.minor
  /\ reservation.invoiceCurrency = amount.currency

\* What the rate lookup may find: no rate is needed within one currency, and a
\* pair that is not quoted leaves the lookup failed until someone needs the rate.
RatesInto(currency, amount) ==
  IF amount.currency = currency THEN {None}
  ELSE IF Quotes[<<amount.currency, currency>>] = {} THEN {Unavailable}
  ELSE Quotes[<<amount.currency, currency>>]

\* A program's row as its repository saves it.
Saved(program) == [program EXCEPT !.version = @ + 1]

WithReserved(program, reserved) == Saved([program EXCEPT !.reserved = reserved])

\* What the handler answers, given the program's row and reservations.
ReserveAnswer(program, rows, request, rate) ==
  IF program = None THEN "PROGRAM_NOT_FOUND"
  ELSE IF Repeated(rows, request) # {} THEN
    IF \A i \in Repeated(rows, request) : SameAmount(rows[i], request.amount)
    THEN "REPLAYED" ELSE "INVOICE_ALREADY_RESERVED"
  ELSE IF request.key # None /\ ActiveFor(rows, request.invoice) # {}
    THEN "INVOICE_ALREADY_RESERVED"
  ELSE IF request.key = None /\ ReleasedFor(rows, request.invoice) # {}
    THEN "INVOICE_ALREADY_REPAID"
  ELSE IF rate = Unavailable THEN "EXCHANGE_RATE_UNAVAILABLE"
  ELSE IF ReserveRefusal(program, request.amount, rate) # "ACCEPTED"
    THEN ReserveRefusal(program, request.amount, rate)
  ELSE "CREATED"

ReserveMovement(id, toHold, program) ==
  [type |-> "RESERVE", reservation |-> id, amount |-> toHold,
   availableAfter |-> Available(program)]

CapacityReserved(id, program) ==
  [type |-> "CapacityReserved", reservation |-> id, availableAfter |-> Available(program)]

-----------------------------------------------------------------------------
(* Repaying.                                                               *)

\* Variant: only the newest ledger row is compared with.
OnlyNewestRow(ledger, repayment) ==
  {i \in DOMAIN ledger :
     i = Len(ledger) /\ ledger[i].type = "RELEASE" /\ ledger[i].repayment = repayment}

\* The ledger rows of a repayment id.
RepaymentsRecorded(ledger, repayment) ==
  {i \in DOMAIN ledger : ledger[i].type = "RELEASE" /\ ledger[i].repayment = repayment}

\* A repayment id already applied is the same repayment when it names the same
\* invoice and the same amount, or no amount.
SameRepayment(movement, rows, request) ==
  /\ rows[movement.reservation].invoice = request.invoice
  /\ \/ request.amount = None
     \/ request.amount = [minor |-> movement.repaidMinor, currency |-> movement.repaidCurrency]

\* No amount means whatever is outstanding.
RepaidAmount(reservation, request) ==
  IF request.amount # None THEN request.amount
  ELSE [minor |-> Outstanding(reservation), currency |-> reservation.invoiceCurrency]

\* The reservation a repayment goes to; "reservations_one_active_per_invoice".
ActiveId(rows, invoice) == CHOOSE i \in ActiveFor(rows, invoice) : TRUE

\* What the handler answers, given the program's row, reservations and ledger.
RepayAnswer(program, rows, ledger, request) ==
  LET recorded    == RepaymentsRecorded(ledger, request.repayment)
      reservation == rows[ActiveId(rows, request.invoice)]
      refusal     == ReleaseRefusal(program, reservation, RepaidAmount(reservation, request))
  IN  IF program = None THEN "PROGRAM_NOT_FOUND"
      ELSE IF recorded # {} THEN
        IF \A m \in recorded : SameRepayment(ledger[m], rows, request)
        THEN "REPLAYED" ELSE "REPAYMENT_ID_REUSED"
      ELSE IF ActiveFor(rows, request.invoice) = {} THEN "RESERVATION_NOT_FOUND"
      ELSE IF refusal # "ACCEPTED" THEN refusal
      ELSE "APPLIED"

\* Variant: what was freed so far is taken off again at each repayment.
ReleaseRunningTotal(program, before, after) ==
  WithReserved(program, program.reserved - after.released)

\* The program's row once a repayment took one of its reservations from
\* `before` to `after`.
ReleaseFrom(program, before, after) ==
  WithReserved(program, program.reserved - (after.released - before.released))

\* Variant: each ledger row records what was freed so far.
MovementOfRunningTotal(id, before, after, program, repayment) ==
  [type |-> "RELEASE", reservation |-> id, amount |-> after.released,
   availableAfter |-> Available(program), repayment |-> repayment,
   repaidMinor |-> after.repaid - before.repaid, repaidCurrency |-> after.invoiceCurrency]

ReleaseMovement(id, before, after, program, repayment) ==
  [type |-> "RELEASE", reservation |-> id, amount |-> after.released - before.released,
   availableAfter |-> Available(program), repayment |-> repayment,
   repaidMinor |-> after.repaid - before.repaid, repaidCurrency |-> after.invoiceCurrency]

CapacityReleased(id, after, program) ==
  [type |-> "CapacityReleased", reservation |-> id, availableAfter |-> Available(program),
   fullyReleased |-> after.status = "RELEASED"]

-----------------------------------------------------------------------------
(* Treasury's messages.                                                    *)

\* What the handler answers to a message whose event id is new.
TreasuryAnswer(program, message) ==
  IF program # None THEN
    IF TreasuryRefusal(program, message) = "ACCEPTED" THEN "APPLIED"
    ELSE TreasuryRefusal(program, message)
  ELSE IF message.limit = None THEN "PROGRAM_NOT_FOUND"
  ELSE IF message.limit.minor <= 0 THEN "INVALID_AMOUNT"
  ELSE "CREATED"

\* Variant: a message that names no status leaves the program without one.
OpenedInStatusNamed(message) ==
  OpenProgram(message.limit, message.status, message.sequence)

\* Variant: the first message's sequence is not kept.
OpenedWithoutSequence(message) ==
  OpenProgram(message.limit,
              IF message.status = None THEN "ACTIVE" ELSE message.status, 0)

\* Treasury's first message for a program opens it, in the status it names.
OpenedBy(message) ==
  OpenProgram(message.limit,
              IF message.status = None THEN "ACTIVE" ELSE message.status,
              message.sequence)

ProgramOpened(program) ==
  [type |-> "ProgramOpened", creditLimit |-> program.creditLimit, status |-> program.status]

\* Variant: a reconciliation that changes both tells of the limit only.
LimitElseStatusEvents(before, after) ==
  IF after.creditLimit # before.creditLimit
  THEN <<[type |-> "CreditLimitChanged", creditLimit |-> after.creditLimit,
          reserved |-> after.reserved]>>
  ELSE IF after.status # before.status
  THEN <<[type |-> "ProgramStatusChanged", status |-> after.status]>>
  ELSE <<>>

\* The events of an update: one for a limit that changed, then one for a status
\* that changed.
TreasuryUpdateEvents(before, after) ==
  (IF after.creditLimit = before.creditLimit THEN <<>>
   ELSE <<[type |-> "CreditLimitChanged", creditLimit |-> after.creditLimit,
           reserved |-> after.reserved]>>)
  \o
  (IF after.status = before.status THEN <<>>
   ELSE <<[type |-> "ProgramStatusChanged", status |-> after.status]>>)
=============================================================================
