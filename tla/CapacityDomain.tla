-------------------------- MODULE CapacityDomain --------------------------
(***************************************************************************)
(* The domain rules of the capacity service as pure operators: money and   *)
(* exchange rates (src/src/shared/money) and the two aggregates, Program   *)
(* and Reservation (src/src/contexts/capacity/domain).                     *)
(*                                                                         *)
(* An amount is a whole number of minor units.  An exchange rate is kept   *)
(* as the two factors that ExchangeRate.convert multiplies and divides by: *)
(*   num = scaledRate * to.minorUnitsPerUnit                               *)
(*   den = RATE_SCALE * from.minorUnitsPerUnit                             *)
(* When it was observed is left out: it is stored but never compared.      *)
(***************************************************************************)
EXTENDS Integers

CONSTANTS Currencies,    \* the supported ISO 4217 codes
          MaxMinorUnits, \* the largest amount a BIGINT column holds
          None           \* SQL NULL, and a row that does not exist

ASSUME MaxMinorUnitsAssumption == MaxMinorUnits \in Nat \ {0}

\* A request's amount as its schema lets it through: within the column's range,
\* but of any sign.
Money == [minor : (-MaxMinorUnits)..MaxMinorUnits, currency : Currencies]

ExchangeRate == [to : Currencies, num : Nat \ {0}, den : Nat \ {0}]

-----------------------------------------------------------------------------
(* Rounding. *)

\* bigint division truncates towards zero.
Quotient(n, d) == IF n >= 0 THEN n \div d ELSE -((-n) \div d)

DivideWithRounding(n, d, mode) ==
  LET quotient  == Quotient(n, d)
      remainder == n - quotient * d
  IN  IF mode = "CEILING"
      THEN IF remainder > 0 THEN quotient + 1 ELSE quotient
      ELSE IF remainder < 0 THEN quotient - 1 ELSE quotient

Convert(minor, rate, mode) ==
  DivideWithRounding(minor * rate.num, rate.den, mode)

-----------------------------------------------------------------------------
(* Reservation: what one invoice holds, and what repayments have freed. *)

ReservationStatuses == {"ACTIVE", "RELEASED"}

Held(reservation) == reservation.reserved - reservation.released

Outstanding(reservation) == reservation.invoiceMinor - reservation.repaid

OpenReservation(invoice, key, amount, rate, toHold) ==
  [invoice |-> invoice, key |-> key,
   invoiceMinor |-> amount.minor, invoiceCurrency |-> amount.currency,
   rate |-> rate, reserved |-> toHold,
   repaid |-> 0, released |-> 0, status |-> "ACTIVE"]

\* Variant: the last release is rounded like the others.
ReleasedWithoutRemainder(reservation, repaid) ==
  IF reservation.rate = None THEN repaid ELSE Convert(repaid, reservation.rate, "FLOOR")

\* Every partial release is taken from the running total repaid, and the last
\* one frees whatever is left, so that rounding never accumulates.
ReleasedOnceRepaid(reservation, repaid) ==
  IF repaid = reservation.invoiceMinor THEN reservation.reserved
  ELSE IF reservation.rate = None THEN repaid
  ELSE Convert(repaid, reservation.rate, "FLOOR")

\* Whether the row of a reservation against a program in `currency` can be read
\* back: what the aggregate checks of every state it is given.
ReservationConsistent(reservation, currency) ==
  /\ reservation.invoiceMinor > 0
  /\ reservation.reserved > 0
  /\ IF reservation.rate = None
     THEN /\ reservation.invoiceCurrency = currency
          /\ reservation.reserved = reservation.invoiceMinor
          /\ reservation.released = reservation.repaid
     ELSE reservation.rate.to = currency
  /\ reservation.repaid \in 0..reservation.invoiceMinor
  /\ reservation.released \in 0..reservation.reserved
  /\ reservation.status = "RELEASED" <=> reservation.repaid = reservation.invoiceMinor
  /\ reservation.status = "RELEASED" => reservation.released = reservation.reserved

\* Variant: what a repayment frees is taken off the amount reserved.
RecordRepaymentShrinkingHold(reservation, minor) ==
  LET repaid == reservation.repaid + minor
  IN  [reservation EXCEPT
         !.repaid   = repaid,
         !.reserved = reservation.reserved - ReleasedOnceRepaid(reservation, repaid),
         !.status   = IF repaid = reservation.invoiceMinor THEN "RELEASED" ELSE @]

RecordRepayment(reservation, minor) ==
  LET repaid == reservation.repaid + minor
  IN  [reservation EXCEPT
         !.repaid   = repaid,
         !.released = ReleasedOnceRepaid(reservation, repaid),
         !.status   = IF repaid = reservation.invoiceMinor THEN "RELEASED" ELSE @]

\* The refusals of recordRepayment, in the order it makes them.
RepaymentRefusal(reservation, amount) ==
  IF reservation.status = "RELEASED" THEN "RESERVATION_ALREADY_RELEASED"
  ELSE IF amount.currency # reservation.invoiceCurrency THEN "CURRENCY_MISMATCH"
  ELSE IF amount.minor <= 0 THEN "INVALID_AMOUNT"
  ELSE IF amount.minor > Outstanding(reservation) THEN "REPAYMENT_EXCEEDS_OUTSTANDING"
  ELSE "ACCEPTED"

-----------------------------------------------------------------------------
(* Program: a credit limit, the counter of what is reserved against it, and *)
(* the state that treasury owns.                                            *)

ProgramStatuses == {"ACTIVE", "SUSPENDED"}

Available(program) == program.creditLimit - program.reserved

OpenProgram(limit, status, sequence) ==
  [currency |-> limit.currency, creditLimit |-> limit.minor, reserved |-> 0,
   status |-> status, version |-> 0, treasurySequence |-> sequence]

RateUsable(program, amount, rate) ==
  IF rate = None THEN amount.currency = program.currency
                 ELSE rate.to = program.currency

\* Variant: a hold is rounded down, like a release.
ToProgramCurrencyRoundedDown(amount, rate) ==
  IF rate = None THEN amount.minor ELSE Convert(amount.minor, rate, "FLOOR")

ToProgramCurrency(amount, rate) ==
  IF rate = None THEN amount.minor ELSE Convert(amount.minor, rate, "CEILING")

\* Variant: a reservation for nothing is let through.
ReserveRefusalWithoutSign(program, amount, rate) ==
  IF program.status # "ACTIVE" THEN "PROGRAM_NOT_ACTIVE"
  ELSE IF ~RateUsable(program, amount, rate) THEN "EXCHANGE_RATE_UNUSABLE"
  ELSE IF ToProgramCurrency(amount, rate) > Available(program)
    THEN "INSUFFICIENT_CAPACITY"
  ELSE "ACCEPTED"

\* Variant: the hold is compared with the limit, not with what is available.
ReserveRefusalAgainstLimit(program, amount, rate) ==
  IF program.status # "ACTIVE" THEN "PROGRAM_NOT_ACTIVE"
  ELSE IF amount.minor <= 0 THEN "INVALID_AMOUNT"
  ELSE IF ~RateUsable(program, amount, rate) THEN "EXCHANGE_RATE_UNUSABLE"
  ELSE IF ToProgramCurrency(amount, rate) > program.creditLimit
    THEN "INSUFFICIENT_CAPACITY"
  ELSE "ACCEPTED"

\* The refusals of reserveFor, in the order it makes them.
ReserveRefusal(program, amount, rate) ==
  IF program.status # "ACTIVE" THEN "PROGRAM_NOT_ACTIVE"
  ELSE IF amount.minor <= 0 THEN "INVALID_AMOUNT"
  ELSE IF ~RateUsable(program, amount, rate) THEN "EXCHANGE_RATE_UNUSABLE"
  ELSE IF ToProgramCurrency(amount, rate) > Available(program)
    THEN "INSUFFICIENT_CAPACITY"
  ELSE "ACCEPTED"

\* The refusals of release, in the order it makes them.
ReleaseRefusal(program, reservation, amount) ==
  IF reservation.status = "RELEASED" THEN "RESERVATION_ALREADY_RELEASED"
  ELSE IF Held(reservation) > program.reserved THEN "COUNTER_DRIFTED"
  ELSE RepaymentRefusal(reservation, amount)

\* Variant: a message as new as the state applied is applied again.
TreasuryRefusalOfOlder(program, message) ==
  IF message.sequence < program.treasurySequence THEN "STALE"
  ELSE IF message.limit = None THEN "ACCEPTED"
  ELSE IF message.limit.currency # program.currency THEN "CURRENCY_MISMATCH"
  ELSE IF message.limit.minor <= 0 THEN "INVALID_AMOUNT"
  ELSE "ACCEPTED"

\* The refusals of applyTreasuryState, in the order it makes them.
TreasuryRefusal(program, message) ==
  IF message.sequence <= program.treasurySequence THEN "STALE"
  ELSE IF message.limit = None THEN "ACCEPTED"
  ELSE IF message.limit.currency # program.currency THEN "CURRENCY_MISMATCH"
  ELSE IF message.limit.minor <= 0 THEN "INVALID_AMOUNT"
  ELSE "ACCEPTED"

ApplyTreasuryState(program, message) ==
  [program EXCEPT
     !.treasurySequence = message.sequence,
     !.creditLimit = IF message.limit = None THEN @ ELSE message.limit.minor,
     !.status = IF message.status = None THEN @ ELSE message.status]
=============================================================================
