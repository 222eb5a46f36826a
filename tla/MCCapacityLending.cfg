\* Two invoices, four repayments, two rates: the money and the ledger.
CONSTANTS
  usd = usd
  eur = eur
  p1 = p1
  inv1 = inv1
  inv2 = inv2
  key1 = key1
  rep1 = rep1
  rep2 = rep2
  rep3 = rep3
  rep4 = rep4
  ev1 = ev1
  ev2 = ev2
  ev3 = ev3
  ev4 = ev4
  None = None
  Unavailable = Unavailable
  Currencies <- MCCurrencies
  MaxMinorUnits = 8
  ProgramIds = {p1}
  InvoiceIds = {inv1, inv2}
  ReservationKeys = {key1}
  RepaymentIds = {rep1, rep2, rep3, rep4}
  EventIds = {ev1}
  Sequences = {1}
  InvoiceAmounts <- LendingInvoiceAmounts
  RepaymentAmounts <- LendingRepaymentAmounts
  Limits <- LendingLimits
  Quotes <- MCQuotes
SPECIFICATION Spec
SYMMETRY LendingSymmetry
CHECK_DEADLOCK FALSE
INVARIANTS
  TypeOK
  CounterMatchesHolds
  LedgerExplainsReservations
  ReservedAgainOnlyUnderNewKey
  RepaymentAppliedOnce
  HoldTracksOutstanding
  EveryRowLoads
PROPERTIES
  NothingRewritten
