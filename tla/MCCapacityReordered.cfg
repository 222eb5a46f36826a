\* Four messages of treasury in any order, and nothing else.
CONSTANTS
  usd = usd
  eur = eur
  p1 = p1
  inv1 = inv1
  inv2 = inv2
  key1 = key1
  rep1 = rep1
  rep2 = rep2
  rep3 = rep3
  rep4 = rep4
  ev1 = ev1
  ev2 = ev2
  ev3 = ev3
  ev4 = ev4
  None = None
  Unavailable = Unavailable
  Currencies <- MCCurrencies
  MaxMinorUnits = 3
  ProgramIds = {p1}
  InvoiceIds = {}
  ReservationKeys = {}
  RepaymentIds = {rep1}
  EventIds = {ev1, ev2, ev3, ev4}
  Sequences = {1, 2, 3, 4}
  InvoiceAmounts <- TreasuryInvoiceAmounts
  RepaymentAmounts <- TreasuryRepaymentAmounts
  Limits <- ReorderedLimits
  Quotes <- MCQuotes
SPECIFICATION Spec
SYMMETRY ReorderedSymmetry
CHECK_DEADLOCK FALSE
INVARIANTS
  NextMessageCorrects
