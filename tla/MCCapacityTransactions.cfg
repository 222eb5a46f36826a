\* Two workers and six commands, in every interleaving and with every failure.
CONSTANTS
  usd = usd
  eur = eur
  p1 = p1
  p2 = p2
  inv1 = inv1
  key1 = key1
  rep1 = rep1
  ev1 = ev1
  ev2 = ev2
  w1 = w1
  w2 = w2
  None = None
  Unavailable = Unavailable
  Currencies <- MCCurrencies
  MaxMinorUnits = 3
  ProgramIds = {p1, p2}
  InvoiceIds = {inv1}
  ReservationKeys = {key1}
  RepaymentIds = {rep1}
  EventIds = {ev1, ev2}
  Sequences = {1, 2}
  InvoiceAmounts <- MCInvoiceAmounts
  RepaymentAmounts <- MCRepaymentAmounts
  Limits <- MCLimits
  Quotes <- MCQuotes
  Workers = {w1, w2}
  Commands <- MCCommands
SPECIFICATION Spec
SYMMETRY Symmetry
INVARIANTS
  TypeOK
  DecisionsHoldUntilCommit
  NoBugAnswered
  AnswersStand
PROPERTIES
  ImplementsAtomicCommands
