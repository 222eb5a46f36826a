\* Three messages for two programs in two partitions, two consumers that crash and are evicted.
CONSTANTS
  usd = usd
  eur = eur
  p1 = p1
  p2 = p2
  part1 = part1
  part2 = part2
  c1 = c1
  c2 = c2
  ev1 = ev1
  ev2 = ev2
  ev3 = ev3
  ev4 = ev4
  None = None
  Unavailable = Unavailable
  Malformed = Malformed
  Currencies <- MCCurrencies
  MaxMinorUnits = 3
  ProgramIds = {p1, p2}
  InvoiceIds = {}
  ReservationKeys = {}
  RepaymentIds = {}
  EventIds = {ev1, ev2, ev3, ev4}
  Sequences = {1, 2, 3, 4}
  InvoiceAmounts = {}
  RepaymentAmounts = {}
  Limits <- MCLimits
  Quotes <- MCQuotes
  Consumers = {c1, c2}
  Partitions = {part1, part2}
  Messages <- MCMessages
  MaxSent = 3
SPECIFICATION Spec
SYMMETRY MCSymmetry
INVARIANTS
  TypeOK
  NothingLost
  NothingOvertakes
  InOrderNothingIgnored
  ParkedNeverApplied
  FollowsTreasury
