--------------------------- MODULE MCTreasuryFeed ---------------------------
(***************************************************************************)
(* Small instances of TreasuryFeed: one program that treasury opens,       *)
(* suspends and changes, with messages that no program can take, and a     *)
(* second one.                                                             *)
(***************************************************************************)
EXTENDS TreasuryFeed, TLC

CONSTANTS usd, eur, p1, p2, part1, part2, c1, c2, ev1, ev2, ev3, ev4

MCCurrencies == {usd, eur}

Usd(minor) == [minor |-> minor, currency |-> usd]

MCLimits == {Usd(1), Usd(3), [minor |-> 2, currency |-> eur]}

MCQuotes == [pair \in MCCurrencies \X MCCurrencies |-> {}]

Change(event, sequence, limit, status) ==
  [program |-> p1, event |-> event, sequence |-> sequence, limit |-> limit, status |-> status]

Opening == Change(ev1, 2, Usd(1), None)
Suspension == Change(ev2, 1, None, "SUSPENDED")
Raise == Change(ev3, 3, Usd(3), None)
InEuro == Change(ev4, 3, [minor |-> 2, currency |-> eur], None)

\* Another program's, under an event id that one of the first's has.
Elsewhere ==
  [program |-> p2, event |-> ev3, sequence |-> 1, limit |-> Usd(1), status |-> None]

MCMessages == {Opening, Suspension, Raise, InEuro, Elsewhere}

\* A status change that may be processed before the program is open, and a
\* message to open it with.
EarlyMessages == {Opening, Suspension}

\* Newer than the message that opens the program.
OvertakingMessages == {Opening, Change(ev2, 3, None, "SUSPENDED")}

MCSymmetry == Permutations({c1, c2}) \union Permutations({part1, part2})
=============================================================================
