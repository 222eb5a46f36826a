---------------------------- MODULE MCCapacity ----------------------------
(***************************************************************************)
(* Small instances of Capacity.  An euro is worth one and a half dollar or *)
(* two thirds of one, so that reserving rounds up and repaying rounds down;*)
(* nobody quotes dollars for euros.                                        *)
(***************************************************************************)
EXTENDS Capacity, TLC

CONSTANTS usd, eur, p1, inv1, inv2, key1, rep1, rep2, rep3, rep4, ev1, ev2, ev3, ev4

MCCurrencies == {usd, eur}

Usd(minor) == [minor |-> minor, currency |-> usd]
Eur(minor) == [minor |-> minor, currency |-> eur]

MCQuotes ==
  [pair \in MCCurrencies \X MCCurrencies |->
     IF pair = <<eur, usd>> THEN {[to |-> usd, num |-> 3, den |-> 2],
                                  [to |-> usd, num |-> 2, den |-> 3]}
     ELSE {}]

\* Reserving and repaying: two invoices and a key to reserve one of them again,
\* four repayments, part or whole, one opening message and a cut.
LendingInvoiceAmounts == {Usd(2), Eur(4), Eur(0)}
LendingRepaymentAmounts == {Eur(1), Eur(2), Usd(1), Usd(0)}
LendingLimits == {Usd(8)}

\* Treasury: three messages in any order, with a limit in one of two
\* currencies, and two invoices to be over the limit with.
TreasuryInvoiceAmounts == {Usd(2), Eur(3)}
TreasuryRepaymentAmounts == {Usd(1)}
TreasuryLimits == {Usd(1), Usd(3), Eur(3), Usd(0)}

\* Treasury alone: four messages whose limits the program can take.
ReorderedLimits == {Usd(1), Usd(3)}

LendingSymmetry == Permutations({inv1, inv2}) \union Permutations({rep1, rep2, rep3, rep4})
TreasurySymmetry == Permutations({inv1, inv2}) \union Permutations({ev1, ev2, ev3})
ReorderedSymmetry == Permutations({ev1, ev2, ev3, ev4})
=============================================================================
