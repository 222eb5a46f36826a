---------------------- MODULE MCCapacityTransactions ----------------------
(***************************************************************************)
(* Small instances of CapacityTransactions: two workers, each sent any of  *)
(* a few commands any number of times.                                     *)
(***************************************************************************)
EXTENDS CapacityTransactions, TLC

CONSTANTS usd, eur, p1, p2, inv1, key1, rep1, ev1, ev2, w1, w2

MCCurrencies == {usd, eur}

Usd(minor) == [minor |-> minor, currency |-> usd]
Eur(minor) == [minor |-> minor, currency |-> eur]

MCQuotes ==
  [pair \in MCCurrencies \X MCCurrencies |->
     IF pair = <<eur, usd>> THEN {[to |-> usd, num |-> 3, den |-> 2]} ELSE {}]

MCInvoiceAmounts == {Usd(2), Eur(1)}
MCRepaymentAmounts == {Eur(1)}
MCLimits == {Usd(2), Usd(3)}

Reserve(key, amount) ==
  [kind |-> "RESERVE",
   request |-> [program |-> p1, invoice |-> inv1, key |-> key, amount |-> amount]]

Repay(amount) ==
  [kind |-> "REPAY",
   request |-> [program |-> p1, invoice |-> inv1, repayment |-> rep1, amount |-> amount]]

Treasury(program, event, sequence, limit, status) ==
  [kind |-> "TREASURY",
   request |-> [program |-> program, event |-> event, sequence |-> sequence,
                limit |-> limit, status |-> status]]

\* An invoice reserved, repaid and reserved again; two messages that can each
\* open the program, and one whose event id another program's has too.
MCCommands ==
  {Reserve(None, Usd(2)), Reserve(key1, Eur(1)), Repay(None),
   Treasury(p1, ev1, 1, Usd(3), None), Treasury(p1, ev2, 2, Usd(2), "ACTIVE"),
   Treasury(p2, ev2, 1, Usd(2), None)}

\* For progress: one message, and an invoice to reserve and repay.
ProgressCommands ==
  {Reserve(None, Usd(2)), Repay(None), Treasury(p1, ev1, 1, Usd(3), None)}

Symmetry == Permutations(Workers)
=============================================================================
