------------------------ MODULE ArithmeticTheorems ------------------------
(***************************************************************************)
(* What the proofs about the capacity service need of its arithmetic, for  *)
(* every amount and every rate: how a total grows by one amount and what   *)
(* changing one amount does to it, and that what reserving rounds up never *)
(* falls below what repaying rounds down.                                  *)
(*                                                                         *)
(* The induction theorems of the library take a predicate as a parameter,  *)
(* so induction is over a set of numbers here: NatSetInduction.            *)
(***************************************************************************)
EXTENDS CapacityDomain, Totals, WellFoundedInduction, TLAPS

-----------------------------------------------------------------------------
(* Totals. *)

\* A set of naturals that is not empty has a least member.
LEMMA LeastNat ==
  ASSUME NEW T, T \subseteq Nat, T # {}
  PROVE  \E n \in T : \A m \in T : n <= m
<1> DEFINE Below == {pair \in Nat \X Nat : pair[1] < pair[2]}
<1>1. IsWellFoundedOn(Below, Nat)
  BY NatLessThanWellFounded, Zenon DEF OpToRel
<1> HIDE DEF Below
<1>2. PICK n \in T : \A m \in T : ~ (<<m, n>> \in Below)
  BY <1>1, WFMin
<1>3. \A m \in T : ~ (m < n)
  BY <1>2 DEF Below
<1>4. QED
  BY <1>3

\* Induction, over a set in place of a predicate.
LEMMA NatSetInduction ==
  ASSUME NEW S, 0 \in S, \A n \in Nat : n \in S => n + 1 \in S
  PROVE  Nat \subseteq S
<1>1. SUFFICES ASSUME Nat \ S # {} PROVE FALSE
  OBVIOUS
<1>2. PICK n \in Nat \ S : \A m \in Nat \ S : n <= m
  BY <1>1, LeastNat
<1>3. n # 0 /\ n - 1 \in Nat
  BY <1>2
<1>4. n - 1 \in S
  BY <1>2, <1>3
<1>5. QED
  BY <1>2, <1>3, <1>4

-----------------------------------------------------------------------------

\* The running totals of the first n amounts: what the recursive function in
\* Total is meant to be.
Running(v, n, total) ==
  total = [k \in 0..n |-> IF k = 0 THEN 0 ELSE total[k - 1] + v[k]]

\* There are running totals of any sequence.
LEMMA RunningExists ==
  ASSUME NEW v
  PROVE  \A n \in Nat : \E total : Running(v, n, total)
<1> DEFINE S == {n \in Nat : \E total : Running(v, n, total)}
<1>1. 0 \in S
  <2>1. Running(v, 0, [k \in 0..0 |-> 0])
    BY DEF Running
  <2>2. QED
    BY <2>1
<1>2. ASSUME NEW n \in Nat, n \in S PROVE n + 1 \in S
  <2>1. PICK t : Running(v, n, t)
    BY <1>2
  <2> DEFINE u == [k \in 0..(n + 1) |-> IF k = n + 1 THEN t[n] + v[n + 1] ELSE t[k]]
  <2>2. \A k \in 0..(n + 1) : u[k] = IF k = 0 THEN 0 ELSE u[k - 1] + v[k]
    BY <2>1 DEF Running
  <2>3. Running(v, n + 1, u)
    BY <2>2 DEF Running
  <2>4. QED
    BY <2>3
<1> HIDE DEF S
<1>3. Nat \subseteq S
  BY <1>1, <1>2, NatSetInduction
<1>4. QED
  BY <1>3 DEF S

\* Total is the last of the running totals.
LEMMA TotalIsRunning ==
  ASSUME NEW v, NEW n \in Nat
  PROVE  \E total : Running(v, n, total) /\ Total(v, n) = total[n]
<1> DEFINE total[k \in 0..n] == IF k = 0 THEN 0 ELSE total[k - 1] + v[k]
<1>1. \E u : Running(v, n, u)
  BY RunningExists
<1>2. Running(v, n, total)
  BY <1>1, Zenon DEF Running
<1>3. Total(v, n) = total[n]
  BY DEF Total
<1>4. QED
  BY <1>2, <1>3

\* Running totals of sequences that agree are the same as far as both go.
LEMMA RunningUnique ==
  ASSUME NEW v, NEW w, NEW m \in Nat, NEW n \in Nat, NEW t, NEW u,
         Running(v, m, t), Running(w, n, u)
  PROVE  \A k \in Nat : k <= m /\ k <= n /\ (\A i \in 1..k : v[i] = w[i]) => t[k] = u[k]
<1> DEFINE S == {k \in Nat : k <= m /\ k <= n /\ (\A i \in 1..k : v[i] = w[i]) => t[k] = u[k]}
<1>1. 0 \in S
  BY DEF Running
<1>2. ASSUME NEW k \in Nat, k \in S PROVE k + 1 \in S
  BY <1>2 DEF Running
<1> HIDE DEF S
<1>3. Nat \subseteq S
  BY <1>1, <1>2, NatSetInduction
<1>4. QED
  BY <1>3 DEF S

-----------------------------------------------------------------------------

\* Nothing totals zero.
LEMMA TotalEmpty ==
  ASSUME NEW v
  PROVE  Total(v, 0) = 0
<1>1. PICK t : Running(v, 0, t) /\ Total(v, 0) = t[0]
  BY TotalIsRunning
<1>2. QED
  BY <1>1 DEF Running

\* Amounts that agree have the same total.
LEMMA TotalAgree ==
  ASSUME NEW v, NEW w, NEW n \in Nat, \A i \in 1..n : v[i] = w[i]
  PROVE  Total(v, n) = Total(w, n)
<1>1. PICK t : Running(v, n, t) /\ Total(v, n) = t[n]
  BY TotalIsRunning
<1>2. PICK u : Running(w, n, u) /\ Total(w, n) = u[n]
  BY TotalIsRunning
<1>3. QED
  BY <1>1, <1>2, RunningUnique

\* One amount more adds that amount to the total.
LEMMA TotalNext ==
  ASSUME NEW v, NEW n \in Nat
  PROVE  Total(v, n + 1) = Total(v, n) + v[n + 1]
<1>1. PICK t : Running(v, n, t) /\ Total(v, n) = t[n]
  BY TotalIsRunning
<1>2. PICK u : Running(v, n + 1, u) /\ Total(v, n + 1) = u[n + 1]
  BY TotalIsRunning
<1>3. t[n] = u[n]
  BY <1>1, <1>2, RunningUnique
<1>4. u[n + 1] = u[n] + v[n + 1]
  BY <1>2 DEF Running
<1>5. QED
  BY <1>1, <1>2, <1>3, <1>4

\* A total of integers is an integer.
LEMMA TotalInt ==
  ASSUME NEW n \in Nat, NEW v, \A i \in 1..n : v[i] \in Int
  PROVE  Total(v, n) \in Int
<1> DEFINE S == {k \in Nat : k <= n => Total(v, k) \in Int}
<1>1. 0 \in S
  BY TotalEmpty
<1>2. ASSUME NEW k \in Nat, k \in S PROVE k + 1 \in S
  BY <1>2, TotalNext
<1> HIDE DEF S
<1>3. Nat \subseteq S
  BY <1>1, <1>2, NatSetInduction
<1>4. QED
  BY <1>3 DEF S

\* A total of naturals is at least each of them.
LEMMA TotalAtLeast ==
  ASSUME NEW n \in Nat, NEW v, \A i \in 1..n : v[i] \in Nat
  PROVE  Total(v, n) \in Nat /\ \A i \in 1..n : v[i] <= Total(v, n)
<1> DEFINE S == {k \in Nat :
                   k <= n => Total(v, k) \in Nat /\ \A i \in 1..k : v[i] <= Total(v, k)}
<1>1. 0 \in S
  BY TotalEmpty
<1>2. ASSUME NEW k \in Nat, k \in S PROVE k + 1 \in S
  <2>1. Total(v, k + 1) = Total(v, k) + v[k + 1]
    BY TotalNext
  <2>2. QED
    BY <1>2, <2>1
<1> HIDE DEF S
<1>3. Nat \subseteq S
  BY <1>1, <1>2, NatSetInduction
<1>4. QED
  BY <1>3 DEF S

\* Two sequences of n amounts that differ in the i-th one only.
DifferAt(v, w, n, i) ==
  /\ n \in Nat /\ i \in 1..n
  /\ \A k \in 1..n : v[k] \in Int /\ w[k] \in Int
  /\ \A k \in 1..n : k # i => v[k] = w[k]

\* Changing one amount changes the total by as much.
LEMMA TotalChange ==
  ASSUME NEW n, NEW v, NEW w, NEW i, DifferAt(v, w, n, i)
  PROVE  Total(w, n) = Total(v, n) - v[i] + w[i]
<1> USE DEF DifferAt
<1> DEFINE S == {k \in Nat : i <= k /\ k <= n => Total(w, k) = Total(v, k) - v[i] + w[i]}
<1>1. 0 \in S
  OBVIOUS
<1>2. ASSUME NEW k \in Nat, k \in S PROVE k + 1 \in S
  <2> SUFFICES ASSUME i <= k + 1, k + 1 <= n
               PROVE  Total(w, k + 1) = Total(v, k + 1) - v[i] + w[i]
    OBVIOUS
  <2>1. /\ Total(v, k + 1) = Total(v, k) + v[k + 1]
        /\ Total(w, k + 1) = Total(w, k) + w[k + 1]
    BY TotalNext
  <2>2. Total(v, k) \in Int /\ Total(w, k) \in Int
    BY TotalInt
  <2>3. CASE i = k + 1
    <3>1. Total(v, k) = Total(w, k)
      BY <2>3, TotalAgree
    <3>2. QED
      BY <2>1, <2>2, <2>3, <3>1
  <2>4. CASE i <= k
    BY <1>2, <2>1, <2>2, <2>4
  <2>5. QED
    BY <2>3, <2>4
<1> HIDE DEF S
<1>3. Nat \subseteq S
  BY <1>1, <1>2, NatSetInduction
<1>4. QED
  BY <1>3 DEF S

\* A sequence of amounts that goes on totals one amount more.
LEMMA TotalGrows ==
  ASSUME NEW n \in Nat, NEW v, NEW w, \A i \in 1..n : v[i] = w[i]
  PROVE  Total(w, n + 1) = Total(v, n) + w[n + 1]
<1>1. Total(w, n + 1) = Total(w, n) + w[n + 1]
  BY TotalNext
<1>2. Total(v, n) = Total(w, n)
  BY TotalAgree
<1>3. QED
  BY <1>1, <1>2

\* Zeros total zero.
LEMMA TotalZero ==
  ASSUME NEW n \in Nat, NEW v, \A i \in 1..n : v[i] = 0
  PROVE  Total(v, n) = 0
<1> DEFINE S == {k \in Nat : k <= n => Total(v, k) = 0}
<1>1. 0 \in S
  BY TotalEmpty
<1>2. ASSUME NEW k \in Nat, k \in S PROVE k + 1 \in S
  BY <1>2, TotalNext
<1> HIDE DEF S
<1>3. Nat \subseteq S
  BY <1>1, <1>2, NatSetInduction
<1>4. QED
  BY <1>3 DEF S

-----------------------------------------------------------------------------
(* Rounding. *)

\* A product with a positive factor keeps the order of the other factor.
LEMMA CancelFactor ==
  ASSUME NEW a \in Int, NEW b \in Int, NEW d \in Nat \ {0}
  PROVE  a * d < b * d => a < b
<1>1. ASSUME b <= a PROVE b * d <= a * d
  BY <1>1
<1>2. QED
  BY <1>1

\* What whole division leaves over is less than the divisor.
LEMMA DivisionBounds ==
  ASSUME NEW n \in Nat, NEW d \in Nat \ {0}
  PROVE  n \div d \in Nat /\ (n \div d) * d <= n /\ n < (n \div d + 1) * d
OBVIOUS

\* Rounding down: divideWithRounding in FLOOR mode.
LEMMA FloorBounds ==
  ASSUME NEW n \in Nat, NEW d \in Nat \ {0}
  PROVE  /\ DivideWithRounding(n, d, "FLOOR") \in Nat
         /\ DivideWithRounding(n, d, "FLOOR") * d <= n
         /\ n < (DivideWithRounding(n, d, "FLOOR") + 1) * d
<1>1. n \div d \in Nat /\ (n \div d) * d <= n /\ n < (n \div d + 1) * d
  BY DivisionBounds
<1>2. DivideWithRounding(n, d, "FLOOR") = n \div d
  BY <1>1 DEF DivideWithRounding, Quotient
<1>3. QED
  BY <1>1, <1>2

\* Rounding up: divideWithRounding in CEILING mode.
LEMMA CeilingBounds ==
  ASSUME NEW n \in Nat, NEW d \in Nat \ {0}
  PROVE  /\ DivideWithRounding(n, d, "CEILING") \in Nat
         /\ n <= DivideWithRounding(n, d, "CEILING") * d
         /\ DivideWithRounding(n, d, "CEILING") * d < n + d
<1> DEFINE q == n \div d
<1>1. q \in Nat /\ q * d <= n /\ n < (q + 1) * d /\ (q + 1) * d = q * d + d
  BY DivisionBounds
<1>2. DivideWithRounding(n, d, "CEILING") = IF n - q * d > 0 THEN q + 1 ELSE q
  BY DEF DivideWithRounding, Quotient
<1> HIDE DEF q
<1>3. CASE n - q * d > 0
  BY <1>1, <1>2, <1>3
<1>4. CASE ~ (n - q * d > 0)
  BY <1>1, <1>2, <1>4
<1>5. QED
  BY <1>3, <1>4

-----------------------------------------------------------------------------

\* ExchangeRate.convert: what rounding down and up come to in exact arithmetic.
LEMMA ConvertBounds ==
  ASSUME NEW rate \in ExchangeRate, NEW minor \in Nat
  PROVE  /\ Convert(minor, rate, "FLOOR") \in Nat
         /\ Convert(minor, rate, "FLOOR") * rate.den <= minor * rate.num
         /\ minor * rate.num < (Convert(minor, rate, "FLOOR") + 1) * rate.den
         /\ Convert(minor, rate, "CEILING") \in Nat
         /\ minor * rate.num <= Convert(minor, rate, "CEILING") * rate.den
         /\ Convert(minor, rate, "CEILING") * rate.den < minor * rate.num + rate.den
<1>1. rate.num \in Nat \ {0} /\ rate.den \in Nat \ {0} /\ minor * rate.num \in Nat
  BY DEF ExchangeRate
<1>2. QED
  BY <1>1, FloorBounds, CeilingBounds DEF Convert

\* An amount rounds down to no more than a larger one does, no amount rounds
\* down to more than it rounds up to, and an amount worth holding holds something.
LEMMA ConvertOrder ==
  ASSUME NEW rate \in ExchangeRate, NEW a \in Nat, NEW b \in Nat, a <= b
  PROVE  /\ Convert(a, rate, "FLOOR") <= Convert(b, rate, "FLOOR")
         /\ Convert(b, rate, "FLOOR") <= Convert(b, rate, "CEILING")
         /\ b > 0 => Convert(b, rate, "CEILING") > 0
<1> DEFINE lower == Convert(a, rate, "FLOOR")
           floor == Convert(b, rate, "FLOOR")
           ceiling == Convert(b, rate, "CEILING")
<1>1. rate.num \in Nat \ {0} /\ rate.den \in Nat \ {0}
  BY DEF ExchangeRate
<1>2. /\ lower \in Nat /\ floor \in Nat /\ ceiling \in Nat
      /\ lower * rate.den <= a * rate.num
      /\ floor * rate.den <= b * rate.num
      /\ b * rate.num < (floor + 1) * rate.den
      /\ b * rate.num <= ceiling * rate.den
  BY ConvertBounds
<1>3. a * rate.num <= b * rate.num
  BY <1>1
<1> HIDE DEF lower, floor, ceiling
<1>4. lower < floor + 1
  <2>1. lower * rate.den < (floor + 1) * rate.den
    BY <1>1, <1>2, <1>3
  <2>2. QED
    BY <1>1, <1>2, <2>1, CancelFactor
<1>5. floor < ceiling + 1
  <2>1. floor * rate.den < (ceiling + 1) * rate.den
    BY <1>1, <1>2
  <2>2. QED
    BY <1>1, <1>2, <2>1, CancelFactor
<1>6. ASSUME b > 0 PROVE ceiling > 0
  <2>1. b * rate.num > 0
    BY <1>1, <1>6
  <2>2. QED
    BY <1>1, <1>2, <2>1
<1>7. QED
  BY <1>2, <1>4, <1>5, <1>6 DEF lower, floor, ceiling

-----------------------------------------------------------------------------
(* A reservation's amounts.                                                *)

\* What a reservation's amounts are at every moment of its life: Program.reserveFor
\* holds the invoice's amount rounded up, and Reservation.recordRepayment frees
\* what the running total comes to.
RowAccounts(r) ==
  /\ r.repaid <= r.invoiceMinor
  /\ r.reserved = ToProgramCurrency(
                    [minor |-> r.invoiceMinor, currency |-> r.invoiceCurrency], r.rate)
  /\ r.released = ReleasedOnceRepaid(r, r.repaid)
  /\ r.status = IF r.repaid = r.invoiceMinor THEN "RELEASED" ELSE "ACTIVE"

\* What a reservation frees grows with what is repaid, and never beyond what it
\* holds, although one is rounded up and the other down.
LEMMA ReleaseGrows ==
  ASSUME NEW r, None \notin ExchangeRate,
         r.invoiceMinor \in Nat \ {0}, r.rate \in ExchangeRate \union {None},
         RowAccounts(r), NEW a \in Nat, NEW b \in Nat, a <= b, b <= r.invoiceMinor
  PROVE  /\ r.reserved \in Nat \ {0}
         /\ ReleasedOnceRepaid(r, a) \in Nat
         /\ ReleasedOnceRepaid(r, a) <= ReleasedOnceRepaid(r, b)
         /\ ReleasedOnceRepaid(r, b) \in Nat
         /\ ReleasedOnceRepaid(r, b) <= r.reserved
<1>1. CASE r.rate = None
  BY <1>1 DEF RowAccounts, ReleasedOnceRepaid, ToProgramCurrency
<1>2. CASE r.rate \in ExchangeRate
  <2>1. r.reserved = Convert(r.invoiceMinor, r.rate, "CEILING")
    BY <1>2 DEF RowAccounts, ToProgramCurrency
  <2>2. \A n \in Nat : n <= r.invoiceMinor =>
          /\ Convert(n, r.rate, "FLOOR") \in Nat
          /\ Convert(n, r.rate, "FLOOR") <= Convert(r.invoiceMinor, r.rate, "FLOOR")
          /\ ReleasedOnceRepaid(r, n) =
               IF n = r.invoiceMinor THEN r.reserved ELSE Convert(n, r.rate, "FLOOR")
    BY <1>2, ConvertBounds, ConvertOrder DEF ReleasedOnceRepaid
  <2>3. Convert(a, r.rate, "FLOOR") <= Convert(b, r.rate, "FLOOR")
    BY <1>2, ConvertOrder
  <2>4. /\ Convert(r.invoiceMinor, r.rate, "FLOOR") <= r.reserved
        /\ Convert(r.invoiceMinor, r.rate, "FLOOR") \in Nat
        /\ r.reserved \in Nat \ {0}
    BY <1>2, <2>1, ConvertBounds, ConvertOrder
  <2>5. QED
    BY <2>2, <2>3, <2>4
<1>3. QED
  BY <1>1, <1>2

\* At its own rate a reservation holds at least what is still owed on its
\* invoice, and less than two minor units more.
LEMMA HoldBounds ==
  ASSUME NEW r, None \notin ExchangeRate,
         r.invoiceMinor \in Nat \ {0}, r.rate \in ExchangeRate \union {None},
         RowAccounts(r), r.repaid \in Nat,
         NEW num, NEW den,
         num = IF r.rate = None THEN 1 ELSE r.rate.num,
         den = IF r.rate = None THEN 1 ELSE r.rate.den
  PROVE  /\ Held(r) * den >= Outstanding(r) * num
         /\ Held(r) * den < Outstanding(r) * num + 2 * den
         /\ r.status = "RELEASED" <=> Outstanding(r) = 0
         /\ r.status = "RELEASED" <=> Held(r) = 0
<1>1. r.reserved \in Nat \ {0} /\ r.released \in Nat /\ r.released <= r.reserved
  BY ReleaseGrows DEF RowAccounts
<1>2. CASE r.repaid = r.invoiceMinor
  <2>1. Held(r) = 0 /\ Outstanding(r) = 0 /\ r.status = "RELEASED"
    BY <1>1, <1>2 DEF Held, Outstanding, RowAccounts, ReleasedOnceRepaid
  <2>2. num \in Nat /\ den \in Nat \ {0}
    BY DEF ExchangeRate
  <2>3. QED
    BY <2>1, <2>2
<1>3. CASE r.repaid < r.invoiceMinor /\ r.rate = None
  BY <1>1, <1>3 DEF Held, Outstanding, RowAccounts, ReleasedOnceRepaid, ToProgramCurrency
<1>4. CASE r.repaid < r.invoiceMinor /\ r.rate \in ExchangeRate
  <2>1. num = r.rate.num /\ den = r.rate.den /\ num \in Nat \ {0} /\ den \in Nat \ {0}
    BY <1>4 DEF ExchangeRate
  <2>2. /\ r.invoiceMinor * num <= r.reserved * den
        /\ r.reserved * den < r.invoiceMinor * num + den
    BY <1>4, <2>1, ConvertBounds DEF RowAccounts, ToProgramCurrency
  <2>3. /\ r.released * den <= r.repaid * num
        /\ r.repaid * num < (r.released + 1) * den
    <3>1. r.released = Convert(r.repaid, r.rate, "FLOOR")
      BY <1>4 DEF RowAccounts, ReleasedOnceRepaid
    <3>2. QED
      BY <1>4, <2>1, <3>1, ConvertBounds
  <2>4. /\ Held(r) * den = r.reserved * den - r.released * den
        /\ Outstanding(r) * num = r.invoiceMinor * num - r.repaid * num
        /\ (r.released + 1) * den = r.released * den + den
    BY <1>1, <2>1 DEF Held, Outstanding
  <2>5. /\ Held(r) * den >= Outstanding(r) * num
        /\ Held(r) * den < Outstanding(r) * num + 2 * den
    BY <1>1, <2>1, <2>2, <2>3, <2>4 DEF Held, Outstanding
  <2>6. Outstanding(r) \in Nat \ {0} /\ Outstanding(r) * num > 0
    BY <1>4, <2>1 DEF Outstanding
  <2>7. Held(r) # 0
    BY <1>1, <2>1, <2>5, <2>6 DEF Held
  <2>8. QED
    BY <1>4, <2>5, <2>6, <2>7 DEF RowAccounts
<1>5. QED
  BY <1>2, <1>3, <1>4 DEF RowAccounts
=============================================================================
