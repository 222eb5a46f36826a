---------------------- MODULE ReservationPagingProofs ----------------------
(***************************************************************************)
(* Theorems about ReservationPaging, for every set of reservations and     *)
(* instances, every size of a page and clocks that differ by any amount.   *)
(*                                                                         *)
(* The idea: entries are totally ordered and an entry never moves.  What a *)
(* listing has shown is not behind its cursor, and what it has to show and *)
(* has not shown is.  A page takes the first of what is behind the cursor, *)
(* and its own cursor is the last of what it took, so that the rest, and   *)
(* nothing else, is behind that.                                           *)
(***************************************************************************)
EXTENDS ReservationPaging, FiniteSetTheorems, TLAPS

Shown == UNION {pages[k] : k \in DOMAIN pages}

\* What there is to show behind the cursor.
Remaining == {id \in Matching : next # None => Behind(id, next)}

\* What was shown is not behind the cursor.
CursorBehindPages ==
  listing = "yes" =>
    IF next = None THEN pages = <<>> ELSE \A x \in Shown : ~ Behind(x, next)

\* A reservation released stays so.
ReleasedStay == filter = "RELEASED" => \A id \in atStart : rows[id].status = "RELEASED"

\* What was there at the start is shown or still to be shown.
RestRemains == listing = "yes" => atStart \intersect Matching \subseteq Shown \union Remaining

\* There is something behind a cursor, unless a status was asked for.
MoreWaits == listing = "yes" /\ filter = None /\ next # None => Remaining # {}

ReservationsInv == TypeOK /\ IsFiniteSet(Made)

ListingInv ==
  /\ CursorBehindPages /\ ReleasedStay /\ RestRemains /\ MoreWaits
  /\ EveryPageContinues /\ NothingSkipped /\ AnnouncedPageIsThere

PagingInv == ReservationsInv /\ ListingInv

-----------------------------------------------------------------------------
(* Order. *)

\* A relation that orders a finite set has a least element in it.
LEMMA LeastExists ==
  ASSUME NEW R, NEW S, IsFiniteSet(S), S # {},
         \A x \in S : <<x, x>> \notin R,
         \A x, y, z \in S : <<x, y>> \in R /\ <<y, z>> \in R => <<x, z>> \in R
  PROVE  \E x \in S : \A y \in S : <<y, x>> \notin R
<1> DEFINE Before(x) == {y \in S : <<y, x>> \in R}
           Befores == {Before(x) : x \in S}
           Order == StrictSubsetOrdering(S)
<1>1. IsWellFoundedOn(Order, FiniteSubsetsOf(S))
  BY FS_StrictSubsetOrderingWellFounded
<1>2. Befores \subseteq FiniteSubsetsOf(S) /\ Befores # {}
  <2>1. \A x \in S : Before(x) \in SUBSET S
    OBVIOUS
  <2>2. \A x \in S : IsFiniteSet(Before(x))
    BY <2>1, FS_Subset
  <2>3. \A x \in S : Before(x) \in FiniteSubsetsOf(S)
    BY <2>1, <2>2 DEF FiniteSubsetsOf
  <2> HIDE DEF Before
  <2>4. QED
    BY <2>3
<1> HIDE DEF Order
<1>3. PICK least \in Befores : \A B \in Befores : <<B, least>> \notin Order
  BY <1>1, <1>2, WFMin
<1>4. PICK x \in S : least = Before(x)
  BY <1>3
<1>5. SUFFICES ASSUME NEW y \in S, <<y, x>> \in R PROVE FALSE
  OBVIOUS
<1>6. Before(y) \subseteq Before(x) /\ y \in Before(x) /\ y \notin Before(y)
  BY <1>5
<1>7. Before(y) # Before(x) /\ Before(x) \subseteq S /\ Before(y) \subseteq S
  BY <1>6
<1>8. <<Before(y), Before(x)>> \in Order
  BY <1>6, <1>7 DEF Order, StrictSubsetOrdering
<1>9. QED
  BY <1>3, <1>4, <1>8

\* The time and the id of a reservation are numbers.
LEMMA MadeTimes ==
  ASSUME TypeOK, NEW id \in Made
  PROVE  /\ id \in Ids /\ id \in Nat
         /\ rows[id] \in ReservationTimes
         /\ rows[id].reservedAt \in Times /\ rows[id].reservedAt \in Nat
<1>1. id \in Ids /\ id \in Nat /\ rows[id] \in ReservationTimes
  BY PagingAssumption DEF Made, TypeOK
<1>2. rows[id].reservedAt \in Times
  BY <1>1 DEF ReservationTimes
<1>3. QED
  BY <1>1, <1>2, PagingAssumption DEF Times

\* Newer is a strict total order of the reservations made.
LEMMA NewerOrders ==
  ASSUME TypeOK
  PROVE  /\ \A x \in Made : ~ Newer(x, x)
         /\ \A x, y \in Made : x = y \/ Newer(x, y) \/ Newer(y, x)
         /\ \A x, y, z \in Made : Newer(x, y) /\ Newer(y, z) => Newer(x, z)
<1>1. \A x \in Made : x \in Nat /\ rows[x].reservedAt \in Nat
  BY MadeTimes
<1>2. \A x \in Made : ~ Newer(x, x)
  BY <1>1 DEF Newer
<1>3. \A x, y \in Made : x = y \/ Newer(x, y) \/ Newer(y, x)
  BY <1>1 DEF Newer
<1>4. \A x, y, z \in Made : Newer(x, y) /\ Newer(y, z) => Newer(x, z)
  BY <1>1 DEF Newer
<1>5. QED
  BY <1>2, <1>3, <1>4

\* Of finitely many reservations one is the newest and one the oldest.
LEMMA FirstAndLast ==
  ASSUME TypeOK, NEW S \in SUBSET Made, IsFiniteSet(S), S # {}
  PROVE  /\ \E f \in S : \A x \in S : ~ Newer(x, f)
         /\ \E l \in S : \A x \in S : x = l \/ Newer(x, l)
<1> DEFINE R == {pair \in Made \X Made : Newer(pair[1], pair[2])}
           Reverse == {pair \in Made \X Made : Newer(pair[2], pair[1])}
<1>1. \A x, y \in S : /\ <<x, y>> \in R <=> Newer(x, y)
                      /\ <<x, y>> \in Reverse <=> Newer(y, x)
  OBVIOUS
<1> HIDE DEF R, Reverse
<1>2. /\ \A x \in S : ~ Newer(x, x)
      /\ \A x, y, z \in S : Newer(x, y) /\ Newer(y, z) => Newer(x, z)
      /\ \A x, y \in S : x = y \/ Newer(x, y) \/ Newer(y, x)
  BY NewerOrders
<1>3. \E f \in S : \A x \in S : <<x, f>> \notin R
  <2>1. /\ \A x \in S : <<x, x>> \notin R
        /\ \A x, y, z \in S : <<x, y>> \in R /\ <<y, z>> \in R => <<x, z>> \in R
    BY <1>1, <1>2
  <2>2. QED
    BY <2>1, LeastExists
<1>4. \E l \in S : \A x \in S : <<x, l>> \notin Reverse
  <2>1. /\ \A x \in S : <<x, x>> \notin Reverse
        /\ \A x, y, z \in S : <<x, y>> \in Reverse /\ <<y, z>> \in Reverse => <<x, z>> \in Reverse
    BY <1>1, <1>2
  <2>2. QED
    BY <2>1, LeastExists
<1>5. QED
  BY <1>1, <1>2, <1>3, <1>4

-----------------------------------------------------------------------------
(* Pages. *)

NewerIn(set, id) == {x \in set : Newer(x, id)}

\* The cursor at an entry has behind it what is older than the entry.
CursorOf(id) == [reservedAt |-> rows[id].reservedAt, id |-> id]

LEMMA BehindEntry ==
  ASSUME TypeOK, NEW x \in Made, NEW y \in Made
  PROVE  Behind(y, CursorOf(x)) <=> Newer(x, y)
<1>1. /\ x \in Nat /\ y \in Nat
      /\ rows[x].reservedAt \in Nat /\ rows[y].reservedAt \in Nat
  BY MadeTimes
<1>2. CursorOf(x).reservedAt = rows[x].reservedAt /\ CursorOf(x).id = x
  BY DEF CursorOf
<1>3. QED
  BY <1>1, <1>2 DEF Behind, Newer

\* What is behind a cursor is older than what is not.
LEMMA CursorSeparates ==
  ASSUME TypeOK, next # None, NEW x \in Made, NEW y \in Made, ~ Behind(x, next), Behind(y, next)
  PROVE  Newer(x, y)
<1>1. /\ x \in Nat /\ y \in Nat
      /\ rows[x].reservedAt \in Nat /\ rows[y].reservedAt \in Nat
  BY MadeTimes
<1>2. next.reservedAt \in Nat /\ next.id \in Nat
  <2>1. next \in [reservedAt : Times, id : Ids]
    BY DEF TypeOK
  <2>2. next.reservedAt \in Times /\ next.id \in Ids
    BY <2>1
  <2>3. Ids \subseteq Nat /\ Times \subseteq Nat
    BY PagingAssumption DEF Times
  <2>4. QED
    BY <2>2, <2>3
<1>3. QED
  BY <1>1, <1>2 DEF Behind, Newer

\* Of two entries the newer has fewer before it.
LEMMA FewerBefore ==
  ASSUME TypeOK, NEW S \in SUBSET Made, IsFiniteSet(S), NEW x \in S, NEW y \in S, Newer(x, y)
  PROVE  /\ Cardinality(NewerIn(S, x)) \in Nat /\ Cardinality(NewerIn(S, y)) \in Nat
         /\ Cardinality(NewerIn(S, x)) <= Cardinality(NewerIn(S, y))
<1>1. NewerIn(S, y) \in SUBSET S
  BY DEF NewerIn
<1>2. IsFiniteSet(NewerIn(S, y))
  BY <1>1, FS_Subset
<1>3. \A z \in S : Newer(z, x) => Newer(z, y)
  BY NewerOrders
<1>4. NewerIn(S, x) \in SUBSET NewerIn(S, y)
  BY <1>3 DEF NewerIn
<1>5. IsFiniteSet(NewerIn(S, x)) /\ Cardinality(NewerIn(S, x)) <= Cardinality(NewerIn(S, y))
  BY <1>2, <1>4, FS_Subset
<1>6. QED
  BY <1>2, <1>5, FS_CardinalityType

\* What a page takes is newer than what it leaves.
LEMMA TakenAreNewer ==
  ASSUME TypeOK, NEW S \in SUBSET Made, IsFiniteSet(S), NEW n \in Nat,
         NEW x \in Take(S, n), NEW y \in S \ Take(S, n)
  PROVE  Newer(x, y)
<1>1. x \in S /\ y \in S /\ x # y
  BY DEF Take
<1>2. Cardinality(NewerIn(S, x)) < n /\ ~ (Cardinality(NewerIn(S, y)) < n)
  BY DEF Take, NewerIn
<1>3. CASE Newer(y, x)
  <2>1. /\ Cardinality(NewerIn(S, x)) \in Nat /\ Cardinality(NewerIn(S, y)) \in Nat
        /\ Cardinality(NewerIn(S, y)) <= Cardinality(NewerIn(S, x))
    BY <1>1, <1>3, FewerBefore
  <2>2. QED
    BY <1>2, <2>1
<1>4. CASE ~ Newer(y, x)
  BY <1>1, <1>4, NewerOrders
<1>5. QED
  BY <1>3, <1>4

\* A page takes something where there is something.
LEMMA TakesSome ==
  ASSUME TypeOK, NEW S \in SUBSET Made, IsFiniteSet(S), S # {}, NEW n \in Nat \ {0}
  PROVE  Take(S, n) # {}
<1>1. PICK f \in S : \A x \in S : ~ Newer(x, f)
  BY FirstAndLast
<1>2. NewerIn(S, f) = {}
  BY <1>1 DEF NewerIn
<1>3. Cardinality(NewerIn(S, f)) < n
  BY <1>2, FS_EmptySet
<1>4. f \in Take(S, n)
  BY <1>3 DEF Take, NewerIn
<1>5. QED
  BY <1>4

\* A page as large as what there is takes it all.
LEMMA TakesAll ==
  ASSUME TypeOK, NEW S \in SUBSET Made, IsFiniteSet(S), NEW n \in Nat, Cardinality(S) <= n
  PROVE  Take(S, n) = S
<1>1. SUFFICES ASSUME NEW x \in S PROVE Cardinality(NewerIn(S, x)) < n
  BY DEF Take, NewerIn
<1>2. ~ Newer(x, x)
  BY NewerOrders
<1>3. NewerIn(S, x) \in SUBSET (S \ {x})
  BY <1>2 DEF NewerIn
<1>4. IsFiniteSet(S \ {x}) /\ Cardinality(S \ {x}) = Cardinality(S) - 1
  BY FS_RemoveElement
<1>5. Cardinality(NewerIn(S, x)) <= Cardinality(S) - 1 /\ IsFiniteSet(NewerIn(S, x))
  BY <1>3, <1>4, FS_Subset
<1>6. Cardinality(S) \in Nat /\ Cardinality(NewerIn(S, x)) \in Nat
  BY <1>5, FS_CardinalityType
<1>7. QED
  BY <1>5, <1>6

\* A page smaller than what there is leaves the last of it.
LEMMA LeavesSome ==
  ASSUME TypeOK, NEW S \in SUBSET Made, IsFiniteSet(S), NEW n \in Nat, Cardinality(S) > n
  PROVE  S \ Take(S, n) # {}
<1>1. S # {}
  BY FS_EmptySet
<1>2. PICK l \in S : \A x \in S : x = l \/ Newer(x, l)
  BY <1>1, FirstAndLast
<1>3. ~ Newer(l, l)
  BY NewerOrders
<1>4. NewerIn(S, l) = S \ {l}
  BY <1>2, <1>3 DEF NewerIn
<1>5. Cardinality(NewerIn(S, l)) = Cardinality(S) - 1 /\ Cardinality(S) \in Nat
  BY <1>4, FS_RemoveElement, FS_CardinalityType
<1>6. l \notin Take(S, n)
  BY <1>5 DEF Take, NewerIn
<1>7. QED
  BY <1>6

\* One row more than a page holds: fewer than that are all there are.
LEMMA FewAreAll ==
  ASSUME TypeOK, NEW S \in SUBSET Made, IsFiniteSet(S), NEW n \in Nat,
         Cardinality(Take(S, n + 1)) <= n
  PROVE  Take(S, n + 1) = S
<1> DEFINE left == S \ Take(S, n + 1)
<1>1. SUFFICES ASSUME left # {} PROVE FALSE
  BY DEF Take
<1>2. Take(S, n + 1) \in SUBSET S /\ left \in SUBSET S
  BY DEF Take
<1>3. IsFiniteSet(left) /\ IsFiniteSet(Take(S, n + 1))
  BY <1>2, FS_Subset
<1>4. PICK f \in left : \A x \in left : ~ Newer(x, f)
  BY <1>1, <1>2, <1>3, FirstAndLast
<1>5. NewerIn(S, f) \in SUBSET Take(S, n + 1)
  BY <1>4 DEF NewerIn
<1>6. IsFiniteSet(NewerIn(S, f)) /\ Cardinality(NewerIn(S, f)) <= Cardinality(Take(S, n + 1))
  BY <1>3, <1>5, FS_Subset
<1>7. Cardinality(NewerIn(S, f)) \in Nat /\ Cardinality(Take(S, n + 1)) \in Nat
  BY <1>3, <1>6, FS_CardinalityType
<1>8. Cardinality(NewerIn(S, f)) < n + 1
  BY <1>6, <1>7
<1>9. f \in Take(S, n + 1)
  BY <1>8 DEF Take, NewerIn
<1>10. QED
  BY <1>9

\* The cursor of a page is that of its oldest entry.
LEMMA CursorIsLast ==
  ASSUME TypeOK, NEW S \in SUBSET Made, IsFiniteSet(S), S # {}
  PROVE  \E l \in S : /\ CursorAt(S) = CursorOf(l)
                      /\ \A x \in S : x = l \/ Newer(x, l)
<1> DEFINE last == CHOOSE id \in S : \A x \in S : x = id \/ Newer(x, id)
<1>1. last \in S /\ \A x \in S : x = last \/ Newer(x, last)
  <2>1. \E l \in S : \A x \in S : x = l \/ Newer(x, l)
    BY FirstAndLast
  <2>2. QED
    BY <2>1
<1>2. CursorAt(S) = CursorOf(last)
  BY DEF CursorAt, CursorOf
<1> HIDE DEF last
<1>3. QED
  BY <1>1, <1>2

-----------------------------------------------------------------------------
(* Reservations.  What changes a row leaves its time, and so the order,    *)
(* alone.                                                                  *)

\* A sequence of sets is one of sets that may be larger.
LEMMA SeqOfLarger ==
  ASSUME NEW S, NEW T, S \subseteq T, NEW s \in Seq(SUBSET S)
  PROVE  s \in Seq(SUBSET T)
OBVIOUS

LEMMA InitPaging == Init => PagingInv
<1> SUFFICES ASSUME Init PROVE PagingInv
  OBVIOUS
<1>1. Made = {} /\ pages = <<>> /\ atStart = {} /\ listing = "no"
  BY DEF Init, Made
<1>2. TypeOK
  <2>1. rows \in [Ids -> ReservationTimes \union {None}] /\ clock \in [Instances -> Times]
    BY DEF Init
  <2>2. pages \in Seq(SUBSET Made) /\ atStart \subseteq Made
    BY <1>1
  <2>3. next \in [reservedAt : Times, id : Ids] \union {None} /\ filter = None
    BY DEF Init
  <2>4. QED
    BY <1>1, <2>1, <2>2, <2>3 DEF TypeOK
<1>3. ReservationsInv
  BY <1>1, <1>2, FS_EmptySet DEF ReservationsInv
<1>4. CursorBehindPages /\ ReleasedStay /\ RestRemains /\ MoreWaits
  BY <1>1 DEF CursorBehindPages, ReleasedStay, RestRemains, MoreWaits
<1>5. EveryPageContinues /\ NothingSkipped /\ AnnouncedPageIsThere
  BY <1>1 DEF EveryPageContinues, NothingSkipped, AnnouncedPageIsThere
<1>6. QED
  BY <1>3, <1>4, <1>5 DEF PagingInv, ListingInv

\* The rows change to rows that can be read back; those made stay, with their times.
RowsGrow ==
  /\ rows' \in [Ids -> ReservationTimes \union {None}]
  /\ Made \subseteq Made'
  /\ \A x \in Made : /\ rows'[x].reservedAt = rows[x].reservedAt
                     /\ rows'[x].status \in {rows[x].status, "RELEASED"}

LEMMA ReserveGrows ==
  ASSUME TypeOK, NEW i \in Instances, NEW id \in Ids, Reserve(i, id)
  PROVE  RowsGrow /\ Made' \subseteq Made \union {id}
<1> DEFINE new == [status |-> "ACTIVE", reservedAt |-> clock[i], releasedAt |-> None]
<1>1. new \in ReservationTimes
  BY DEF TypeOK, ReservationTimes
<1>2. rows \in [Ids -> ReservationTimes \union {None}] /\ rows[id] = None
      /\ rows' = [rows EXCEPT ![id] = new]
  BY DEF TypeOK, Reserve
<1> HIDE DEF new
<1>3. rows' \in [Ids -> ReservationTimes \union {None}]
      /\ \A x \in Ids : x # id => rows'[x] = rows[x]
  BY <1>1, <1>2
<1>4. \A x \in Made : x \in Ids /\ x # id /\ rows[x] # None
  BY <1>2 DEF Made
<1>5. QED
  BY <1>3, <1>4 DEF RowsGrow, Made

\* A repayment is recorded no earlier than its reservation.
LEMMA ReleaseGrows ==
  ASSUME TypeOK, NEW i \in Instances, NEW id \in Ids, Release(i, id)
  PROVE  RowsGrow /\ Made' \subseteq Made
<1> DEFINE at == RepaymentTime(i, rows[id])
           row == rows'[id]
<1>1. /\ rows \in [Ids -> ReservationTimes \union {None}] /\ clock[i] \in Times
      /\ rows[id] # None
  BY DEF TypeOK, Release
<1>2. rows[id] \in ReservationTimes
  BY <1>1
<1>3. rows[id].reservedAt \in Times /\ Times \subseteq Nat
  BY <1>2, PagingAssumption DEF ReservationTimes, Times
<1>4. at \in Times /\ at \in Nat /\ ~ (at < rows[id].reservedAt) /\ at >= rows[id].reservedAt
  <2>1. /\ rows[id].reservedAt \in Nat /\ clock[i] \in Nat
        /\ at = IF clock[i] > rows[id].reservedAt THEN clock[i] ELSE rows[id].reservedAt
    BY <1>1, <1>3 DEF RepaymentTime
  <2> HIDE DEF at
  <2>2. at \in {clock[i], rows[id].reservedAt} /\ at >= rows[id].reservedAt
    BY <2>1
  <2>3. at \in Times /\ at \in Nat
    BY <1>1, <1>3, <2>1, <2>2
  <2>4. QED
    BY <2>1, <2>2, <2>3
<1>5. rows' = [rows EXCEPT ![id].status = "RELEASED", ![id].releasedAt = at]
  BY <1>4 DEF Release
<1> HIDE DEF at
<1>6. /\ \A x \in Ids : x # id => rows'[x] = rows[x]
      /\ DOMAIN rows' = Ids
      /\ row = [rows[id] EXCEPT !.status = "RELEASED", !.releasedAt = at]
      /\ rows' = [x \in Ids |-> rows'[x]]
  BY <1>1, <1>5
<1>7. rows[id] \in [status : {"ACTIVE", "RELEASED"}, reservedAt : Times,
                    releasedAt : Times \union {None}]
  BY <1>2 DEF ReservationTimes
<1>8. /\ row.status = "RELEASED" /\ row.releasedAt = at /\ row.reservedAt = rows[id].reservedAt
      /\ row \in [status : {"ACTIVE", "RELEASED"}, reservedAt : Times,
                  releasedAt : Times \union {None}]
  BY <1>4, <1>6, <1>7
<1>9. row.releasedAt # None
  BY <1>4, <1>8, PagingAssumption
<1>10. row \in ReservationTimes
  BY <1>4, <1>8, <1>9 DEF ReservationTimes
<1>11. row # None
  BY <1>10, NoneAssumption
<1>12. rows' \in [Ids -> ReservationTimes \union {None}]
  BY <1>1, <1>6, <1>10
<1>13. Made' = Made
  BY <1>1, <1>6, <1>11 DEF Made
<1>14. \A x \in Made : /\ rows'[x].reservedAt = rows[x].reservedAt
                       /\ rows'[x].status \in {rows[x].status, "RELEASED"}
  BY <1>6, <1>8 DEF Made
<1>15. QED
  BY <1>5, <1>12, <1>13, <1>14 DEF RowsGrow

\* The types do not mind that rows grow.
LEMMA GrowthTypeOK ==
  ASSUME TypeOK, RowsGrow, UNCHANGED clock, UNCHANGED listingVars
  PROVE  TypeOK'
<1>1. UNCHANGED <<filter, next, pages, atStart, listing>>
  BY DEF listingVars
<1>2. pages \in Seq(SUBSET Made')
  BY SeqOfLarger DEF TypeOK, RowsGrow
<1>3. QED
  BY <1>1, <1>2 DEF TypeOK, RowsGrow

\* Nor does a listing: the order of what it was shown, and of what is behind its
\* cursor, stays; what loses the status asked for is not owed to it any more.
LEMMA GrowthKeepsListing ==
  ASSUME PagingInv, RowsGrow, UNCHANGED listingVars
  PROVE  ListingInv'
<1>1. UNCHANGED <<filter, next, pages, atStart, listing>>
  BY DEF listingVars
<1>2. TypeOK
  BY DEF PagingInv, ReservationsInv
<1>3. \A k \in DOMAIN pages : pages[k] \subseteq Made
  BY <1>2 DEF TypeOK
<1>4. Shown' = Shown /\ Shown \subseteq Made /\ atStart \subseteq Made
  BY <1>1, <1>2, <1>3 DEF Shown, TypeOK
<1>5. \A x, y \in Made : Newer(x, y)' <=> Newer(x, y)
  BY DEF RowsGrow, Newer
<1>6. \A x \in Made : Behind(x, next)' <=> Behind(x, next)
  BY <1>1 DEF RowsGrow, Behind
<1>7. CursorBehindPages'
  BY <1>1, <1>4, <1>6 DEF PagingInv, ListingInv, CursorBehindPages
<1>8. ReleasedStay'
  BY <1>1, <1>4 DEF PagingInv, ListingInv, ReleasedStay, RowsGrow
<1>9. atStart \intersect Matching' \subseteq Matching
  <2> SUFFICES ASSUME NEW x \in atStart, x \in Matching' PROVE HasStatus(x, filter)
    BY <1>4 DEF Matching
  <2>1. HasStatus(x, filter)'
    BY DEF Matching
  <2>2. x \in Made /\ rows'[x].status \in {rows[x].status, "RELEASED"}
    BY <1>4 DEF RowsGrow
  <2>3. filter = "RELEASED" => rows[x].status = "RELEASED"
    BY DEF PagingInv, ListingInv, ReleasedStay
  <2>4. QED
    BY <1>1, <2>1, <2>2, <2>3 DEF HasStatus
<1>10. Remaining \intersect Matching' \subseteq Remaining'
  BY <1>1, <1>6 DEF Remaining, Matching
<1>11. RestRemains'
  BY <1>1, <1>4, <1>9, <1>10 DEF PagingInv, ListingInv, RestRemains
<1>12. MoreWaits'
  <2> SUFFICES ASSUME listing = "yes", filter = None, next # None PROVE Remaining' # {}
    BY <1>1 DEF MoreWaits
  <2>1. PICK x \in Remaining : TRUE
    BY DEF PagingInv, ListingInv, MoreWaits
  <2>2. x \in Made' /\ HasStatus(x, filter)'
    BY <1>1, <2>1 DEF Remaining, Matching, RowsGrow, HasStatus
  <2>3. x \in Matching'
    BY <2>2 DEF Matching
  <2>4. QED
    BY <1>10, <2>1, <2>3
<1>13. EveryPageContinues'
  BY <1>1, <1>3, <1>5 DEF PagingInv, ListingInv, EveryPageContinues
<1>14. NothingSkipped'
  <2>1. NothingSkipped /\ (listing' = "done" => listing = "done")
    BY <1>1 DEF PagingInv, ListingInv
  <2>2. QED
    BY <2>1, <1>1, <1>9 DEF NothingSkipped
<1>15. AnnouncedPageIsThere'
  BY <1>1 DEF PagingInv, ListingInv, AnnouncedPageIsThere
<1>16. QED
  BY <1>7, <1>8, <1>11, <1>12, <1>13, <1>14, <1>15 DEF ListingInv

\* Time, a reservation or its release keeps the invariant.
LEMMA ReservationSteps ==
  ASSUME PagingInv, NEW i \in Instances,
         Advance(i) \/ \E id \in Ids : Reserve(i, id) \/ Release(i, id)
  PROVE  PagingInv'
<1>1. TypeOK /\ IsFiniteSet(Made)
  BY DEF PagingInv, ReservationsInv
<1>2. UNCHANGED listingVars
  BY DEF Advance, Reserve, Release
<1>3. CASE Advance(i)
  <2>1. UNCHANGED rows /\ RowsGrow
    BY <1>1, <1>3 DEF Advance, RowsGrow, TypeOK, Made
  <2>2. clock' \in [Instances -> Times]
    BY <1>1, <1>3, PagingAssumption DEF Advance, TypeOK, Times
  <2>3. TypeOK'
    BY <1>1, <1>2, <2>1, <2>2 DEF TypeOK, Made, listingVars
  <2>4. ReservationsInv'
    BY <1>1, <2>1, <2>3 DEF ReservationsInv, Made
  <2>5. QED
    BY <1>2, <2>1, <2>4, GrowthKeepsListing DEF PagingInv
<1>4. ASSUME NEW id \in Ids, Reserve(i, id) \/ Release(i, id) PROVE PagingInv'
  <2>1. RowsGrow /\ Made' \subseteq Made \union {id} /\ clock' = clock
    <3>1. CASE Reserve(i, id)
      BY <1>1, <3>1, ReserveGrows DEF Reserve
    <3>2. CASE Release(i, id)
      BY <1>1, <3>2, ReleaseGrows DEF Release
    <3>3. QED
      BY <1>4, <3>1, <3>2
  <2>2. TypeOK'
    BY <1>1, <1>2, <2>1, GrowthTypeOK
  <2>3. IsFiniteSet(Made')
    BY <1>1, <2>1, FS_AddElement, FS_Subset
  <2>4. ReservationsInv'
    BY <1>1, <2>1, <2>2, <2>3 DEF ReservationsInv
  <2>5. QED
    BY <1>2, <2>1, <2>4, GrowthKeepsListing DEF PagingInv
<1>5. QED
  BY <1>3, <1>4

-----------------------------------------------------------------------------
(* Listings. *)

\* A step of the client leaves the reservations alone.
LEMMA ClientKeepsReservations ==
  ASSUME PagingInv, UNCHANGED reservationVars,
         filter' \in {None, "ACTIVE", "RELEASED"},
         next' \in [reservedAt : Times, id : Ids] \union {None},
         pages' \in Seq(SUBSET Made), atStart' \subseteq Made, listing' \in {"no", "yes", "done"}
  PROVE  ReservationsInv' /\ Made' = Made
<1>1. UNCHANGED <<clock, rows>>
  BY DEF reservationVars
<1>2. Made' = Made
  BY <1>1 DEF Made
<1>3. TypeOK'
  BY <1>1, <1>2 DEF PagingInv, ReservationsInv, TypeOK
<1>4. QED
  BY <1>1, <1>2, <1>3 DEF PagingInv, ReservationsInv

\* A listing that begins has everything to show.
LEMMA BeginStep ==
  ASSUME PagingInv, NEW status \in {None, "ACTIVE", "RELEASED"}, Begin(status)
  PROVE  PagingInv'
<1>1. /\ filter' = status /\ next' = None /\ pages' = <<>> /\ listing' = "yes"
      /\ atStart' = {id \in Made : HasStatus(id, status)}
      /\ rows' = rows /\ UNCHANGED reservationVars
  BY DEF Begin, reservationVars
<1>2. ReservationsInv' /\ Made' = Made
  BY <1>1, ClientKeepsReservations
<1>3. Matching' = atStart' /\ Remaining' = Matching'
  BY <1>1, <1>2 DEF Matching, Remaining, HasStatus
<1>4. status = "RELEASED" => \A id \in atStart' : rows[id].status = "RELEASED"
  BY <1>1, PagingAssumption DEF HasStatus
<1>5. CursorBehindPages' /\ ReleasedStay' /\ RestRemains' /\ MoreWaits'
  BY <1>1, <1>3, <1>4 DEF CursorBehindPages, ReleasedStay, RestRemains, MoreWaits
<1>6. EveryPageContinues' /\ NothingSkipped' /\ AnnouncedPageIsThere'
  BY <1>1 DEF EveryPageContinues, NothingSkipped, AnnouncedPageIsThere
<1>7. QED
  BY <1>2, <1>5, <1>6 DEF PagingInv, ListingInv

\* A malformed cursor ends a listing without an answer.
LEMMA MalformedCursorStep ==
  ASSUME PagingInv, SendMalformedCursor
  PROVE  PagingInv'
<1>1. /\ listing' = "no" /\ UNCHANGED <<filter, next, pages, atStart, clock, rows>>
      /\ UNCHANGED reservationVars
  BY DEF SendMalformedCursor, reservationVars
<1>2. ReservationsInv'
  BY <1>1, ClientKeepsReservations DEF PagingInv, ReservationsInv, TypeOK
<1>3. CursorBehindPages' /\ ReleasedStay' /\ RestRemains' /\ MoreWaits'
  BY <1>1 DEF PagingInv, ListingInv, CursorBehindPages, ReleasedStay, RestRemains, MoreWaits
<1>4. EveryPageContinues' /\ NothingSkipped' /\ AnnouncedPageIsThere'
  BY <1>1 DEF PagingInv, ListingInv, EveryPageContinues, NothingSkipped, AnnouncedPageIsThere,
              Newer
<1>5. QED
  BY <1>2, <1>3, <1>4 DEF PagingInv, ListingInv

\* What a page shows is of what remains.  If another is announced, the cursor parts
\* the page from the rest, and there is a rest; if none is, there is no rest.
LEMMA PageParts ==
  ASSUME TypeOK, IsFiniteSet(Made), NEW limit \in Nat \ {0}
  PROVE  LET found == ListReservations(limit + 1)
             items == Take(found, limit)
         IN  /\ items \subseteq Remaining
             /\ items = {} => Remaining = {}
             /\ IF AnotherPage(found, limit) /\ items # {}
                THEN \E last \in items :
                       /\ CursorAt(items) = CursorOf(last)
                       /\ \A x \in items : ~ Newer(last, x)
                       /\ \A y \in Remaining \ items : Newer(last, y)
                       /\ Remaining \ items # {}
                ELSE items = Remaining
<1> DEFINE found == ListReservations(limit + 1)
           items == Take(found, limit)
<1>1. Remaining \in SUBSET Made /\ IsFiniteSet(Remaining)
  BY FS_Subset DEF Remaining, Matching
<1>2. found = Take(Remaining, limit + 1)
  BY DEF ListReservations, Remaining
<1>3. found \in SUBSET Remaining /\ found \in SUBSET Made /\ items \in SUBSET found
  BY <1>1, <1>2 DEF Take
<1>4. IsFiniteSet(found) /\ IsFiniteSet(items)
  BY <1>1, <1>3, FS_Subset
<1>5. limit \in Nat /\ limit + 1 \in Nat /\ limit + 1 \in Nat \ {0}
  OBVIOUS
<1>6. items = {} => Remaining = {}
  <2>1. items = {} => found = {}
    BY <1>3, <1>4, TakesSome
  <2>2. found = {} => Remaining = {}
    BY <1>1, <1>2, <1>5, TakesSome
  <2>3. QED
    BY <2>1, <2>2
<1>7. Cardinality(found) \in Nat
  BY <1>4, FS_CardinalityType
<1>8. ASSUME Cardinality(found) > limit, items # {}
      PROVE  \E last \in items : /\ CursorAt(items) = CursorOf(last)
                                 /\ \A x \in items : ~ Newer(last, x)
                                 /\ \A y \in Remaining \ items : Newer(last, y)
                                 /\ Remaining \ items # {}
  <2>1. PICK last \in items : /\ CursorAt(items) = CursorOf(last)
                              /\ \A x \in items : x = last \/ Newer(x, last)
    <3>1. items \in SUBSET Made
      BY <1>3
    <3> HIDE DEF items
    <3>2. QED
      BY <1>4, <1>8, <3>1, CursorIsLast
  <2>2. last \in Made /\ last \in found
    BY <1>3
  <2>3. \A x \in items : ~ Newer(last, x)
    <3>1. SUFFICES ASSUME NEW x \in items, Newer(last, x) PROVE FALSE
      OBVIOUS
    <3>2. x \in Made /\ (x = last \/ Newer(x, last))
      BY <1>3, <2>1
    <3>3. Newer(last, last)
      BY <2>2, <3>1, <3>2, NewerOrders
    <3>4. QED
      BY <2>2, <3>3, NewerOrders
  <2>4. \A y \in Remaining \ items : Newer(last, y)
    <3>1. SUFFICES ASSUME NEW y \in Remaining, y \notin items PROVE Newer(last, y)
      OBVIOUS
    <3>2. CASE y \in found
      BY <1>3, <1>4, <1>5, <3>1, <3>2, TakenAreNewer
    <3>3. CASE y \notin found
      BY <1>1, <1>2, <1>5, <2>2, <3>1, <3>3, TakenAreNewer
    <3>4. QED
      BY <3>2, <3>3
  <2>5. found \ items # {}
    BY <1>3, <1>4, <1>5, <1>8, LeavesSome
  <2>6. Remaining \ items # {}
    BY <1>3, <2>5
  <2>7. QED
    BY <2>1, <2>3, <2>4, <2>6
<1>9. ASSUME ~ (Cardinality(found) > limit) PROVE items = Remaining
  <2>1. Cardinality(found) <= limit
    BY <1>5, <1>7, <1>9
  <2>2. items = found
    BY <1>3, <1>4, <1>5, <2>1, TakesAll
  <2>3. found = Remaining
    BY <1>1, <1>2, <1>5, <2>1, FewAreAll
  <2>4. QED
    BY <2>2, <2>3
<1>10. items = {} => items = Remaining
  BY <1>6
<1>11. items \subseteq Remaining
  BY <1>3
<1> HIDE DEF items, found
<1>12. QED
  <2>1. /\ items \subseteq Remaining
        /\ items = {} => Remaining = {}
        /\ IF AnotherPage(found, limit) /\ items # {}
           THEN \E last \in items : /\ CursorAt(items) = CursorOf(last)
                                    /\ \A x \in items : ~ Newer(last, x)
                                    /\ \A y \in Remaining \ items : Newer(last, y)
                                    /\ Remaining \ items # {}
           ELSE items = Remaining
    BY <1>6, <1>8, <1>9, <1>10, <1>11 DEF AnotherPage
  <2>2. QED
    BY <2>1 DEF items, found


\* A page adds what it shows to what was shown.
LEMMA PageAppended ==
  ASSUME TypeOK, NEW items \in SUBSET Made, pages' = Append(pages, items)
  PROVE  /\ Len(pages) \in Nat /\ DOMAIN pages = 1..Len(pages)
         /\ DOMAIN pages' = 1..(Len(pages) + 1)
         /\ \A k \in 1..Len(pages) : pages'[k] = pages[k]
         /\ pages'[Len(pages) + 1] = items
         /\ pages' \in Seq(SUBSET Made)
         /\ Shown' = Shown \union items
<1>1. pages \in Seq(SUBSET Made)
  BY DEF TypeOK
<1>2. /\ Len(pages) \in Nat /\ DOMAIN pages = 1..Len(pages)
      /\ DOMAIN pages' = 1..(Len(pages) + 1)
      /\ \A k \in 1..Len(pages) : pages'[k] = pages[k]
      /\ pages'[Len(pages) + 1] = items
      /\ pages' \in Seq(SUBSET Made)
  BY <1>1
<1>3. 1..(Len(pages) + 1) = (1..Len(pages)) \union {Len(pages) + 1}
  BY <1>2
<1>4. Shown' = Shown \union items
  BY <1>2, <1>3 DEF Shown
<1>5. QED
  BY <1>2, <1>4

\* A page continues where the last one ended, and leaves behind its cursor all that
\* it does not show.
LEMMA ReadPageStep ==
  ASSUME PagingInv, NEW limit \in PageSizes, ReadPage(limit)
  PROVE  PagingInv'
<1> DEFINE found == ListReservations(limit + 1)
           items == Take(found, limit)
           n == Len(pages)
           More == AnotherPage(found, limit) /\ items # {}
<1>1. TypeOK /\ IsFiniteSet(Made) /\ limit \in Nat \ {0}
  BY PagingAssumption DEF PagingInv, ReservationsInv
<1>2. /\ listing = "yes" /\ pages' = Append(pages, items)
      /\ More => next' = CursorAt(items) /\ listing' = "yes"
      /\ ~ More => next' = None /\ listing' = "done"
      /\ UNCHANGED <<filter, atStart, clock, rows>> /\ UNCHANGED reservationVars
  BY DEF ReadPage, reservationVars
<1>3. /\ items \subseteq Remaining
      /\ items = {} => Remaining = {}
      /\ More => \E last \in items : /\ CursorAt(items) = CursorOf(last)
                                     /\ \A x \in items : ~ Newer(last, x)
                                     /\ \A y \in Remaining \ items : Newer(last, y)
                                     /\ Remaining \ items # {}
      /\ ~ More => items = Remaining
  BY <1>1, PageParts
<1> HIDE DEF found, items, More
<1>4. Remaining \subseteq Made /\ items \in SUBSET Made /\ Remaining \subseteq Matching
  BY <1>3 DEF Remaining, Matching
<1>5. /\ n \in Nat /\ DOMAIN pages = 1..n /\ DOMAIN pages' = 1..(n + 1)
      /\ \A k \in 1..n : pages'[k] = pages[k]
      /\ pages'[n + 1] = items
      /\ pages' \in Seq(SUBSET Made)
      /\ Shown' = Shown \union items
  BY <1>1, <1>2, <1>4, PageAppended
<1>6. /\ \A k \in 1..n : pages[k] \subseteq Shown
      /\ Shown \subseteq Made
  BY <1>1, <1>5 DEF Shown, TypeOK
<1>7. IF next = None THEN pages = <<>> /\ n = 0 /\ Shown = {}
      ELSE \A x \in Shown : ~ Behind(x, next)
  BY <1>2 DEF PagingInv, ListingInv, CursorBehindPages, Shown
<1>8. \A x \in Shown, y \in Remaining : Newer(x, y)
  <2> SUFFICES ASSUME NEW x \in Shown, NEW y \in Remaining PROVE Newer(x, y)
    OBVIOUS
  <2>1. next # None /\ ~ Behind(x, next) /\ Behind(y, next)
    BY <1>7 DEF Remaining
  <2>2. QED
    BY <2>1, <1>1, <1>4, <1>6, CursorSeparates
<1>9. /\ \A x, y : Newer(x, y)' <=> Newer(x, y)
      /\ Made' = Made /\ Matching' = Matching
  BY <1>2 DEF Newer, Made, Matching, HasStatus
<1>10. EveryPageContinues'
  <2> SUFFICES ASSUME NEW j \in 1..(n + 1), NEW k \in 1..(n + 1), j < k,
                      NEW x \in pages'[j], NEW y \in pages'[k]
               PROVE  Newer(x, y)
    BY <1>5, <1>9 DEF EveryPageContinues
  <2>1. j \in 1..n /\ x \in pages[j]
    BY <1>5
  <2>2. CASE k \in 1..n
    BY <1>5, <2>1, <2>2 DEF PagingInv, ListingInv, EveryPageContinues
  <2>3. CASE k = n + 1
    BY <1>3, <1>5, <1>6, <1>8, <2>1, <2>3
  <2>4. QED
    BY <1>5, <2>2, <2>3
<1>11. AnnouncedPageIsThere'
  <2> SUFFICES ASSUME filter = None, NEW k \in 1..(n + 1), k > 1 PROVE pages'[k] # {}
    BY <1>2, <1>5 DEF AnnouncedPageIsThere
  <2>1. CASE k \in 1..n
    BY <1>5, <2>1 DEF PagingInv, ListingInv, AnnouncedPageIsThere
  <2>2. CASE k = n + 1
    <3>1. next # None
      BY <1>5, <1>7, <2>2
    <3>2. Remaining # {}
      BY <1>2, <3>1 DEF PagingInv, ListingInv, MoreWaits
    <3>3. QED
      BY <1>3, <1>5, <2>2, <3>2
  <2>3. QED
    BY <1>5, <2>1, <2>2
<1>12. ReleasedStay'
  BY <1>2 DEF PagingInv, ListingInv, ReleasedStay
<1>13. atStart \intersect Matching \subseteq Shown \union Remaining
  BY <1>2 DEF PagingInv, ListingInv, RestRemains
<1>14. CASE More
  <2>1. PICK last \in items : /\ CursorAt(items) = CursorOf(last)
                              /\ \A x \in items : ~ Newer(last, x)
                              /\ \A y \in Remaining \ items : Newer(last, y)
                              /\ Remaining \ items # {}
    BY <1>3, <1>14
  <2>2. last \in Made /\ last \in Remaining
    BY <1>3, <1>4
  <2>3. next' = CursorOf(last) /\ listing' = "yes"
    BY <1>2, <1>14, <2>1
  <2>4. CursorOf(last) \in [reservedAt : Times, id : Ids]
    BY <1>1, <2>2, MadeTimes DEF CursorOf
  <2>5. next' # None
    BY <2>3, <2>4, NoneAssumption
  <2>6. \A x \in Made : Behind(x, next)' <=> Newer(last, x)
    <3>1. \A x \in Made : Behind(x, CursorOf(last)) <=> Newer(last, x)
      BY <1>1, <2>2, BehindEntry
    <3>2. \A x \in Made : Behind(x, next)' <=> Behind(x, CursorOf(last))
      BY <1>2, <2>3 DEF Behind
    <3>3. QED
      BY <3>1, <3>2
  <2>7. \A x \in Shown : ~ Newer(last, x)
    <3>1. SUFFICES ASSUME NEW x \in Shown, Newer(last, x) PROVE FALSE
      OBVIOUS
    <3>2. x \in Made /\ Newer(x, last)
      BY <1>6, <1>8, <2>2
    <3>3. Newer(x, x)
      BY <1>1, <2>2, <3>1, <3>2, NewerOrders
    <3>4. QED
      BY <1>1, <3>2, <3>3, NewerOrders
  <2>8. ReservationsInv'
    BY <1>1, <1>2, <1>5, <2>3, <2>4, ClientKeepsReservations DEF TypeOK
  <2>9. CursorBehindPages'
    <3>1. \A x \in Shown' : x \in Made /\ ~ Newer(last, x)
      BY <1>4, <1>5, <1>6, <2>1, <2>7
    <3>2. QED
      BY <2>5, <2>6, <3>1 DEF CursorBehindPages
  <2>10. Remaining \ items \subseteq Remaining'
    BY <1>4, <1>9, <2>1, <2>6 DEF Remaining
  <2>11. RestRemains'
    BY <1>2, <1>5, <1>9, <1>13, <2>10 DEF RestRemains
  <2>12. MoreWaits'
    BY <2>1, <2>10 DEF MoreWaits
  <2>13. NothingSkipped'
    BY <2>3 DEF NothingSkipped
  <2>14. QED
    BY <1>10, <1>11, <1>12, <2>8, <2>9, <2>11, <2>12, <2>13 DEF PagingInv, ListingInv
<1>15. CASE ~ More
  <2>1. next' = None /\ listing' = "done" /\ items = Remaining
    BY <1>2, <1>3, <1>15
  <2>2. ReservationsInv'
    BY <1>1, <1>2, <1>5, <2>1, ClientKeepsReservations DEF TypeOK
  <2>3. CursorBehindPages' /\ RestRemains' /\ MoreWaits'
    BY <2>1 DEF CursorBehindPages, RestRemains, MoreWaits
  <2>4. atStart' \intersect Matching' \subseteq Shown'
    BY <1>2, <1>5, <1>9, <1>13, <2>1
  <2>5. NothingSkipped'
    BY <2>4 DEF NothingSkipped, Shown
  <2>6. QED
    BY <1>10, <1>11, <1>12, <2>2, <2>3, <2>5 DEF PagingInv, ListingInv
<1>16. QED
  BY <1>14, <1>15

-----------------------------------------------------------------------------
(* The theorems. *)

LEMMA PagingStep == PagingInv /\ [Next]_vars => PagingInv'
<1> SUFFICES ASSUME PagingInv, [Next]_vars PROVE PagingInv'
  OBVIOUS
<1>1. CASE \E i \in Instances : Advance(i) \/ \E id \in Ids : Reserve(i, id) \/ Release(i, id)
  BY <1>1, ReservationSteps
<1>2. CASE \E status \in {None, "ACTIVE", "RELEASED"} : Begin(status)
  BY <1>2, BeginStep
<1>3. CASE \E limit \in PageSizes : ReadPage(limit)
  BY <1>3, ReadPageStep
<1>4. CASE SendMalformedCursor
  BY <1>4, MalformedCursorStep
<1>5. CASE UNCHANGED vars
  <2>1. UNCHANGED <<clock, rows, filter, next, pages, atStart, listing>>
    BY <1>5 DEF vars
  <2>2. ReservationsInv'
    BY <2>1 DEF PagingInv, ReservationsInv, TypeOK, Made
  <2>3. UNCHANGED listingVars /\ RowsGrow
    BY <2>1 DEF listingVars, RowsGrow, PagingInv, ReservationsInv, TypeOK, Made
  <2>4. QED
    BY <2>2, <2>3, GrowthKeepsListing DEF PagingInv
<1>6. QED
  BY <1>1, <1>2, <1>3, <1>4, <1>5 DEF Next

\* The invariant holds in every state of every behaviour.
THEOREM PagingHolds == Spec => []PagingInv
<1>1. Init => PagingInv
  BY InitPaging
<1>2. PagingInv /\ [Next]_vars => PagingInv'
  BY PagingStep
<1>3. QED
  BY <1>1, <1>2, PTL DEF Spec

\* Every variable has its type: every reservation can be read back.
THEOREM PagingTypeCorrect == Spec => []TypeOK
<1>1. PagingInv => TypeOK
  BY DEF PagingInv, ReservationsInv
<1>2. QED
  BY <1>1, PagingHolds, PTL

\* No entry is shown twice or out of order, whatever is reserved or released
\* between two pages and however the clocks differ.
THEOREM PagesContinue == Spec => []EveryPageContinues
<1>1. PagingInv => EveryPageContinues
  BY DEF PagingInv, ListingInv
<1>2. QED
  BY <1>1, PagingHolds, PTL

\* A listing that has ended has shown all it owed.
THEOREM ListingsAreComplete == Spec => []NothingSkipped
<1>1. PagingInv => NothingSkipped
  BY DEF PagingInv, ListingInv
<1>2. QED
  BY <1>1, PagingHolds, PTL

\* A cursor is given only when something is behind it.
THEOREM AnnouncedPagesAreThere == Spec => []AnnouncedPageIsThere
<1>1. PagingInv => AnnouncedPageIsThere
  BY DEF PagingInv, ListingInv
<1>2. QED
  BY <1>1, PagingHolds, PTL
=============================================================================
