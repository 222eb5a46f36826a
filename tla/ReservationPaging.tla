------------------------- MODULE ReservationPaging -------------------------
(***************************************************************************)
(* A client that lists a program's reservations page by page               *)
(* (ListReservationsHandler and PrismaCapacityReadModel), while instances  *)
(* of the service, whose clocks differ, make and release reservations.     *)
(*                                                                         *)
(* Pages are read at different moments and without a lock.  What ties them *)
(* together is the cursor: the time and id of the last entry shown.  Times *)
(* are whole milliseconds everywhere: in the clock's Date, in the column   *)
(* and in the cursor.  Ids are random; they are numbers here, compared as  *)
(* the database compares them.  The time of a reservation is read under    *)
(* the lock of its program, so one step makes it and commits it.           *)
(***************************************************************************)
EXTENDS Naturals, Sequences, FiniteSets

CONSTANTS Ids,       \* numbers
          Instances,
          MaxTime,   \* bound: how far a clock goes
          PageSizes, \* the limits that a client asks for
          None

ASSUME PagingAssumption ==
  /\ Ids \subseteq Nat /\ MaxTime \in Nat
  /\ PageSizes \subseteq 1..100
  /\ None \notin Nat \union {"ACTIVE", "RELEASED"}

VARIABLES clock,   \* of each instance
          rows,    \* the program's reservations, or None
          filter,  \* the status that the client asks for, or None
          next,    \* the cursor for its next page, None before the first
          pages,   \* what it was shown
          atStart, \* the reservations with that status when it began
          listing  \* "no", "yes", or "done" after the last page

reservationVars == <<clock, rows>>
listingVars == <<filter, next, pages, atStart, listing>>
vars == <<clock, rows, filter, next, pages, atStart, listing>>

Times == 0..MaxTime

\* What a reservation's row must satisfy to be read back.
ReservationTimes ==
  {r \in [status : {"ACTIVE", "RELEASED"}, reservedAt : Times, releasedAt : Times \union {None}] :
     IF r.status = "ACTIVE" THEN r.releasedAt = None
     ELSE r.releasedAt # None /\ r.releasedAt >= r.reservedAt}

\* None is neither a row nor a cursor.
ASSUME NoneAssumption == None \notin ReservationTimes \union [reservedAt : Times, id : Ids]

Made == {id \in Ids : rows[id] # None}

\* Every row can be read back.
TypeOK ==
  /\ clock \in [Instances -> Times]
  /\ rows \in [Ids -> ReservationTimes \union {None}]
  /\ filter \in {None, "ACTIVE", "RELEASED"}
  /\ next \in [reservedAt : Times, id : Ids] \union {None}
  /\ pages \in Seq(SUBSET Made)
  /\ atStart \subseteq Made
  /\ listing \in {"no", "yes", "done"}

-----------------------------------------------------------------------------
(* Reservations. *)

\* Time passes on one instance.
Advance(i) ==
  /\ clock[i] < MaxTime
  /\ clock' = [clock EXCEPT ![i] = @ + 1]
  /\ UNCHANGED rows /\ UNCHANGED listingVars

Reserve(i, id) ==
  /\ rows[id] = None
  /\ rows' = [rows EXCEPT ![id] =
                [status |-> "ACTIVE", reservedAt |-> clock[i], releasedAt |-> None]]
  /\ UNCHANGED clock /\ UNCHANGED listingVars

\* A repayment stamped before its reservation is recorded at the reservation's time.
RepaymentTime(i, reservation) ==
  IF clock[i] > reservation.reservedAt THEN clock[i] ELSE reservation.reservedAt

\* Variant: a release has the instance's own time, and nobody checks it.
ReleaseUnchecked(i, id) ==
  /\ rows[id] # None /\ rows[id].status = "ACTIVE"
  /\ rows' = [rows EXCEPT ![id].status = "RELEASED", ![id].releasedAt = clock[i]]
  /\ UNCHANGED clock /\ UNCHANGED listingVars

\* The repayment that releases a reservation: one older than it is refused.  Other
\* repayments leave its times alone.
Release(i, id) ==
  /\ rows[id] # None /\ rows[id].status = "ACTIVE"
  /\ LET at == RepaymentTime(i, rows[id])
     IN  /\ at >= rows[id].reservedAt
         /\ rows' = [rows EXCEPT ![id].status = "RELEASED", ![id].releasedAt = at]
  /\ UNCHANGED clock /\ UNCHANGED listingVars

-----------------------------------------------------------------------------
(* Listing. *)

\* The order of the entries: by time, then by id, newest first.
Newer(x, y) ==
  \/ rows[x].reservedAt > rows[y].reservedAt
  \/ rows[x].reservedAt = rows[y].reservedAt /\ x > y

\* Variant: the last entry shown is behind itself.
BehindOrAt(id, cursor) ==
  \/ rows[id].reservedAt < cursor.reservedAt
  \/ rows[id].reservedAt = cursor.reservedAt /\ id <= cursor.id

\* Variant: the cursor is a time alone.
BehindInTime(id, cursor) == rows[id].reservedAt < cursor.reservedAt

\* Whether an entry comes after a cursor.
Behind(id, cursor) ==
  \/ rows[id].reservedAt < cursor.reservedAt
  \/ rows[id].reservedAt = cursor.reservedAt /\ id < cursor.id

HasStatus(id, status) == status # None => rows[id].status = status

Matching == {id \in Made : HasStatus(id, filter)}

\* The first n of a set of reservations.
Take(set, n) == {id \in set : Cardinality({x \in set : Newer(x, id)}) < n}

\* What the read model returns: at most n entries after the cursor.
ListReservations(n) ==
  Take({id \in Matching : next # None => Behind(id, next)}, n)

\* Variant: a full page is taken to have another behind it.
AnotherAfterFullPage(found, limit) == Cardinality(found) >= limit

\* One row more than asked for tells that there is another page.
AnotherPage(found, limit) == Cardinality(found) > limit

CursorAt(items) ==
  LET last == CHOOSE id \in items : \A x \in items : x = id \/ Newer(x, id)
  IN  [reservedAt |-> rows[last].reservedAt, id |-> last]

\* The client begins a listing.
Begin(status) ==
  /\ listing # "yes"
  /\ filter' = status
  /\ next' = None /\ pages' = <<>>
  /\ atStart' = {id \in Made : HasStatus(id, status)}
  /\ listing' = "yes"
  /\ UNCHANGED reservationVars

\* It asks for its next page, of any size.
ReadPage(limit) ==
  /\ listing = "yes"
  /\ LET found == ListReservations(limit + 1)
         items == Take(found, limit)
     IN  /\ pages' = Append(pages, items)
         /\ IF AnotherPage(found, limit) /\ items # {}
            THEN next' = CursorAt(items) /\ UNCHANGED listing
            ELSE next' = None /\ listing' = "done"
  /\ UNCHANGED <<filter, atStart>> /\ UNCHANGED reservationVars

\* It sends a cursor that does not decode, and is refused: it may begin again.  A
\* well-formed cursor that no answer gave is served like any other: that listing
\* starts in the middle, and nothing is said of it.
SendMalformedCursor ==
  /\ listing = "yes"
  /\ listing' = "no"
  /\ UNCHANGED <<filter, next, pages, atStart>> /\ UNCHANGED reservationVars

-----------------------------------------------------------------------------
Init ==
  /\ clock \in [Instances -> Times]
  /\ rows = [id \in Ids |-> None]
  /\ filter = None /\ next = None /\ pages = <<>> /\ atStart = {} /\ listing = "no"

Next ==
  \/ \E i \in Instances : \/ Advance(i)
                          \/ \E id \in Ids : Reserve(i, id) \/ Release(i, id)
  \/ \E status \in {None, "ACTIVE", "RELEASED"} : Begin(status)
  \/ \E limit \in PageSizes : ReadPage(limit)
  \/ SendMalformedCursor

Spec == Init /\ [][Next]_vars

-----------------------------------------------------------------------------
(* Properties. *)

\* No entry is shown twice, and each page continues where the last one ended,
\* although reservations are made and released meanwhile, with equal times or with
\* times behind those already shown.
EveryPageContinues ==
  \A j, k \in DOMAIN pages : j < k => \A x \in pages[j], y \in pages[k] : Newer(x, y)

\* A listing that has ended has shown every reservation that had the status asked
\* for when it began and still has it.
NothingSkipped ==
  listing = "done" => atStart \intersect Matching \subseteq UNION {pages[k] : k \in DOMAIN pages}

\* A page that was announced is not empty, unless a status was asked for: then its
\* entries may have lost that status.
AnnouncedPageIsThere ==
  filter = None => \A k \in DOMAIN pages : k > 1 => pages[k] # {}
=============================================================================
