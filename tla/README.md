# Verification of the program capacity service

The service reserves capacity of a credit program for invoices, frees it as invoices are repaid,
and takes each program's credit limit and status from a treasury feed. This directory models it
in TLA+, checks the models with TLC on small instances and proves the central properties with
TLAPS for every value of the constants. What the service promises to the readers of its events is
an abstract specification, and so are its commands: the detailed modules are shown to implement
them.

## The system

| Component | State it keeps | Operations | What makes it correct |
| --- | --- | --- | --- |
| Money, exchange rates (`shared/money`) | none | convert with one rounded division, `CEILING` to reserve and `FLOOR` to release | no rounding, however often repeated, breaches a limit or strands capacity |
| `Program` and `Reservation` (`contexts/capacity/domain`) | limit, counter `reservedAmount`, status, treasury sequence; amounts reserved, repaid, released | reserve, release, apply treasury state | the counter is the sum of the holds; a hold covers what is owed; a refused operation changes nothing |
| Command handlers (`application`) | none | `ReserveCapacity`, `RecordRepayment`, `ApplyTreasuryUpdate` | a repeated request gets its first result; decisions are taken under the program's row lock |
| Persistence (`infrastructure/persistence`) | tables `programs`, `reservations`, `capacity_movements`, `treasury_events`, `outbox_events` | transaction runner, repositories, ledger, outbox | all of a command's rows or none; ledger and outbox agree with the rows; no lock is held for ever |
| Treasury feed (`infrastructure/messaging`) | consumer offsets, backoff per partition | parse, apply, retry, dead-letter | no message is lost or applied twice; the newest state wins |
| Outbox relay (`infrastructure/messaging`) | `published_at`, an advisory lock, the batch in flight | read the oldest unpublished events, send, mark | every event at least once, a program's events in order |
| Read model, paging | none; the client holds a cursor | capacity of a program, pages of reservations | a page neither skips nor repeats what did not change |
| Rate provider | rates fixed at start-up | look a pair up | a rate leads into the program's currency |
| HTTP, IAM, configuration, health | none after start-up | validate, authenticate, render | an error answer tells what happened |

Commands come from HTTP handlers and from the feed's consumers, in any number of instances. They
share nothing but the database: each command is one READ COMMITTED transaction that first locks
its program's row with `SELECT ... FOR UPDATE`. A program that does not exist yet has no row to
lock, so two first messages can both try to open it; the unique indexes decide. The domain
raises events, which the handler writes to the ledger and to the outbox in the same transaction;
the relay publishes the outbox to Kafka later.

What is hard: interleavings of transactions, above all where there is no row to lock; a rate
read before the lock; retries, delayed ones too, and lost acknowledgements; processes that stall
while they hold a lock; messages out of order; rows whose order is fixed before they are seen; two
relays that both believe to hold the lock; pages read while rows come and go; clocks that differ;
rounding over instalments; a limit cut below what is reserved. `PROJECT.json` lists these hazards
line by line with the properties that cover them.

## Modules

| Module | Models |
| --- | --- |
| `CapacityDomain` | the aggregates and the money as pure operators: refusals in their order, results, the checks made of rows that are read back |
| `CapacityRows` | requests, table rows, and what each handler answers and writes given the rows it has read |
| `Capacity` | the abstract specification: the five tables, and each command that changes something as one step |
| `CapacityTransactions` | the three handlers statement by statement, by concurrent workers, with waits, timeouts, lost races and lost connections; it implements `Capacity` |
| `TreasuryFeed` | treasury's topic, the consumers of all instances, what each does with a message, the dead-letter topic; the commands are those of `Capacity` |
| `EventStream` | the abstract specification of the published events: what readers are promised |
| `OutboxRelay` | the outbox table, the relay of each instance, the advisory lock, the producers and the topic `capacity.events`; it implements `EventStream` |
| `ReservationPaging` | a client that lists reservations page by page while they are made and released; the times of reservations |
| `MCCapacity`, `MCCapacityTransactions`, `MCTreasuryFeed`, `MCOutboxRelay`, `MCReservationPaging` | instances for TLC |
| `Totals` | sums of sequences, as a recursive function that can be proved about |
| `ArithmeticTheorems` | lemmas about sums, rounding and holds |
| `CapacityProofs`, `CapacitySafetyProofs`, `CapacityHistoryProofs` | theorems about `Capacity` |
| `CapacityTransactionsProofs` | theorems about `CapacityTransactions`, its refinement of `Capacity` among them |
| `OutboxRelayProofs` | theorems about `OutboxRelay`, its refinement of `EventStream` among them |
| `ReservationPagingProofs` | theorems about `ReservationPaging` |
| `TreasuryFeedProofs` | that no message of treasury is lost or overtaken, and what follows for a program whose messages are in order, for every `TreasuryFeed` |

`TreasuryFeed` instantiates the commands of `Capacity`. `OutboxRelay` begins where `Capacity` ends:
what a command adds to `outbox[p]` in one step is there a transaction that takes positions
(`Insert`), and commits or rolls back.

### How the state corresponds to the code

In `Capacity` and `CapacityTransactions` the variables are the tables. Each maps a program to its
rows, in the order they were committed; `programs[p]` is `None` until the program is opened. A
reservation's id is its index. An amount is a number of minor units with a currency; a rate is
the pair of factors that `ExchangeRate.convert` multiplies and divides by, so conversion is one
rounded division there as here. Left out of the rows: times, free text, payloads and random ids.

`ReserveAnswer`, `RepayAnswer` and `TreasuryAnswer` are the handlers' decisions with every early
return in the code's order; the actions `ReserveCapacity`, `RecordRepaymentFor`,
`OpenFromTreasury`, `UpdateFromTreasury` and `RecordStale` write all that the handlers write:
program row with its version, reservation, ledger row, treasury event, outbox events. A refused
or repeated command changes nothing; it is no action of `Capacity`, and is an answer in
`CapacityTransactions`.

In `CapacityTransactions` a worker goes through the steps of one command: `locking` (the
`SELECT ... FOR UPDATE` is sent), `deciding`, `inserting` or `saving` the program, `recording` the
message, `committing`. What it has written is in its own `writes` and becomes visible at the
commit. Which worker holds a row, and which event id is recorded but not committed, follow from
the workers' steps; `Waits` says when a statement waits for another transaction. `LockTimeout`
is `lock_timeout`, `IdleTimeout` the idle-in-transaction timeout and the runner's own,
`Disconnect` any loss of the connection before the commit, `CommitUnacknowledged` one right
after it. A statement cut off by `statement_timeout` ends as `Disconnect` does, with another
code. The unique indexes on reservations and ledger rows are not reached: the version check of
`SaveProgram` comes before those inserts, and would fail first.

In `TreasuryFeed` the tables are those of `Capacity`, and `topic` keeps every message that treasury
sent. A partition has an `owner`, a `committed` offset and the owner's `position`; `inHand` is the
message a consumer is working on, with the step `applying` (parsing and the command) or `parking`
(the dead-letter topic). `Assign` may take a partition from a consumer that is in the middle of a
message, as the broker does when a consumer does not poll in time: that one goes on with its
message, but its offset is no longer stored. Each way `process` can end is an action. Returning stores
the offset (`Finish`); throwing does not, and the message is delivered again (`RetryLater`). The wait
before the throw, and the count of failures that sets its length, are left out. The client's
automatic commits, crashes and the shutdown order are `AutoCommit`, `Crash` and `Stop`. The command is
one step, which `ImplementsAtomicCommands` justifies; `FailTemporarily` and `ApplyUnacknowledged` are
the ways it can fail.

The outbox of `Capacity` holds domain events. `ToCapacityEventMessage` turns one into what is
published, the fields that are left out aside, and `Replay` is a reader who has nothing else.

In `OutboxRelay` an event is its position, a number. `rows` tells the program of every position
taken; `open[p]` are those of the transaction that now holds the row of program `p`, `committed` the
rows that others see, `published` those with a `published_at`. An instance is `stopped`, `idle`
between ticks, `looping` after a full batch, `locked` inside its transaction, or `sending`.
`wire[i]` is the part of its batch that the broker has not appended; `late[i]` what is left of a send
given up, which may arrive at any time or never. `lock` says whose transaction has the advisory
lock. `LoseTransaction` takes it away while the instance goes on, as a closed connection and the
transaction's timeout do, so that two instances may send at once; an instance learns of it when
it next uses the transaction (`FindTransactionLost`). `SendFails` is the producer's delivery timeout, or
a send whose acknowledgement was lost. Of an instance's failed sends only the last can still
arrive. Ticks of the timer that find a batch in flight, or the lock taken, do nothing and are no
steps.

In `ReservationPaging` a reservation is its status and its two times; `clock[i]` is the time on
instance `i`, and nothing ties the clocks together. Its id is a random UUID, here a number, compared as
the database does. `next` is the cursor the client has; `pages` is what it was shown. `Take` is
`ORDER BY ... LIMIT`, and `ReadPage` one request. A cursor that does not decode is refused
(`SendMalformedCursor`), and the client of the model gives up. A well-formed cursor that no answer gave
is served like any other; the properties are about a client that sends the cursors it was given.
`Release` is the repayment that ends a reservation, at the time of the instance or, if that is earlier,
of the reservation (`RepaymentTime`): `TypeOK` says that no row has a release before its reservation,
however far the clocks are apart.

## Runs

| Run | Question | Instance |
| --- | --- | --- |
| `lending` | do counter, ledger and reservations agree, and does nothing take effect twice? | one program, limit 8; two invoices, one reservation key; amounts 2 USD, 4 EUR and 0 EUR; rates 3/2 and 2/3; four repayment ids with 1 or 2 EUR, 1 or 0 USD, or "the rest" |
| `treasury` | does the newest state win, does the outbox tell it, is a program over its limit only by a cut? | three messages with sequences 1 to 3 in any order, equal sequences too; limits 0, 1 and 3 USD and 3 EUR; reservations among them |
| `reordered` (violation) | does the next message correct an overtaken limit? | four messages, limits 1 and 3, nothing else |
| `transactions` | do interleaved transactions implement the atomic commands? | two workers, six commands each sent any number of times: one invoice reserved, repaid, reserved again under a key; two messages that can each open the program; a second program with the event id of the first |
| `progress` | is every command answered? | two workers, three commands, for ever |
| `unavailable` (violation) | does a 503 to a reservation or a repayment mean that nothing was changed? | the commands of `progress` |
| `feed` | is a message of treasury ever lost, overtaken, or wrongly ignored? | two consumers, two partitions, three messages sent of an opening one, a suspension, a raise, one in another currency, one for a second program under an event id of the first's, and unreadable ones, in any order and any partition, duplicates too |
| `settled` | is every message dealt with in the end? | two consumers, one partition, three messages of an opening one, a suspension and unreadable ones |
| `overtaken` (violation) | would a dead-lettered message always fail? | two partitions, an opening message and a newer suspension |
| `relay` | do readers get each program's events in order, every one, and twice only after a failure? | two instances, two programs, three positions in batches of two, one failure of any kind, one shutdown |
| `unordered` (violation) | do events leave in the order they were written? | two positions, no failure |
| `paging` | does a listing repeat or leave out what was there throughout? | four reservations at two times, two clocks, pages of one and two, with and without a status |

The bounds are large enough for the cases they are about. Two rates make the conversion round in
both directions, and 4 EUR at 2/3 repaid one by one takes three roundings and a remainder. Two
invoices let one reservation's amounts be mistaken for another's. Four repayments repay an invoice in parts
and leave one for its next reservation. Three messages are enough for an overtaken
one and its successor. Two workers are enough for every pair of transactions to interleave; a
lost race needs two, and a retry meets a program that exists for good. Two consumers are enough for one
to be evicted in the middle of a message and to lose the partition again; three messages are
enough for one to be redelivered after two behind it. `MaxSent` bounds the messages sent. Nothing bounds the
length of a behaviour: the sets of invoices, keys, repayment ids and event ids do.
Three positions make a full batch of two and a rest, two commits of one program around one of
another, and a batch that is sent again with a newer event in it. One failure is enough for two
instances to send at once, and for a send given up to arrive after its repetition; the proofs hold
for any number. More reservations than times make equal times, where the id decides, and a
reservation made at a time behind the pages already shown.
`MaxMinorUnits`, the largest BIGINT, is 8 or 3, so that limits reach it. Symmetry
permutes invoices, repayment ids, event ids, workers, consumers or partitions where no constant tells them apart, and
never where liveness is checked. `lending`, `treasury` and `reordered` stop when every id is used up, so
deadlock is not checked there; it is checked for the transactions.

### What the properties say

- `CounterMatchesHolds`, `LedgerExplainsReservations`: counter, holds and ledger tell one story.
- `HoldTracksOutstanding`: a hold is at least what is still owed at the reservation's rate, less
  than two minor units above it, and zero exactly when the invoice is repaid.
- `EveryRowLoads`: each row passes the checks that the next command makes when it reads it.
- `ReservedAgainOnlyUnderNewKey`, `RepaymentAppliedOnce`: retries have no second effect.
- `NothingRewritten`: terms, ledger, event log and outbox are never changed afterwards.
- `OverLimitOnlyByCut`, `FitsBigint`: limits hold although nothing but `reserveFor` enforces them.
- `NewestTreasuryStateWins`, `EventsTellTheState`: the limit and status are the newest applied, and a
  consumer that replays a program's events knows limit, status, availability and reservations.
- `ImplementsAtomicCommands`: the transactions refine `Capacity`; the mapping is the identity on
  the committed tables.
- `DecisionsHoldUntilCommit`: what was decided under the lock is what would be decided at the commit.
- `NoBugAnswered`: no caller gets an answer that the code takes for a bug, even after races.
- `AnswersStand`: a success someone was told of, a duplicate's too, is in the database.
- `EveryCommandAnswered`: under the fairness below, each command that starts is answered.
- `NothingLost`: the committed offset passes a message only once it is recorded or dead-lettered.
- `NothingOvertakes`: nothing behind a message is settled before it.
- `InOrderNothingIgnored`, `ParkedNeverApplied`: for a program whose messages were sent in order,
  redelivery makes no message look stale, and none that was dead-lettered takes effect later.
- `FollowsTreasury`: such a program ends with the last limit sent that it can have, provided treasury
  uses no event id twice, not even for two programs: the second message under an id is dropped as a
  duplicate (`treasury_events_event_id_key` spans all programs).
- `EveryMessageSettled`: every message is recorded or dead-lettered in the end.
- `KeepsPromise`: the relay refines `EventStream`, with its fairness. An event is produced when it
  commits and received when it first appears in the topic.
- `FirstSeenInOrder`, `MarkedIsDelivered`: a program's events first appear in the order of their
  commits, also if a batch is sent twice or late; what is marked is in the topic.
- `TwiceOnlyAfterFailure`: neither a shutdown nor the hand-over of the lock sends an event twice.
- `EveryEventMarked`, `ShutdownEnds`: each event is marked, an instance told to stop stops.
- `EveryPageContinues`, `NothingSkipped`, `AnnouncedPageIsThere`: pages follow one another without
  overlap, leave out nothing that had the status throughout, and the next one exists if announced.

### Fairness

`settled` assumes that each step the feed waits for is taken in the end if it is possible again and
again: a partition without an owner gets one (weak fairness), messages are delivered, the owner's
command is answered, the dead-letter topic takes a message, offsets are committed (strong
fairness). Crashes, evictions and outages may recur for ever between them. The code justifies it by
retrying without a limit, by waiting far less than `max.poll.interval.ms` before a retry, and by taking
every error it does not know for a temporary one. A message whose failure never passes blocks its
partition by design. `Readable` takes every message that parses for one that can be stored; the schema
of `treasury-message.ts` lets unknown fields of the envelope pass and stores the whole body, so that one
the column cannot hold (a NUL in such a field) would block its partition too.

`progress` assumes fairness of the database only: a lock request is granted or times out
(`lock_timeout`), and a transaction that stays idle is rolled back
(`idle_in_transaction_session_timeout` and the transaction timeout of the runner). The runner
sets them in every transaction. Workers get no fairness: a process may stop at any step.
Without `lock_timeout` a worker can wait for ever while the other repeats its command.

`relay` assumes that an instance which runs ticks again and again, is restarted when it has ended,
and ends its shutdown, and that the broker takes what is sent to it (all weak fairness; the timer, the
orchestrator and the producer's retries justify them). Failures are bounded there: a relay that
fails for ever publishes nothing. So are positions: the loop of `outbox-relay.ts:81` ends when a batch is
not full and does not look at the shutdown, so `ShutdownEnds` is about a backlog that does not refill
for ever. Weak fairness is enough for the lock: it is tried, never waited for,
and whoever has it publishes everything that is there.

### Disagreements found

- `reordered`: a program keeps one sequence for limit and status together. A limit
  overtaken by a status change is ignored, and another status change does not correct it, though
  `apply-treasury-update.command.ts` says the next message does. A reconciliation does. The property
  (`NextMessageCorrects`) is about the messages that change the limit alone.
- `unavailable`: when the connection closes after the database committed and before it said so, a
  reservation or a repayment is answered 503 "nothing was changed", and `docs/architecture.md` says the
  same of every 503. `UnavailableChangedNothing` is about these two: a message of treasury comes by
  Kafka, and a failure of its transaction is answered by trying again. The
  retry it asks for is safe (`AnswersStand`, `ReservedAgainOnlyUnderNewKey`,
  `RepaymentAppliedOnce`); the statement is not true.
- `overtaken`: `treasury-message-processor.ts` says that a message is dead-lettered when "the same bytes
  will always fail". A status change for a program that is not open is dead-lettered, and would be
  accepted once the program is open. If it overtakes the message that opens the program, the program
  opens `ACTIVE` although treasury suspended it.
- `unordered`: `docs/architecture.md` and `schema.prisma` say that events leave in the order of their
  positions, because one instance relays at a time. A position is taken when its row is inserted; a
  transaction of another program can take a higher one, commit first and be published first.
  Readers lose nothing: within a program the order holds (`FirstSeenInOrder`), and the relay looks for
  rows without a `published_at` and not behind a cursor.

## Proofs

The theorems about `Capacity` hold for every set of programs, invoices, keys, ids, amounts,
rates and messages, those about `CapacityTransactions` for every set of workers and commands as
well, those about `OutboxRelay` for every set of programs and instances, every size of a
batch and any number of rows, failures and shutdowns, those about `TreasuryFeed` for every set of
partitions, consumers, programs and messages, and those about `ReservationPaging` for every set of
ids and instances, every range of the clocks and every size of a page. They rest on the named
assumptions of the modules: amounts lie within the column's width, a quoted rate leads into the currency it was asked
for, sequences are naturals, a batch has at least one row, a page holds 1 to 100, and `None` is none of the values that stand
beside it, answers included.

- `TypeCorrectness` (`TypeOK`) is not inductive alone: that a release is a natural number needs
  every row to account for itself (`RowAccounts`: what is reserved and released are the rounded
  conversions of the invoice and of what was repaid). `TypeInv` adds that.
- `HoldTracks` follows from `TypeInv` and the bounds of the two roundings (`HoldBounds`).
- `CounterNeverDrifts` (`CounterMatchesHolds`) adds that a program not opened has no
  reservations, and uses that a sum changes by what one of its terms changes (`TotalChange`).
- `OneReservationPerRequest`, `RepaymentOnce` and `AmountsFit` are inductive over `TypeInv`;
  `AmountsFit` strengthens `FitsBigint` to both the limit and the counter of each program.
- `HistoryKept` (`NothingRewritten`) is an action property of `TypeInv`: each command appends, or
  replaces a row by one of the same terms (`Kept`).
- `RowsAlwaysLoad` (`EveryRowLoads`): what loading checks is inductive over `TypeInv` and the
  counter's invariant (`LoadInv`), because a repayment reduces what is owed and what is held
  together, and the last one releases the rest.
- `OnlyCutsExceedLimits` (`OverLimitOnlyByCut`) needs to know which event was the last to change
  the limit (`LimitInv`): a reservation is refused while the program is over its limit, so nothing
  but releases follow the cut.
- `NewestDecides` (`NewestTreasuryStateWins`): a message may name the limit, the status, or both, so
  `DecidedInv` follows three of the applied messages, the last one, the last that named a limit and
  the last that named a status; the program's row is theirs.
- `LedgerAccounts` (`LedgerExplainsReservations`): per reservation the ledger's rows sum to what was
  reserved and what was released (`LedgerInv`), by the lemmas on sums, whose terms a command changes
  one at a time.
- `MessagesTell` (`EventsTellTheState`): replaying the events of a program gives its row and its
  active reservations after every command (`ToldInv`, over `LoadInv`); a replayed message depends
  only on the state before it, so appending one extends the replay by one step.
- `CapacityTransactionsProofs` rests on `TransactionInv`. Its core is `WorkersSound`: a worker that
  holds its program's row has seen that row as it is now (`Holds`), and what it decided, answer and
  writes, follows from the rows as they are now (`ReserveDecided`, `RepayDecided`, `TreasuryDecided`).
  It stays so when others commit because no two workers hold one row (`RowsApart`) and a commit
  touches its own program only. A worker that decided to open a program has locked nothing: its
  decision is about a row that was missing, and the insert is what checks it. Event ids are unique
  across programs, where no lock helps: `EventsApart` and `EventsNew` say that of two transactions
  about to commit one records an id, and none an id already recorded. That a second try always
  finds the program (`retried`) and that a program never changes its currency, so that the
  rate looked up before the lock remains usable, complete it.
- `TransactionsAreAtomic` (`ImplementsAtomicCommands`): under `TransactionInv` a commit is the
  command of `Capacity` whose guard the decision established (`PublishReserves`, `PublishRepays`,
  `PublishApplies`), acknowledged or not; every other step leaves the tables alone.
  `CommandsKeepTheirPromises` then carries the theorems about `Capacity` over to the transactions.
- `DecisionsHold` is a consequence of `WorkersSound`. `NobodyMeetsABug` (`NoBugAnswered`)
  adds `Capacity`'s invariant of the counter. `AnswersAlwaysStand` (`AnswersStand`) uses the
  refinement twice: a commit adds what its answer claims, and no command removes a row
  (`AllRowsStay`).
- `ReadersSeeOrder` (`FirstSeenInOrder`) and `MarkedReachedTheBroker` (`MarkedIsDelivered`) need
  each other, and `OrderInv` around them. Its core is `SendsClosed`: whatever precedes an event that is
  being sent, or may still arrive, is in the same send or in the topic already. A batch is closed
  when it is read, because a lower row that is not in it is marked and so in the topic
  (`OldestClosed`); it stays so because a program's rows commit in the order of their positions
  (`OpenAbove`). The lock is not used: it saves work, the order does not depend on it.
- `NothingTwice` (`TwiceOnlyAfterFailure`) does use the lock. `OnceInv` says of the states before any
  failure that only the holder has gone past the lock, and that what the topic has is marked or in the
  batch that the holder sends. When a batch is read nobody is sending, so that what the topic has is
  marked, and the batch, which is not, is new to it; each of its events leaves the wire as it arrives.
- `RelayImplementsPromise`: under `OrderInv` a commit is a `Produce`, the first arrival of an event a
  `Receive`, and every other step leaves what readers see alone. TLC adds the liveness
  (`KeepsPromise`).
- `NoMessageLost` (`NothingLost`) follows from `FeedInv`: the position of a partition's owner passes
  only settled messages (`PositionSettled`), the committed offset never exceeds it (`Offsets`), and
  what is settled stays so. It needs `InHandNext`: a consumer that still owns its partition has the
  message after its position in hand, so that the position moves over that one alone; a consumer
  that was evicted may have any message in hand, and moves nothing.
- The other theorems about `TreasuryFeed` rest on `WholeInv`, which adds the invariants of
  `Capacity`: a step that changes the tables records one message, as one of its commands
  (`ChangesAre`; `FeedRunsCommands` says so of whole behaviours). Its core is `ClearedInv`:
  whatever is in hand, dead-lettered or recorded has only settled messages before it, since it was
  once the message after an owner's position. `OrderKept` (`NothingOvertakes`) follows at once;
  `FeedTypesKept` (`TypeOK`) too, with `SentInv`, which bounds the partitions by the messages sent.
- `NothingIgnored` (`InOrderNothingIgnored`): a message is ignored for a newer one that was applied. If
  they were sent in order, the newer one is behind it and was cleared, so that the older was
  settled already: recorded, and then a duplicate now, or dead-lettered, as the property says.
- `ParkedForGood` (`ParkedNeverApplied`) is not inductive alone, because a consumer may have given a
  message up that is not dead-lettered yet. `RejectedInv` says of both that the program takes nothing
  from them, `AppliedNotRejected` that it took nothing before. A message that changes the program
  later is behind the one given up and leaves it out of date; one in front of it is settled.
- `LimitsFollow` (`FollowsTreasury`): every limit of the program is settled (`NothingLost`), not
  given up (`LimitsRejected`), hence recorded, and applied (`InOrderNothingIgnored`). The last one
  applied (`DecidedInv`) is then the last one sent.

- The theorems about `ReservationPaging` rest on `PagingInv`: what was shown is not behind the cursor
  (`CursorBehindPages`), what was there at the start and still matches is shown or behind it
  (`RestRemains`), and a cursor of a listing without a status has something behind it (`MoreWaits`).
  A row that changes keeps its time, so that the order of the entries stays
  (`GrowthKeepsListing`). `PageParts` says what one page does to what remains: the cursor of a page
  that announces another parts what it shows from what it leaves, and leaves something; one row more
  than the page holds is enough to know (`FewAreAll`, `LeavesSome`). `PagesContinue`
  (`EveryPageContinues`), `ListingsAreComplete` (`NothingSkipped`) and `AnnouncedPagesAreThere`
  (`AnnouncedPageIsThere`) follow. `PagingTypeCorrect` (`TypeOK`) needs that a repayment's time is not
  before its reservation's (`ReleaseGrows`).
  The set of reservation ids may be infinite: only those made are finite, at any moment. The
  assumption that `None` is neither a row nor a cursor is what the code's `null` gives.

`ArithmeticTheorems` proves its own induction over the naturals from a least-element principle, as
facts about a recursive function. Every safety property of a passing run is proved. Only
model-checked: liveness (`KeepsPromise`, `EveryEventMarked`, `ShutdownEnds` and the progress of the
feed and of the transactions), which is out of the prover's reach, and what does not hold.

## Plan

Done: the aggregates, rows and atomic commands; their transactions and the refinement; the treasury
feed; the outbox relay and its promise; paging and the times of reservations; the proofs of their
safety. Nothing of the plan is left.

## Not modelled

IAM, configuration, health checks, logging, API documentation and the rendering of answers keep no
state. Schema migrations run once. Parsing and formatting of decimals, messages and cursors is left to
unit tests, except for the range of amounts that requests may carry: no property here depends on
how a number is written. The relay does nothing where Kafka is switched off. The feed's count of
failures sets the length of a wait and the level of a log line. Clocks go forward here, each at its own
pace; one that is set back is one that was behind.

Three checks that no command can fail are left out as well: that a reservation's rate starts from its
invoice's currency (`reservation.ts:237-240`; the rate was looked up for it), that the
reservation to release is the program's own (`program.ts:226`; the handler found it by the program), and
that a recorded repayment's reservation exists (`record-repayment.handler.ts:78-104`; a foreign key).
