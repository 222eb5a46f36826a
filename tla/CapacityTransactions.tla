----------------------- MODULE CapacityTransactions -----------------------
(***************************************************************************)
(* The three commands as the transactions they run as.  Workers are the    *)
(* request handlers and feed consumers of every instance of the service;   *)
(* each runs one command at a time, statement by statement, and what it    *)
(* writes is seen by nobody before it commits (PrismaCapacityTransaction-  *)
(* Runner: READ COMMITTED, the program's row locked FOR UPDATE).           *)
(*                                                                         *)
(* The tables hold committed rows.  A worker whose transaction has locked  *)
(* or inserted a program's row holds it until the transaction ends; a row  *)
(* that does not exist cannot be locked.                                   *)
(***************************************************************************)
EXTENDS CapacityRows

CONSTANTS Workers,
          Commands \* the commands that are sent, each any number of times

ASSUME CommandsAssumption ==
  Commands \subseteq
    [kind : {"RESERVE"}, request : ReserveRequest]
      \union
    [kind : {"REPAY"}, request : RepaymentRequest]
      \union
    [kind : {"TREASURY"}, request : TreasuryMessage]

VARIABLES programs, reservations, movements, treasuryEvents, outbox,
          work \* what each worker is doing

tables == <<programs, reservations, movements, treasuryEvents, outbox>>

vars == <<programs, reservations, movements, treasuryEvents, outbox, work>>

Atomic == INSTANCE Capacity

-----------------------------------------------------------------------------
(* Workers.                                                                *)

Steps == {"idle", "locking", "deciding", "inserting", "saving", "recording", "committing"}

Answers ==
  {"CREATED", "APPLIED", "REPLAYED", "STALE", "DUPLICATE",
   "PROGRAM_NOT_FOUND", "RESERVATION_NOT_FOUND", "PROGRAM_NOT_ACTIVE",
   "INVOICE_ALREADY_RESERVED", "INVOICE_ALREADY_REPAID", "REPAYMENT_ID_REUSED",
   "INSUFFICIENT_CAPACITY", "REPAYMENT_EXCEEDS_OUTSTANDING", "INVALID_AMOUNT",
   "CURRENCY_MISMATCH", "EXCHANGE_RATE_UNAVAILABLE",
   "CAPACITY_BUSY", "DATABASE_UNAVAILABLE",
   "EXCHANGE_RATE_UNUSABLE", "COUNTER_DRIFTED", "RESERVATION_ALREADY_RELEASED",
   "PROGRAM_ALREADY_EXISTS", "INVARIANT_VIOLATION"}

\* No answer yet is none of them.
ASSUME AnswersAssumption == None \notin Answers

\* What a transaction has written, or is about to: the program's row, a
\* reservation's row by its id, and the rows it adds.
Writes ==
  [program : ProgramRow \union {None}, id : Nat, reservation : ReservationRow \union {None},
   movements : Seq(MovementRow), recorded : Seq(TreasuryRow), events : Seq(OutboxEvent)]

Idle(command, answer) ==
  [step |-> "idle", command |-> command, rate |-> None, seen |-> None,
   writes |-> None, retried |-> FALSE, answer |-> answer]

Program(w) == work[w].command.request.program

IsTreasury(w) == work[w].command.kind = "TREASURY"

\* Whether the worker's transaction holds the row of its program: it locked the
\* row it has seen, or inserted the one it missed.
HoldsRow(w) ==
  /\ work[w].step # "idle"
  /\ work[w].seen # None \/ work[w].step \in {"recording", "committing"}

RowHeld(p) == \E w \in Workers : HoldsRow(w) /\ Program(w) = p

\* Whether a transaction not yet committed has recorded the event id.
EventPending(event) ==
  \E w \in Workers :
    /\ work[w].step = "committing"
    /\ IsTreasury(w)
    /\ work[w].command.request.event = event

\* The transaction ends, and with it every lock it holds.
Answer(w, answer) == work' = [work EXCEPT ![w] = Idle(@.command, answer)]

-----------------------------------------------------------------------------
(* What each command writes.                                               *)

Nothing ==
  [program |-> None, id |-> 0, reservation |-> None,
   movements |-> <<>>, recorded |-> <<>>, events |-> <<>>]

ReserveWrites(seen, rows, request, rate) ==
  LET toHold  == ToProgramCurrency(request.amount, rate)
      program == WithReserved(seen, seen.reserved + toHold)
      id      == Len(rows) + 1
  IN  [Nothing EXCEPT
         !.program     = program,
         !.id          = id,
         !.reservation =
            OpenReservation(request.invoice, request.key, request.amount, rate, toHold),
         !.movements   = <<ReserveMovement(id, toHold, program)>>,
         !.events      = <<CapacityReserved(id, program)>>]

RepayWrites(seen, rows, request) ==
  LET id      == ActiveId(rows, request.invoice)
      before  == rows[id]
      after   == RecordRepayment(before, RepaidAmount(before, request).minor)
      program == ReleaseFrom(seen, before, after)
  IN  [Nothing EXCEPT
         !.program     = program,
         !.id          = id,
         !.reservation = after,
         !.movements   = <<ReleaseMovement(id, before, after, program, request.repayment)>>,
         !.events      = <<CapacityReleased(id, after, program)>>]

OpenWrites(message) ==
  [Nothing EXCEPT
     !.program  = OpenedBy(message),
     !.recorded = <<[message |-> message, applied |-> TRUE]>>,
     !.events   = <<ProgramOpened(OpenedBy(message))>>]

UpdateWrites(seen, message) ==
  LET after == ApplyTreasuryState(seen, message)
  IN  [Nothing EXCEPT
         !.program  = Saved(after),
         !.recorded = <<[message |-> message, applied |-> TRUE]>>,
         !.events   = TreasuryUpdateEvents(seen, after)]

StaleWrites(message) ==
  [Nothing EXCEPT !.recorded = <<[message |-> message, applied |-> FALSE]>>]

-----------------------------------------------------------------------------
(* The steps of a worker.                                                  *)

\* A command arrives.  A reservation first looks for its program without a lock,
\* and for the rate into its currency; the other two begin their transaction.
Start(w, command) ==
  LET program == programs[command.request.program]
      begun   == [Idle(command, None) EXCEPT !.step = "locking"]
  IN  /\ work[w].step = "idle"
      /\ IF command.kind # "RESERVE" THEN work' = [work EXCEPT ![w] = begun]
         ELSE IF program = None
         THEN work' = [work EXCEPT ![w] = Idle(command, "PROGRAM_NOT_FOUND")]
         ELSE \E rate \in RatesInto(program.currency, command.request.amount) :
                work' = [work EXCEPT ![w] = [begun EXCEPT !.rate = rate]]
      /\ UNCHANGED tables

\* Whether the worker's statement waits for a transaction of another worker: for
\* the row's lock, for the row another inserts (a unique index), or for the
\* event id another records (another one).
Waits(w) ==
  \/ work[w].step = "locking" /\ programs[Program(w)] # None /\ RowHeld(Program(w))
  \/ work[w].step = "inserting" /\ programs[Program(w)] = None /\ RowHeld(Program(w))
  \/ /\ work[w].step = "recording"
     /\ ~Atomic!EventRecorded(work[w].command.request.event)
     /\ EventPending(work[w].command.request.event)

\* Variant: the row is read without FOR UPDATE.
PlainSelectById(w) ==
  /\ work[w].step = "locking"
  /\ work' = [work EXCEPT ![w].step = "deciding", ![w].seen = programs[Program(w)]]
  /\ UNCHANGED tables

LockById(w) ==
  /\ work[w].step = "locking"
  /\ ~Waits(w)
  /\ work' = [work EXCEPT ![w].step = "deciding", ![w].seen = programs[Program(w)]]
  /\ UNCHANGED tables

Stage(w, step, answer, writes) ==
  work' = [work EXCEPT ![w].step = step, ![w].answer = answer, ![w].writes = writes]

\* The handler reads what else it needs and decides, holding the lock.
DecideReserve(w) ==
  LET request == work[w].command.request
      seen    == work[w].seen
      rows    == reservations[request.program]
      answer  == ReserveAnswer(seen, rows, request, work[w].rate)
  IN  /\ work[w].step = "deciding" /\ work[w].command.kind = "RESERVE"
      /\ IF answer = "CREATED"
         THEN Stage(w, "saving", answer, ReserveWrites(seen, rows, request, work[w].rate))
         ELSE Answer(w, answer)
      /\ UNCHANGED tables

DecideRepay(w) ==
  LET request == work[w].command.request
      seen    == work[w].seen
      rows    == reservations[request.program]
      answer  == RepayAnswer(seen, rows, movements[request.program], request)
  IN  /\ work[w].step = "deciding" /\ work[w].command.kind = "REPAY"
      /\ IF answer = "APPLIED"
         THEN Stage(w, "saving", answer, RepayWrites(seen, rows, request))
         ELSE Answer(w, answer)
      /\ UNCHANGED tables

DecideTreasury(w) ==
  LET message == work[w].command.request
      seen    == work[w].seen
      answer  == TreasuryAnswer(seen, message)
  IN  /\ work[w].step = "deciding" /\ IsTreasury(w)
      /\ CASE answer = "CREATED" -> Stage(w, "inserting", answer, OpenWrites(message))
           [] answer = "APPLIED" -> Stage(w, "saving", answer, UpdateWrites(seen, message))
           [] answer = "STALE"   -> Stage(w, "recording", answer, StaleWrites(message))
           [] OTHER              -> Answer(w, answer)
      /\ UNCHANGED tables

\* Variant: losing the race to open a program is answered as an error.
NeverRetries(w) == Answer(w, "PROGRAM_ALREADY_EXISTS")

\* Two first messages raced and the other opened the program: the transaction is
\* rolled back and the command runs again, once.
RetryOnce(w) ==
  IF work[w].retried THEN Answer(w, "PROGRAM_ALREADY_EXISTS")
  ELSE work' = [work EXCEPT ![w] =
                  [Idle(@.command, None) EXCEPT !.step = "locking", !.retried = TRUE]]

\* Variant: the row replaces one that is there.
UpsertProgram(w) ==
  /\ work[w].step = "inserting"
  /\ ~Waits(w)
  /\ work' = [work EXCEPT ![w].step = "recording"]
  /\ UNCHANGED tables

InsertProgram(w) ==
  /\ work[w].step = "inserting"
  /\ ~Waits(w)
  /\ IF programs[Program(w)] = None THEN work' = [work EXCEPT ![w].step = "recording"]
                                    ELSE RetryOnce(w)
  /\ UNCHANGED tables

\* UPDATE ... WHERE version = the version seen
SaveProgram(w) ==
  /\ work[w].step = "saving"
  /\ IF programs[Program(w)].version = work[w].seen.version
     THEN work' = [work EXCEPT ![w].step = IF IsTreasury(w) THEN "recording" ELSE "committing"]
     ELSE Answer(w, "INVARIANT_VIOLATION")
  /\ UNCHANGED tables

\* Variant: an event id that another transaction has recorded, and not yet
\* committed, is a duplicate.
RecordAtOnce(w) ==
  LET event == work[w].command.request.event
  IN  /\ work[w].step = "recording"
      /\ IF Atomic!EventRecorded(event) \/ EventPending(event)
         THEN Answer(w, "DUPLICATE")
         ELSE work' = [work EXCEPT ![w].step = "committing"]
      /\ UNCHANGED tables

\* The message is recorded under its event id; a duplicate rolls back what the
\* transaction did before.
RecordEvent(w) ==
  /\ work[w].step = "recording"
  /\ ~Waits(w)
  /\ IF Atomic!EventRecorded(work[w].command.request.event)
     THEN Answer(w, "DUPLICATE")
     ELSE work' = [work EXCEPT ![w].step = "committing"]
  /\ UNCHANGED tables

\* The rest is written, and all of it becomes visible at once.
Publish(w) ==
  LET p      == Program(w)
      writes == work[w].writes
  IN  /\ programs' = [programs EXCEPT ![p] =
                        IF writes.program = None THEN @ ELSE writes.program]
      /\ reservations' = [reservations EXCEPT ![p] =
                            IF writes.id = 0 THEN @
                            ELSE [i \in DOMAIN @ \union {writes.id} |->
                                    IF i = writes.id THEN writes.reservation ELSE @[i]]]
      /\ movements' = [movements EXCEPT ![p] = @ \o writes.movements]
      /\ treasuryEvents' = [treasuryEvents EXCEPT ![p] = @ \o writes.recorded]
      /\ outbox' = [outbox EXCEPT ![p] = @ \o writes.events]

Commit(w) ==
  /\ work[w].step = "committing"
  /\ Publish(w)
  /\ Answer(w, work[w].answer)

\* The database commits, but the connection is lost before it says so.
CommitUnacknowledged(w) ==
  /\ work[w].step = "committing"
  /\ Publish(w)
  /\ Answer(w, "DATABASE_UNAVAILABLE")

\* Variant: a wait for a lock has no end.
WaitForever(w) == FALSE

\* lock_timeout, whatever kind of lock the statement waits for.
LockTimeout(w) ==
  /\ Waits(w)
  /\ Answer(w, "CAPACITY_BUSY")
  /\ UNCHANGED tables

\* idle_in_transaction_session_timeout, and the runner's own: the database rolls
\* back the transaction of a process that has stalled.
IdleTimeout(w) ==
  /\ work[w].step \notin {"idle", "locking"}
  /\ Answer(w, "DATABASE_UNAVAILABLE")
  /\ UNCHANGED tables

\* The connection is lost, or there is none to be had.
Disconnect(w) ==
  /\ work[w].step # "idle"
  /\ Answer(w, "DATABASE_UNAVAILABLE")
  /\ UNCHANGED tables

-----------------------------------------------------------------------------
Init ==
  /\ Atomic!Init
  /\ work = [w \in Workers |-> Idle(None, None)]

Decide(w) == DecideReserve(w) \/ DecideRepay(w) \/ DecideTreasury(w)

Write(w) == InsertProgram(w) \/ SaveProgram(w) \/ RecordEvent(w)

End(w) == Commit(w) \/ CommitUnacknowledged(w)

Fail(w) == LockTimeout(w) \/ IdleTimeout(w) \/ Disconnect(w)

Next ==
  \E w \in Workers :
    \/ \E command \in Commands : Start(w, command)
    \/ LockById(w)
    \/ Decide(w)
    \/ Write(w)
    \/ End(w)
    \/ Fail(w)

\* Only the database is fair: it grants a lock or gives up on it, and it does not
\* let a transaction linger.  A process may stop at any step.
Fairness ==
  \A w \in Workers :
    /\ WF_vars(LockById(w) \/ LockTimeout(w))
    /\ WF_vars(IdleTimeout(w))

Spec == Init /\ [][Next]_vars

FairSpec == Spec /\ Fairness

-----------------------------------------------------------------------------
(* Properties.                                                             *)

TypeOK ==
  /\ Atomic!TypeOK
  /\ work \in [Workers ->
       [step : Steps, command : Commands \union {None},
        rate : ExchangeRate \union {None, Unavailable},
        seen : ProgramRow \union {None}, writes : Writes \union {None},
        retried : BOOLEAN, answer : Answers \union {None}]]

\* The transactions, interleaved, cut off and answered or not, change the tables
\* as commands that run one at a time.
ImplementsAtomicCommands == Atomic!Spec

\* What a handler read and decided is still so when its transaction commits: no
\* other one changes the program's row, its reservations or its ledger in between
\* ("the row lock, not the isolation level, serialises writers to a program").
DecisionsHoldUntilCommit ==
  \A w \in Workers :
    work[w].step \in {"saving", "recording", "committing"} =>
      LET request == work[w].command.request
          p       == request.program
      IN  /\ work[w].seen = programs[p]
          /\ work[w].answer =
               CASE work[w].command.kind = "RESERVE" ->
                      ReserveAnswer(programs[p], reservations[p], request, work[w].rate)
                 [] work[w].command.kind = "REPAY" ->
                      RepayAnswer(programs[p], reservations[p], movements[p], request)
                 [] OTHER -> TreasuryAnswer(programs[p], request)

\* Nobody is answered what the code calls a bug: a program changed while locked, a
\* counter that drifted, a rate into another currency than the program's (looked
\* up before the lock), a program opened twice even after the retry.
NoBugAnswered ==
  \A w \in Workers :
    work[w].answer \notin {"INVARIANT_VIOLATION", "COUNTER_DRIFTED", "EXCHANGE_RATE_UNUSABLE",
                           "RESERVATION_ALREADY_RELEASED", "PROGRAM_ALREADY_EXISTS"}

\* A success that a caller was told of is in the database: the reservation, the
\* repayment's ledger row, or the record of treasury's message, whose offset is
\* committed on the strength of the answer, a duplicate's too.
AnswersStand ==
  \A w \in Workers :
    work[w].step = "idle" /\ work[w].command # None =>
      LET request == work[w].command.request
          p       == request.program
          answer  == work[w].answer
      IN  CASE work[w].command.kind = "RESERVE" ->
                 answer \in {"CREATED", "REPLAYED"} =>
                   \E i \in DOMAIN reservations[p] :
                     /\ reservations[p][i].invoice = request.invoice
                     /\ SameAmount(reservations[p][i], request.amount)
                     /\ request.key # None => reservations[p][i].key = request.key
            [] work[w].command.kind = "REPAY" ->
                 answer \in {"APPLIED", "REPLAYED"} =>
                   RepaymentsRecorded(movements[p], request.repayment) # {}
            [] OTHER ->
                 answer \in {"CREATED", "APPLIED", "STALE", "DUPLICATE"} =>
                   Atomic!EventRecorded(request.event)

\* problem-details.filter.ts:97: "An outage, not a bug: nothing was written", and
\* its detail, "nothing was changed", told to those who reserve or repay: treasury's
\* messages come by Kafka and are tried again instead.  It does not hold when the
\* connection is lost after the database has committed.
UnavailableChangedNothing ==
  [][\A w \in Workers :
       /\ work[w].step # "idle" /\ work[w].command.kind \in {"RESERVE", "REPAY"}
       /\ work'[w].answer = "DATABASE_UNAVAILABLE"
       => UNCHANGED tables]_vars

\* Every command is answered, however many others want the same program and
\* wherever the process that holds its row stops.
EveryCommandAnswered ==
  \A w \in Workers : work[w].step # "idle" ~> work[w].step = "idle"
=============================================================================
