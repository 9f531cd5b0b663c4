# Fast Pass: TLA+ models and proofs

Fast Pass sells concert seats on a first-come basis. A seat request is answered
from Redis within milliseconds, put on a Redis list, and stored in PostgreSQL
later by a queue worker. This directory holds TLA+ models of that path, of the
timers around it and of the organisers' side (accounts, events, performances),
the TLC configurations that check them on small instances, and TLAPS proofs of
their main safety properties for instances of any size.

A run is `tlc -config <X>.cfg <module>.tla`; the proofs are checked with `tlapm`
on `ReservationStoreProofs`, `FastPassProofs`, `FastPassItemProofs`,
`ReservationSchedulerProofs`, `AvailabilitySyncProofs` and `BackOfficeProofs`. `PROJECT.json` lists the runs, the source lines
behind every definition, the hazards, the theorems and the findings.


## 1. The system

`ecosystem.config.js` starts one Node.js process per core (`instances: 'max'`,
cluster mode). All of them share one PostgreSQL and one Redis (or Redis
cluster). Each process runs the HTTP handlers **and** its own copy of every
timer, so nothing in the program is a singleton except what Redis and
PostgreSQL make one.

| part | state | operations | works with |
|---|---|---|---|
| **Reservation intake** `reservation.service.ts` `reserveSeat`, `flushQueue`, `reserveSeatSlowPath` | per process: `reservationQueue` (the buffer), open pipelines, unsettled promises; in Redis: `seat:{id}:status` (TTL 600 s), `queue:reservations`, `locks:seats:{id}` (TTL 10 s) | a request joins the buffer; the buffer is flushed every 10 ms or at 100 entries; one pipeline runs the Lua script for each request; a second pipeline pushes the winners; a cache miss goes through a Redlock with a single attempt to the database | reads `Seat`; feeds the worker |
| **Queue worker** `processNextReservation`, `ReservationScheduler.handleReservationQueue` | per process: `isProcessing`, the item in hand | every 100 ms: LPOP, then a transaction (read seat, take it by version and status, insert the row), up to 50 items, stopping at the first that fails | consumes `queue:reservations`, writes `Seat` and `Reservation` |
| **Settlement** `confirmReservation`, `cancelReservation` | rows of `Reservation` (PENDING, CONFIRMED, CANCELLED) and `Seat` (AVAILABLE, HELD, OCCUPIED, `version`) | read the row, update the reservation by id, update the seat by id; a cancellation also sets the cache to AVAILABLE and does not wait for it | writes the cache from inside its transaction |
| **Expiry** `handleExpiredReservations` | none | every minute in every process: cancel every PENDING row older than ten minutes, one after the other | calls `cancelReservation` |
| **Cache warming** `seat.service.ts` `getSeats` | none | read the seats, then SET NX their status and do not wait for it | races with everything that writes the cache |
| **Counter job** `syncAvailableSeats`, `handleSeatSync` | `Performance.availableSeats` | every 5 s in every process: count the AVAILABLE seats of each performance, write the counts | reads `Seat` |
| **Performances, events** | `Performance`, `Event` with foreign keys (seats cascade, reservations restrict) | create, list, update, delete with an ownership check before the write | deletion removes seats under the worker |
| **Accounts** | `User`, stored refresh token, access tokens in the hands of users (1 h) | sign up, log in, log out | the guard of every organiser's request |
| **Observability, filters, bootstrap, deployment** | counters, traces | none that a reservation depends on | none |

What makes this hard:

* **Two sources of truth.** The cache decides who is told PENDING, the tables
  decide who gets the seat. Between the two lie a list in Redis and the memory
  of a worker.
* **Await points.** Between any two awaits of `flushQueue`, the slow path or
  `processNextReservation`, every other request and process may act: a status
  that was read is written later, the lock is released before the item is
  stored, the SET of a cancellation overtakes its commit.
* **Shared rows.** Transactions at READ COMMITTED read without locks and update
  later; what keeps them apart is the `version` of the seat, the row locks and
  the unique index on `Reservation.seatId`.
* **Faults.** ioredis sends a command again after a reconnect; a pipeline may
  fail as a whole or command by command; a process may die with items in hand;
  TTLs run out in the middle of things.
* **Overlapping timers.** The 5 s and 1 min jobs wait neither for their
  previous run nor for the other processes.

What makes each part correct:

* intake: one request at most is accepted for a seat; whoever is refused leaves
  nothing in the queue; a hold in the cache belongs to somebody; the slow path
  of a seat is exclusive; every request is answered;
* queue and worker: what was accepted is kept and finally stored; one error
  costs at most one accepted reservation; the queue drains;
* tables: a seat goes to one reservation in its life, the two tables agree in
  every committed state, no reservation comes back to PENDING, confirmations
  and cancellations do not deadlock, every transaction ends;
* timers: a hold covers a wait in the queue for its whole life, what is not paid
  comes back, a hold that lost its item heals, the queue drains in ticks that may
  end early;
* counter: the count becomes right when the seats rest, also if organisers
  overwrite it;
* events and performances: no event without an owner who has an account, no
  performance without its event, no booked seat without its performance,
  whatever is handed over, moved and deleted at the same time; every request ends;
* accounts: one account per email.


## 2. The modules

```
SeatLedger               what the tables promise about one seat (abstract)
   ^ implements
ReservationStore         the transactions, statement by statement
   ^ implements              (ReservationStoreProofs)
FastPass                 the whole reservation path = ReservationStore
   |                         + queue and worker + ReservationIntake
   |                         (FastPassProofs, FastPassItemProofs)
   +-- ReservationIntake     buffer, pipelines, slow path, cache

over SeatLedger:
ReservationScheduler     TTLs, ticks of the worker, expiry (ReservationSchedulerProofs)
AvailabilitySync         the counter job             (AvailabilitySyncProofs)

BackOffice               Accounts + Catalog                (BackOfficeProofs)

MC*                      small instances for TLC
```

**`SeatLedger`** is the abstract specification: `state` and `holder` of each
seat and three atomic operations, `Book`, `Settle`, `Remove`. `Book` is possible
for a seat that never had a holder: this is the unique index seen from outside.

**`ReservationStore`** is the two tables and the transactions. `seatStatus`,
`seatVersion` and `resStatus` hold *committed* rows; `tx[c]` is the transaction
open on connection `c`: which of the three it is, the statement it runs next,
its reservation, and for the worker the version it read. Every SQL statement is
an action. The writes become visible and the locks are freed at commit; what a
transaction holds or waits for is derived (`HoldsRow`, `HoldsSeat`, `WantsSeat`,
`WantsRow`, `WaitsFor`) because it follows from how far it got. The actions are

| code | actions |
|---|---|
| `processNextReservation` | `PersistFind`, `PersistUpdate` / `PersistCollide`, `PersistCreate` / `PersistDuplicate`, `PersistCommit` |
| `confirmReservation`, `cancelReservation` | `SettleFind`, `SettleFirst`, `SettleSecond`, `SettleCommit` |
| rollback, deadlock detection | `Abort`, `DeadlockVictim` |
| `PerformanceService.delete` | `DeletePerformance` |

The environment is as hostile as the rest of the system can be: any item may be
delivered at any time and any number of times, any row may be confirmed or
cancelled by any number of connections at once.

**`ReservationIntake`** is everything between the HTTP request and the queue.
A request is named by the uuid that `flushQueue` draws; `phase[r]` is the await
it is at, `saw[r]` the last result it was given, `reply[r]` how its promise
settled (once: `Settled`). `wire[p]` are the pipelines process `p` has sent:
a batch is a sequence of requests, and `next` is the position of the first
command Redis has not run, so that commands of different processes interleave one
by one while those of one pipeline keep their order (`Served`, `Upcoming`,
`Complete`). `RunCommand` is Redis, `HandleScripts` and `HandlePushes` are the
continuations after the two `exec`s, the slow path has one action per await
(`Acquire` or `LockBusy`, the three reads, `Mark`, `Enqueue`, `Hold`,
`Release`). `CommandFails` covers a command that failed, one that failed after
it took effect, and one that ioredis sends twice; `ExecRejected` the catch block
of `flushQueue`. In the slow path `AcquireFault` is an acquisition that fails or
whose answer is lost (the lock may then stay behind with nobody to release it),
`SlowFault` an error at any later await, before or after the command took effect,
`SlowResend` a SET, RPUSH or release that ioredis sends twice, and `ReleaseFault`
a release that fails;
`KeyExpire` and `LockExpire` the TTLs; `Crash` the end of a process.

**`FastPass`** composes the two (both are instances; the connections are one per
process for its worker and one per handler) and adds what lies between: `Pop`
and the item in hand (`inHand`), items given up (`dropped`), the SETs that
nobody awaits (`unholding` of cancellations, `warming` of `getSeats`).
`WorkerRefuses`, `WorkerLoses` and `WorkerErrs` are the roads into the catch
block of `processNextReservation`, which drops the item.

Every action that touches the tables is written as a step of `ReservationStore`
and what goes with it; that no other action touches them is the lemma
`StepOfStore` of `FastPassProofs`, which carries the theorems about the tables
over to the whole. A crash in the middle of a transaction is a rollback there,
because PostgreSQL rolls back what a lost connection left open.

**`ReservationScheduler`** is the same path seen by the clock. Transactions,
pipelines and late SETs are single steps (how they interleave is the subject of
the modules above); instead there is `Tick`, the rest of life of each key
(`life`), the age of each reservation since `reservedAt` (`age`), the ticks of
the worker with `isProcessing`, the limit of items (`left`) and the `break` at
the first item that fails (`StartTick`, `Pop`, `Empty`, `Store`, `GiveUp`,
`TickFails`), and the runs of the expiry job, which list what is overdue and then
work the list off (`FindOverdue`, `ExpireOne`, `SkipSettled`, `ExpiryFails`).
Ages stop at `MaxAge`, where they are past both limits, lives at 0, so time needs
no bound. Time waits for nobody: an item may grow older than its hold, and its
seat may then be sold again.
`reservedAt` is taken before the item is queued: the wait in the queue is taken
from the user's time to pay, and the model ages a request from its acceptance.

**`AvailabilitySync`** is the counter job: a run reads all groups at once
(`Read`) and then does its updates in any order (`Write`, `WriteFails`), several
runs overlap, organisers overwrite the count (`EditPerformance`), and the seats
change as `SeatLedger` allows. Because `ReservationStore` implements
`SeatLedger`, it need not repeat the transactions. Organisers send any number of
`OrganiserCounts`, in the run also a negative one and one larger than the number
of seats: the DTO asks for a number and nothing compares it with the seats.

**`Catalog`** is events and performances. Every operation but the creation of an
event is two steps, a check of the owner on a row that was read (`CheckEvent`,
`CheckCreation`, `CheckPerformance`) and a write that names the row by id only;
the creation of a performance is three, because the insert keeps the event's row
locked until the commit. `ValidationPipe` is installed without a whitelist
(`main.ts:15`), so the body reaches Prisma as it was sent: an update of an event
may hand it to any user with an account and take over any live performances
(`Takes`), an update of a performance may move it to any live event (`Hosts`), and
a new event may come with performances it takes over. Foreign keys are `members`
(who has a row in `User`), `Hosts`, `Deletable` (an event with performances stays,
`RefuseDeletion`), `InsertPerformance` / `InsertFails` and `Unbooked`; a write to a
row that is gone fails (`UpdateGone`).

**`Accounts`** is sign-up, log-in and log-out: bcrypt lies between the look-up of
an email and the insert, and `AuthFails` covers a statement that failed as well as
one whose answer was lost.

**`BackOffice`** composes the two, with the accounts as the `members` of the
catalogue: a handler serves a request of one part at a
time, and a request of `Catalog` needs an access token that is valid when the
request arrives (`u \in access` in `Organise`) and is not looked at again, so it
may expire between check and write.

Operators marked `mutant` are faulty variants of the definition next to them.
No other definition uses them; each property is checked to fail when its variant
takes the definition's place.

### Abstractions

* A key, a seat, a uuid is a model value; JSON, user ids and time stamps are
  left out. The reason given with a 409 or 404 is left out.
* Slow-path commands and the commands of a pipeline share a connection in the
  code; in the model a slow-path command may also overtake an earlier pipeline
  of its process. That adds behaviours and removes none.
* `getSeats` warms each seat of a performance independently; pending SETs of the
  same seat and status count as one.
* `FastPass` has no clock: a key or a lock may expire whenever the cfg lets it,
  `Pop` comes when it comes, and an expiry is a cancellation by one of the
  handlers. How long things last is in `ReservationScheduler`, which in turn
  leaves the interleaving of statements to the others.
* Of the bodies that validation lets through, `Catalog` has those that set the
  owner, the event or the performances of a row that is there. Nested writes that
  create, delete or rename other rows are left out.
* In `FastPass` keys may expire at any moment, but no time is counted: that a
  second sale needs a wait of 600 s is in `ReservationScheduler`
  (`HoldOutlivesItem`).
* `Catalog` keeps a booked performance booked: a cancelled reservation keeps its
  row, and the row is what the foreign key looks at.
* Hashing, signing and verifying tokens succeed or fail as a whole.
* `if (!results) return` of `flushQueue` needs `exec()` to yield null, which
  only a WATCHed transaction does; it is left out.
* `Seat.version` is an unbounded natural number; the column is a 32-bit integer
  that 2^31 writes would exhaust, and a seat is written once by a worker and
  then only by settlements that read its reservation PENDING.
* PostgreSQL and Redis themselves do not lose data.


## 3. The runs

| run | cfg | question | result |
|---|---|---|---|
| `store` | MCReservationStore | do the transactions keep the tables together, implement the ledger, and end? | passes |
| `warm` | MCWarm | with the status in the cache and batches of several requests: one winner, kept and stored, and every request answered? | passes |
| `cold` | MCCold | with a cache that is empty or expires: nothing left by the refused, no hold without an owner, one slow path per seat, every request answered, the queue drained? | passes |
| `cancel` | MCCancel | with confirmations, cancellations, deletion, expiring keys and locks: does one error, resend or crash cost at most one accepted reservation? | passes |
| `scheduler` | MCReservationScheduler | does a hold last its whole life while its item waits, do unpaid reservations and lost holds come back, does the queue drain in ticks of one item? | passes |
| `sync` | MCAvailabilitySync | does the count converge, whatever number organisers write over it, and does the job write only counts the seats can have? | passes |
| `backoffice` | MCBackOffice | one account per email, no orphans while rows move and change owners, every request ends? | passes |
| `cold_double` | MCColdDouble | one winner also from an empty cache? | **violated** |
| `rebook` | MCWonSeatAdmits | can a cancelled seat be booked again? | **violated** |
| `confirm_then_cancel` | MCConfirmedIsFinal | does a confirmed reservation stay confirmed? | **violated** |
| `cancel_cache` | MCCancelCache | is a cancelled seat offered again at once? | **violated** |
| `sold_out` | MCSoldOut | does the count of a sold-out performance become 0? | **violated** |

### Bounds

* `store`: two seats of one performance, two reservations that both want the
  first seat, three connections. Three transactions are the smallest number with
  which a cycle of waits can have a bystander; two reservations of one seat are
  needed for the optimistic lock, the unique index and the re-booking of a
  cancelled seat. The second seat takes part in the deletion. Versions need no
  bound: a seat is booked once and settled by at most as many transactions as
  read it PENDING. 7,272 states.
* `warm`: three requests for one seat, two of them on one process (so that they
  share a batch or follow each other in two) and one on another; `BatchMax = 2`
  instead of 100, so that both the length and the timer flush; one fault, an
  error before or after its effect, a resent command or a crash. One seat
  suffices because no action of the intake touches two keys, apart from a batch
  whose commands are answered separately. 40,576 states.
* `cold`: two requests on two processes, a cache that is empty or warm and may
  expire at any moment and any number of times, one fault. Locks do not expire
  (their ten seconds run out in `cancel`). 30,763 states.
* `cancel`: two requests on two processes, two handlers that confirm or cancel,
  both TTLs, one fault, and the performance may be deleted. With one error and two
  requests that can both be accepted (the key may be missing or expire), a second
  loss would show. 921,193 states.
* `scheduler`: one seat, three requests, two workers, two overlapping expiry
  runs, one fault. `PerTick = 1`, so that a tick ends with the queue full;
  `HoldTtl = PayWithin = 2`, so that a key lives for a step in which other paths
  may write it, and for one more. With three requests one can be refused or lost
  while the second is queued and the third is being expired, and two can wait in
  the queue for one seat after the hold of the first ran out. 128,384 states.
* `sync`: two performances (two seats, one seat), two overlapping runs, three
  changes, one failing update; organisers send -1, 0 or 5. Two runs are enough for
  a stale count to be written over a fresh one. 58,561 states.
* `backoffice`: two users and two emails, two events and one performance, two
  requests at a time. Two requests are a check and whatever comes between it and
  its write; two events are what a performance can be moved between while either
  is being deleted. Rows are never reused, so nothing else needs a bound. 379,737
  states.
* The states in which every request is answered and nothing is left to do are
  ends of a model, not of the program, which waits for requests for ever:
  deadlock is not checked where the instance runs out of requests or changes.

### Fairness and why the code justifies it

* `ReservationStore`: strong fairness of the next statement of an open
  transaction, because PostgreSQL queues lock requests and serves them in order,
  so a statement that becomes possible again and again runs; weak fairness of
  the deadlock detector, which PostgreSQL runs after `deadlock_timeout`. No
  transaction has to start and none has to abort.
* `FastPass` (`FairSpec`): the 10 ms timer flushes a non-empty buffer; Redis
  answers; continuations run (the Node event loop); the 100 ms timer pops
  (strongly fair: the queue may be emptied by others in between); the worker's
  transaction goes on. Requests, faults, expiring keys, visitors, handlers that
  begin a settlement, and deletions owe nothing.
* `AvailabilitySync`: the 5 s interval fires for ever and updates end.
* `ReservationScheduler`: time passes, the intervals of every process and the
  cron job fire for ever, and a tick or a run that started goes on. Requests,
  payments, visitors and faults owe nothing.
* `BackOffice`: the database answers (weak fairness of `SignStep`), and PostgreSQL
  serves the requests for a row's lock in order (strong fairness of
  `OrganiseStep`: a deletion waits while other requests insert performances for
  the event one after the other). No request has to arrive and none has to fail.
* `Spec` of `FastPass` has no fairness; only its safety is checked with it.

### Faults and properties

`AcceptedIsKept`, `RejectedLeavesNoTrace`, `HoldIsAccounted` and
`AcceptedIsPersisted` hold only of behaviours without errors and say so
(`faults = 0` or "unless an error intervenes"): the code gives the item up on any
error (`reservation.service.ts:338` leaves the recovery open), and a failed SET after the
slow path's RPUSH rejects a request whose item is queued. `OneLossPerError` is what
remains true of them: an accepted reservation may come to nothing although its
seat is there and went to nobody else, but once for each error at most.
`AtMostOneAccepted`, `EveryRequestAnswered`, `QueueDrains`, `SlowPathExclusive` and
all properties of `scheduler`, `sync` and `backoffice` hold with faults as well.

`SlowPathExclusive` is stated for locks that outlive the slow path. The code does
not extend a lock, and when its ten seconds run out in a slow database a second
request may pass; `cancel` has such runs.


## 4. What the models found

1. **Two winners from an empty cache** (`cold_double`,
   `reservation.service.ts:223`). The slow path holds the Redlock and asks only
   the database. After it released the lock, the accepted reservation is still in
   the queue and the database still says AVAILABLE. A second request that had
   also missed the cache takes the lock, passes the same check and is told
   PENDING too. `README.md:51-57` draws the check of the cache under the lock and
   `README.md:192` promises one winner. The table is not harmed: the worker drops
   one of the two.
2. **A cancelled seat cannot be booked again** (`rebook`,
   `reservation.service.ts:317`, `schema.prisma:79`). The row of the cancelled
   reservation keeps the unique `seatId`; every later reservation is accepted and
   then fails in the worker.
3. **A confirmed reservation can become CANCELLED** (`confirm_then_cancel`,
   `reservation.service.ts:401`): status checked on a row read without a lock,
   update by id only.
4. **A cancelled seat stays refused** (`cancel_cache`,
   `reservation.service.ts:230`): a slow path that read HELD writes it after the
   cancellation wrote AVAILABLE.
5. **A sold-out performance shows its last positive count** (`sold_out`,
   `reservation.service.ts:460`): the aggregate has no group for it.

Also noted: `work_logs/2026-01-31_tasks.md:18-26` says the Lua script pushes the
item atomically, while the code pushes in a second pipeline. Without errors the
two differ only in a window, which `HoldIsAccounted` describes; with an error in
that window the hold stays for its TTL without an item (`LostHoldHeals`).

A body of PATCH may carry `userId`, `eventId` or nested `performances`, since
nothing filters it (`main.ts:15`): that an event stays with its owner and a
performance with its event is therefore no property of this code, and none is
claimed. What the foreign keys keep is `NoOrphans`.

Two remarks on the accounts: a sign-up that loses the race is answered with the
error of the unique index, not with the 409 of the check; and the stored refresh
token is written and deleted but never read, so neither a log-out nor a second
log-in ends anything before the access token's hour is over.


## 5. What is proved

### Transactions

`ReservationStoreProofs` proves, for every value of the constants, assuming only
`PerformanceAssumption` (`PerformanceOf` maps seats to performances),
`SeatAssumption` (`SeatOf` maps reservations to seats) and `NoResAssumption`
(`NoRes` is not a reservation):

| theorem | says |
|---|---|
| `InductiveInvariant` | `Spec => []IInv` |
| `TypeCorrect` | `Spec => []TypeOK` |
| `TablesAgree` | `Spec => []SeatMatchesReservation` |
| `VersionIsEnough` | `Spec => []VersionGuardsStatus` |
| `NeverPendingAgain` | `Spec => SettledStaysSettled` |
| `DeadlocksExplained` | `Spec => []DeadlocksNeedAFreedSeat` |
| `LedgerImplemented` | `Spec => ImplementsLedger` |

None of the safety properties is inductive. That the tables agree after a
worker's commit needs that the seat was still AVAILABLE and had no row when it
committed (`WorkerOwnsSeat`); that this stays true while the worker waits needs
that nobody else commits to the same seat meanwhile (`LocksExclusive`); a
settlement changes the right seat status only if the seat has no second row
(`OneRowPerSeat`); and that a worker which finds its version unchanged may rely
on the status needs every writer to increment it (`VersionGuardsStatus`, with the
bound on versions in `TxWellFormed`). `IInv` is their conjunction. TLC checks it
in run `store`; the proof has one lemma per group of actions: transactions that
end without writing, that begin, that take a lock, the two commits, and the
deletion.

`DeadlocksExplained` is an argument about any finite or infinite set of
connections that wait in a cycle: whoever holds a seat in a cycle holds it before
its `create`, because a settlement has both locks when it has the seat
(`CommitWaitsForNobody`); if nobody in the cycle holds a seat, everybody waits
for a row whose holder waits for a seat, a contradiction; and what a worker waits
for at `create` is a row on a seat that it sees AVAILABLE, hence cancelled.

`LedgerImplemented` maps `state` to `seatStatus` and `holder` to the one row on
the seat. The three actions that change a table map to `Book`, `Settle` and
`Remove`; all others stutter.

### The whole reservation path

`FastPassProofs` and `FastPassItemProofs` assume `FastPassAssumption`: the maps
from seats to performances and from requests to seats and processes, the types of
the parameters, and that `NoReq` is no request and a worker's connection no
handler's. `FastPassProofs` has the tables, the lock and the winner of a seat:

| theorem | says | besides |
|---|---|---|
| `TablesAgreeThroughout` | `Spec => []Store!SeatMatchesReservation` | |
| `SystemKeepsLedger` | `Spec => StoreProofs!ImplementsLedger` | |
| `NothingPendingAgain` | `Spec => StoreProofs!SettledStaysSettled` | |
| `DeadlocksExplainedThroughout` | `Spec => []StoreProofs!DeadlocksNeedAFreedSeat` | |
| `OneInSlowPath` | `Spec => []SlowPathExclusive` | `"lock" \notin Expiring` |
| `OneAcceptancePerSeat` | `Spec /\ [](unholding = {}) => []AtMostOneAccepted` | `InitialCache = {"AVAILABLE"}`, `"key" \notin Expiring` |

* The first four carry the results about the tables over to the system.
  `StoreProofs` is the instance of `ReservationStoreProofs` with the tables of the
  system: the inductive invariant there is preserved by every step because every
  step is one of the store's (lemmas `StepOfStore` and `StepOfTables`), and with it
  hold the facts about single steps (`LedgerStep`, `StepKeeps`) and about cycles of
  waits (`CyclesNeedAFreedSeat`). So `SeatLedger` is implemented by the whole
  reservation path, through two refinements.
* `OneInSlowPath`. Whoever is past `acquire` and before its `release` holds the lock
  in Redis (`HoldsLock`); only `Acquire` lets a request in, and only if the lock is
  free. A crash or a lost answer leaves the lock behind, which refuses more and
  admits nobody; a release that is sent twice frees only the sender's own lock.
* What a worker gives up (`DropInv`, for `FastPassItemProofs`). The invariant is
  that a worker's transaction is about the item in its hand, that the version of a
  seat has moved only if the seat is taken or gone (`VersionSpent`), and that at
  most one item per error was dropped whose seat is not taken (`InVain`). A worker
  whose version is stale, whose seat is not AVAILABLE or whose row is a duplicate
  has lost to somebody; a worker that is chosen as the victim of a deadlock has,
  too, because a cycle contains a worker at its insert, so there is a row
  (`LosesToSomebody`). What is taken stays taken (`TakenStays`). Only `WorkerErrs`
  and `Crash` add to `InVain`, each one item, and each is an error.
* `OneAcceptancePerSeat`. `WarmInv`: no request ever misses the cache
  (`NoMisses`); buffers, pipelines, hands and the queue hold requests
  (`OnTheWay`); and among the requests that won their script, are being pushed or
  were accepted there is at most one per seat, and only if the seat is HELD
  (`OneWinner`). It is needed in this form because acceptance comes two round
  trips after the script decided. A resent script finds its own HELD and loses;
  a resent push queues an item twice and accepts nobody new. The premises are
  what the claim is about: from an empty or expiring cache it is false
  (`cold_double`), and a cancellation opens the seat on purpose. `unholding` is
  empty until the first cancellation, so the claim holds of any system up to that
  moment, and of one that only confirms for ever.

`FastPassItemProofs` follows the item and the hold of every request, which no
other module can: between two awaits they are in the memory of a process, in a
pipeline, in Redis, in a worker's hand or in the table.

| theorem | says | besides |
|---|---|---|
| `TypesHold` | `Spec => []TypeOK` | |
| `NoTraceOfRejected` | `Spec => []RejectedLeavesNoTrace` | |
| `AcceptedKeptOrLost` | `Spec => []KeptOrLost` | |
| `AcceptedStays` | `Spec /\ [](unholding = {}) => []AcceptedIsKept` | `InitialCache = {"AVAILABLE"}`, `"key" \notin Expiring`, `Deletable = {}` |
| `HoldsOwnedOrGone` | `Spec => []OwnedOrGone` | |
| `NoOrphanHolds` | `Spec => []HoldIsAccounted` | `Deletable = {}` |
| `ErrorsCostOne` | `Spec => []OneLossPerError` | |

Three invariants build on each other:

* `Places`: a request is in its buffer once, or behind one command of one pipeline
  of its process, never both. Without it one answer could settle a request whose
  other command is still to run. The phase and the position in the pipeline
  determine each other; a pipeline of scripts serves its whole batch, one of pushes
  only the winners (`ScriptsWhole`).
* `Records`, until the first error: from the phase of a request follows whether it
  is on record, that is queued, in hand, stored or dropped. A buffered request
  or one on the slow path before its RPUSH is not; a request whose push is in a
  pipeline is on record exactly if Redis has run the push (`WireRecord`); an
  answered one is exactly if the answer was PENDING. What is on record stays
  so, also through errors and the end of a process (`RecordsStay`): a pop, an
  insert and a drop each take over what the last one gives up.
* `Holds`, until the first error: a HELD key has an owner, which is a taken seat, a
  request on record, or one whose script won and whose push is still to run. It
  is not inductive without what others are about to write: a slow path that read
  HELD or a `getSeats` whose SET is pending read it from a seat that was taken and
  is taken or gone for ever.

`RejectedLeavesNoTrace` follows from `Records` alone. `OwnedOrGone` and
`KeptOrLost` follow with the lemma `DroppedForACause` (without an error, what was
dropped lost its seat) and make no assumption on deletion: they add the case that
the seat is gone. `HoldIsAccounted` does not have this
case, and a worker that drops the item of a deleted seat leaves its hold in Redis,
so `NoOrphanHolds` assumes that no performance is deleted. `AcceptedStays` adds
that nobody else can have the seat: a row of another request would belong to a
second winner, which `OneWinner` excludes; its further premises are those of
`OneAcceptancePerSeat`. Both are also premises of the runs that check the two
properties (`cold`, `warm`), where nothing is deleted.

`ErrorsCostOne` holds under errors, where `Records` does not. It rests on the half
of it that errors leave alone (`Acks`): whoever was accepted, or is about to be
because the push in the pipeline or the RPUSH of the slow path was answered, is
on record. An accepted request of which nothing is queued, in hand or stored was
therefore dropped, and if its seat is there and nobody has a row on it, it is one
of `InVain`, of which there are no more than errors. That a command may be sent
twice, that a cancellation or a deletion may interleave, and that keys and locks
may run out makes no difference to this.

### The timers

`ReservationSchedulerProofs` assumes `SchedulerAssumption`, which is types only: no
limit stands in a relation to another, and nothing bounds the queue.

| theorem | says |
|---|---|
| `InvHolds` | `Spec => []Inv` |
| `TypeCorrect` | `Spec => []TypeOK` |
| `HoldLastsLongEnough` | `Spec => []HoldOutlivesItem` |

`Inv` says that what is queued or in hand was accepted, so that its age is counted
(`UnderWayAccepted`); that a seat which is not free has a holder
(`TakenHasHolder`); and that, as long as no reservation of the seat was stored,
the hold of an item younger than `HoldTtl` is at most as old as the item: the rest
of the key's life and the item's age add up to at least `HoldTtl` (`HoldYoung`). A
second item of the seat, accepted after the first hold ran out, or a slow path
that missed earlier, only makes the key younger. What the theorem promises ends
with the life of the key, and so does what the code does.

### The counter job

`AvailabilitySyncProofs` assumes `SyncAssumption`: the maps from seats to
performances and from reservations to seats, finitely many seats (the query
counts them), and the types of the bounds.

| theorem | says |
|---|---|
| `TypeCorrect` | `Spec => []TypeOK` |
| `OnlyRealCounts` | `Spec => RunsWriteRealCounts` |

The invariant is about the runs in flight: what a run has still to write lies
between one and the number of the performance's seats, because the aggregate has
a group only for performances with a free seat. However many runs overlap and
however late an update arrives, a run thus writes only counts that the seats can
have. The same invariant is why `sold_out` is violated: no run ever writes 0.
`TypeCorrect` says that a count is one of those or one that organisers may send,
which is any set of integers: nothing keeps it between 0 and the number of seats.

### Organisers

`BackOfficeProofs` assumes `BackOfficeAssumption` (the two sentinels are no
email and no id).

| theorem | says |
|---|---|
| `OneAccount` | `Spec => []OneAccountPerEmail` |
| `CatalogHolds` | `Spec => []CatalogInv` |
| `NobodyOrphaned` | `Spec => []NoOrphans` |
| `TypeCorrect` | `Spec => []TypeOK` |

`CatalogInv` adds to `NoOrphans` that the event of an inserted performance is live
until the commit (`LockKeepsEvent`) and that the id of a new performance is drawn
once (`DrawnOnce`). That the owner of an event has an account needs that users are
never deleted, and that a request acts for somebody who has one: an access token
is given out only to a user with a row (`AccountInv`).

### Only model-checked

Liveness (`TransactionsEnd`, `EveryRequestAnswered`, `QueueDrains`,
`AcceptedIsPersisted`, `UnpaidIsReleased`, `LostHoldHeals`, `CountConverges`,
`RequestsEnd`) is outside the prover's reach and checked on the instances above.
Every safety property of a passing run is proved, four of them under the premises
in the tables.


## 6. Not modelled, and what is left

Not modelled:

* operations that only read (`findAll`, `findOne`, `getAllEvents`, `getEventById`)
  and the methods of `SeatRepository` that nobody calls: they change no state and
  nothing inside the program acts on their answers;
* metrics, logs, traces, interceptors, HTTP filters, validation, module wiring and
  `main.ts`: no state that a reservation depends on;
* the load-test script and the deployment files: they configure a running system;
  from them the models take that several processes share Redis and PostgreSQL.

Left to do: an abstract specification of the intake (a seat is free or offered to
one request, an answer follows the offer) which `FastPass` implements from a warm
cache, so that `OneAcceptancePerSeat` and `AcceptedStays` become facts about a
small specification; and the same for the holds of `ReservationScheduler`.
