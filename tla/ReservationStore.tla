-------------------------- MODULE ReservationStore --------------------------
(***************************************************************************)
(* The Seat and Reservation tables in PostgreSQL and the three interactive *)
(* transactions that write them: the queue worker's (processNext-          *)
(* Reservation), confirmReservation and cancelReservation.  Transactions   *)
(* run at READ COMMITTED: every statement is a step of its own, an UPDATE  *)
(* waits for the row's lock, locks last until the transaction ends and     *)
(* the writes become visible when it commits.  So the variables hold the   *)
(* committed rows, and what a transaction wrote or locked follows from     *)
(* how far it got.                                                         *)
(* Operators marked "mutant" are faulty variants that the runs of this     *)
(* module are tested with; no other definition uses them.                  *)
(***************************************************************************)
EXTENDS Naturals

CONSTANTS Seats,          \* rows of Seat when the system starts
          Performances,   \* rows of Performance
          PerformanceOf,  \* Seat.performanceId
          Reservations,   \* reservation ids: the uuids flushQueue draws
          SeatOf,         \* Reservation.seatId
          Conns,          \* connections of the Prisma pools of all processes
          NoRes           \* not a reservation

ASSUME PerformanceAssumption == PerformanceOf \in [Seats -> Performances]
ASSUME SeatAssumption == SeatOf \in [Reservations -> Seats]
ASSUME NoResAssumption == NoRes \notin Reservations

VARIABLES seatStatus,   \* Seat.status, "GONE" when the row is deleted
          seatVersion,  \* Seat.version
          resStatus,    \* Reservation.status, "NONE" when there is no row
          tx            \* the transaction open on each connection

vars == <<seatStatus, seatVersion, resStatus, tx>>

SeatStates == {"AVAILABLE", "HELD", "OCCUPIED", "GONE"}
RowStates == {"NONE", "PENDING", "CONFIRMED", "CANCELLED"}

\* A transaction: which one, the statement it runs next, the reservation it
\* is about, and the seat version it read (the worker's only).
Transaction == [op  : {"none", "persist", "confirm", "cancel"},
                at  : {"none", "update", "create", "first", "second", "commit"},
                res : Reservations \cup {NoRes},
                ver : Nat]

Idle == [op |-> "none", at |-> "none", res |-> NoRes, ver |-> 0]

TypeOK ==
    /\ seatStatus \in [Seats -> SeatStates]
    /\ seatVersion \in [Seats -> Nat]
    /\ resStatus \in [Reservations -> RowStates]
    /\ tx \in [Conns -> Transaction]

Init ==
    /\ seatStatus = [s \in Seats |-> "AVAILABLE"]
    /\ seatVersion = [s \in Seats |-> 0]
    /\ resStatus = [r \in Reservations |-> "NONE"]
    /\ tx = [c \in Conns |-> Idle]

\* The rows of the Reservation table that are for seat s.
RowsOn(s) == {r \in Reservations : SeatOf[r] = s /\ resStatus[r] # "NONE"}

-----------------------------------------------------------------------------
(***************************************************************************)
(* Row locks.                                                              *)
(***************************************************************************)
Settles(c) == tx[c].op \in {"confirm", "cancel"}
Persists(c) == tx[c].op = "persist"
SeatIn(c) == SeatOf[tx[c].res]

\* Which row confirmReservation and cancelReservation update first.
SeatFirstInCancel(op) == op = "cancel"   \* mutant: opposite lock orders
SeatFirst(op) == FALSE

HoldsRow(c) ==
    /\ Settles(c)
    /\ \/ tx[c].at = "commit"
       \/ tx[c].at = "second" /\ ~SeatFirst(tx[c].op)

HoldsSeat(c) ==
    \/ Persists(c) /\ tx[c].at \in {"create", "commit"}
    \/ /\ Settles(c)
       /\ \/ tx[c].at = "commit"
          \/ tx[c].at = "second" /\ SeatFirst(tx[c].op)

\* The statement c runs next needs the lock of its seat, or of its row.
WantsSeat(c) ==
    \/ Persists(c) /\ tx[c].at = "update"
    \/ Settles(c) /\ tx[c].at = (IF SeatFirst(tx[c].op) THEN "first" ELSE "second")

WantsRow(c) ==
    Settles(c) /\ tx[c].at = (IF SeatFirst(tx[c].op) THEN "second" ELSE "first")

\* An INSERT whose unique key is taken by a row that another transaction is
\* updating waits for that transaction before it reports the duplicate.
WaitsFor(c) ==
    {d \in Conns \ {c} :
        \/ WantsSeat(c) /\ HoldsSeat(d) /\ SeatIn(d) = SeatIn(c)
        \/ WantsRow(c) /\ HoldsRow(d) /\ tx[d].res = tx[c].res
        \/ /\ Persists(c) /\ tx[c].at = "create"
           /\ HoldsRow(d) /\ SeatIn(d) = SeatIn(c)}

Deadlocked(D) == D # {} /\ \A c \in D : WaitsFor(c) \cap D # {}

-----------------------------------------------------------------------------
(***************************************************************************)
(* The queue worker's transaction for the queued item r: read the seat,    *)
(* take it with the version just read, insert the reservation.  Any item   *)
(* may be delivered at any time and any number of times.                   *)
(***************************************************************************)
PersistFind(c, r) ==
    /\ tx[c] = Idle
    /\ seatStatus[SeatOf[r]] = "AVAILABLE"
    /\ tx' = [tx EXCEPT ![c] = [op |-> "persist", at |-> "update", res |-> r,
                                ver |-> seatVersion[SeatOf[r]]]]
    /\ UNCHANGED <<seatStatus, seatVersion, resStatus>>

\* The WHERE clause of updateMany, evaluated on the row's latest version.
VersionAhead(c) ==                       \* mutant: compares the next version
    /\ seatStatus[SeatIn(c)] = "AVAILABLE"
    /\ seatVersion[SeatIn(c)] = tx[c].ver + 1
StillFree(c) ==
    /\ seatStatus[SeatIn(c)] = "AVAILABLE"
    /\ seatVersion[SeatIn(c)] = tx[c].ver

\* The statement at the named step may run: nobody holds the lock it needs.
Ready(c, step) == tx[c].at = step /\ WaitsFor(c) = {}

PersistUpdate(c) ==
    /\ Persists(c) /\ Ready(c, "update")
    /\ StillFree(c)
    /\ tx' = [tx EXCEPT ![c].at = "create"]
    /\ UNCHANGED <<seatStatus, seatVersion, resStatus>>

\* count = 0: the conflict is thrown and the transaction rolled back.
PersistCollide(c) ==
    /\ Persists(c) /\ Ready(c, "update")
    /\ ~StillFree(c)
    /\ tx' = [tx EXCEPT ![c] = Idle]
    /\ UNCHANGED <<seatStatus, seatVersion, resStatus>>

\* The unique index on Reservation.seatId admits a row for the seat of c.
NoUniqueIndex(c) == TRUE                 \* mutant: seatId not @unique
Insertable(c) == RowsOn(SeatIn(c)) = {}

PersistCreate(c) ==
    /\ Persists(c) /\ Ready(c, "create")
    /\ Insertable(c)
    /\ tx' = [tx EXCEPT ![c].at = "commit"]
    /\ UNCHANGED <<seatStatus, seatVersion, resStatus>>

DuplicateSwallowed(c) ==                 \* mutant: the error leaves the
    /\ Persists(c) /\ Ready(c, "create") \* transaction open
    /\ ~Insertable(c)
    /\ UNCHANGED vars
PersistDuplicate(c) ==
    /\ Persists(c) /\ Ready(c, "create")
    /\ ~Insertable(c)
    /\ tx' = [tx EXCEPT ![c] = Idle]
    /\ UNCHANGED <<seatStatus, seatVersion, resStatus>>

PersistCommit(c) ==
    /\ Persists(c) /\ tx[c].at = "commit"
    /\ seatStatus' = [seatStatus EXCEPT ![SeatIn(c)] = "HELD"]
    /\ seatVersion' = [seatVersion EXCEPT ![SeatIn(c)] = @ + 1]
    /\ resStatus' = [resStatus EXCEPT ![tx[c].res] = "PENDING"]
    /\ tx' = [tx EXCEPT ![c] = Idle]

-----------------------------------------------------------------------------
(***************************************************************************)
(* confirmReservation and cancelReservation (called by the controller and, *)
(* for overdue reservations, by expireOverdueReservations).  The status is *)
(* checked on the row read without a lock; the two updates that follow     *)
(* name the rows by id only.                                               *)
(***************************************************************************)
MaySettle(r) == resStatus[r] = "PENDING"

SettleFind(c, r, op) ==
    /\ tx[c] = Idle
    /\ MaySettle(r)
    /\ tx' = [tx EXCEPT ![c] = [op |-> op, at |-> "first", res |-> r, ver |-> 0]]
    /\ UNCHANGED <<seatStatus, seatVersion, resStatus>>

SettleFirst(c) ==
    /\ Settles(c) /\ Ready(c, "first")
    /\ tx' = [tx EXCEPT ![c].at = "second"]
    /\ UNCHANGED <<seatStatus, seatVersion, resStatus>>

SettleSecond(c) ==
    /\ Settles(c) /\ Ready(c, "second")
    /\ tx' = [tx EXCEPT ![c].at = "commit"]
    /\ UNCHANGED <<seatStatus, seatVersion, resStatus>>

\* What the two transactions write.
RowOutcome(op) == IF op = "confirm" THEN "CONFIRMED" ELSE "CANCELLED"
SeatLeftHeld(op) == IF op = "confirm" THEN "OCCUPIED" ELSE "HELD"   \* mutant
SeatTakesRowStatus(op) == RowOutcome(op) \* mutant: the wrong enum
SeatOutcome(op) == IF op = "confirm" THEN "OCCUPIED" ELSE "AVAILABLE"

SettleCommitSameVersion(c) ==            \* mutant: version not incremented
    /\ Settles(c) /\ tx[c].at = "commit"
    /\ seatStatus' = [seatStatus EXCEPT ![SeatIn(c)] = SeatOutcome(tx[c].op)]
    /\ resStatus' = [resStatus EXCEPT ![tx[c].res] = RowOutcome(tx[c].op)]
    /\ tx' = [tx EXCEPT ![c] = Idle]
    /\ UNCHANGED seatVersion
SettleCommit(c) ==
    /\ Settles(c) /\ tx[c].at = "commit"
    /\ seatStatus' = [seatStatus EXCEPT ![SeatIn(c)] = SeatOutcome(tx[c].op)]
    /\ seatVersion' = [seatVersion EXCEPT ![SeatIn(c)] = @ + 1]
    /\ resStatus' = [resStatus EXCEPT ![tx[c].res] = RowOutcome(tx[c].op)]
    /\ tx' = [tx EXCEPT ![c] = Idle]

-----------------------------------------------------------------------------
(***************************************************************************)
(* Rollbacks, and deletion of a performance.                               *)
(***************************************************************************)
\* A lost connection, Prisma's transaction timeout, any other database error,
\* or the end of the process: the transaction is rolled back.
Abort(c) ==
    /\ tx[c] # Idle
    /\ tx' = [tx EXCEPT ![c] = Idle]
    /\ UNCHANGED <<seatStatus, seatVersion, resStatus>>

\* PostgreSQL rolls back one transaction of a cycle of waits.
DeadlockVictim(c) ==
    /\ \E D \in SUBSET Conns : c \in D /\ Deadlocked(D)
    /\ tx' = [tx EXCEPT ![c] = Idle]
    /\ UNCHANGED <<seatStatus, seatVersion, resStatus>>

\* PerformanceService.delete: the seats go with the performance (onDelete:
\* Cascade), unless one is referenced by a reservation (ON DELETE RESTRICT).
\* The statement waits for the locks on the seats.
DeletePerformance(p) ==
    LET gone == {s \in Seats : PerformanceOf[s] = p} IN
    /\ \A s \in gone : seatStatus[s] # "GONE" /\ RowsOn(s) = {}
    /\ \A c \in Conns : ~(HoldsSeat(c) /\ SeatIn(c) \in gone)
    /\ seatStatus' = [s \in Seats |-> IF s \in gone THEN "GONE" ELSE seatStatus[s]]
    /\ UNCHANGED <<seatVersion, resStatus, tx>>

-----------------------------------------------------------------------------
\* The next statement of a transaction that is already open.
Advance(c) ==
    \/ PersistUpdate(c) \/ PersistCollide(c)
    \/ PersistCreate(c) \/ PersistDuplicate(c) \/ PersistCommit(c)
    \/ SettleFirst(c) \/ SettleSecond(c) \/ SettleCommit(c)

Next ==
    \/ \E c \in Conns :
          \/ \E r \in Reservations :
                \/ PersistFind(c, r)
                \/ \E op \in {"confirm", "cancel"} : SettleFind(c, r, op)
          \/ Advance(c)
          \/ Abort(c)
          \/ DeadlockVictim(c)
    \/ \E p \in Performances : DeletePerformance(p)

\* PostgreSQL grants a row lock in the order of the requests, so a statement
\* that can run again and again is not passed over for ever; it detects every
\* deadlock.  Aborts and new transactions are not owed to anyone.
Fairness == \A c \in Conns : SF_vars(Advance(c)) /\ WF_vars(DeadlockVictim(c))

Spec == Init /\ [][Next]_vars /\ Fairness

-----------------------------------------------------------------------------
(***************************************************************************)
(* Properties.                                                             *)
(***************************************************************************)
SeatStatusFor(row) ==
    CASE row = "PENDING" -> "HELD"
      [] row = "CONFIRMED" -> "OCCUPIED"
      [] row = "CANCELLED" -> "AVAILABLE"

\* The two tables agree in every committed state although each transaction
\* writes them in separate statements and confirm, cancel and the worker
\* race: every reservation's seat has the status that goes with it, and no
\* seat is HELD or OCCUPIED without a reservation.
SeatMatchesReservation ==
    /\ \A r \in Reservations :
          resStatus[r] # "NONE" => seatStatus[SeatOf[r]] = SeatStatusFor(resStatus[r])
    /\ \A s \in Seats : seatStatus[s] \in {"HELD", "OCCUPIED"} => RowsOn(s) # {}

\* The worker's optimistic lock: if the version a worker read is still the
\* seat's version, nobody has taken the seat since, so the version alone
\* decides.  It needs every writer of Seat.status to increment the version.
VersionGuardsStatus ==
    \A c \in Conns :
        (/\ Persists(c) /\ tx[c].at = "update"
         /\ seatVersion[SeatIn(c)] = tx[c].ver)
            => seatStatus[SeatIn(c)] \in {"AVAILABLE", "GONE"}

\* Transactions wait on each other in a cycle only when a worker inserts a
\* row for a seat that a cancellation has freed.  Confirmations and
\* cancellations alone never deadlock: both update the reservation before
\* the seat.
DeadlocksNeedAFreedSeat ==
    \A D \in SUBSET Conns :
        Deadlocked(D) =>
            \E c \in D :
                /\ Persists(c) /\ tx[c].at = "create"
                /\ \E r \in RowsOn(SeatIn(c)) : resStatus[r] = "CANCELLED"

\* A reservation is PENDING once: neither a second delivery of the same item
\* nor a transaction that read it earlier brings back one that was settled.
SettledStaysSettled ==
    [][\A r \in Reservations :
          resStatus[r] \in {"CONFIRMED", "CANCELLED"}
              => resStatus'[r] \in {"CONFIRMED", "CANCELLED"}]_vars

\* The tables implement the ledger: a seat goes to one reservation in its
\* life, whatever is queued twice, retried, aborted or raced.
OneOf(rows) == IF rows = {} THEN NoRes ELSE CHOOSE r \in rows : TRUE
holder == [s \in Seats |-> OneOf(RowsOn(s))]
Ledger == INSTANCE SeatLedger WITH state <- seatStatus, NoOne <- NoRes
ImplementsLedger == Ledger!Spec

\* Every transaction ends: no wait for a row lock lasts for ever.
TransactionsEnd == \A c \in Conns : tx[c] # Idle ~> tx[c] = Idle

\* Doc claim, violated: only a PENDING reservation can be cancelled
\* (cancelReservation), so a confirmed one stays confirmed.
ConfirmedIsFinal ==
    [][\A r \in Reservations :
          resStatus[r] = "CONFIRMED" => resStatus'[r] = "CONFIRMED"]_vars

\* Doc claim, violated: a cancelled seat can be booked again.  A worker that
\* found the seat AVAILABLE and won it with the optimistic lock can insert
\* its reservation, unless it is one that was inserted before.
WonSeatAdmitsReservation ==
    \A c \in Conns :
        Persists(c) /\ tx[c].at = "create" => RowsOn(SeatIn(c)) \subseteq {tx[c].res}

-----------------------------------------------------------------------------
(***************************************************************************)
(* The inductive invariant behind the safety properties.                   *)
(***************************************************************************)
\* How far a transaction is fits what it is, and every reservation a
\* settling transaction works on has a row.
TxWellFormed ==
    \A c \in Conns :
        /\ tx[c].op = "none" <=> tx[c] = Idle
        /\ Persists(c) => /\ tx[c].at \in {"update", "create", "commit"}
                          /\ tx[c].res \in Reservations
                          /\ tx[c].ver <= seatVersion[SeatIn(c)]
        /\ Settles(c) => /\ tx[c].at \in {"first", "second", "commit"}
                         /\ tx[c].res \in Reservations
                         /\ resStatus[tx[c].res] # "NONE"

\* One transaction at a time holds a seat, and one a reservation.
LocksExclusive ==
    \A c, d \in Conns :
        \/ c = d
        \/ /\ ~(HoldsSeat(c) /\ HoldsSeat(d) /\ SeatIn(c) = SeatIn(d))
           /\ ~(HoldsRow(c) /\ HoldsRow(d) /\ tx[c].res = tx[d].res)

\* The unique index: a seat has one row at most.
OneRowPerSeat ==
    \A q, r \in Reservations :
        resStatus[q] # "NONE" /\ resStatus[r] # "NONE" /\ SeatOf[q] = SeatOf[r]
            => q = r

\* A worker that won a seat still sees it AVAILABLE, and once its INSERT ran
\* there is no row on the seat.
WorkerOwnsSeat ==
    \A c \in Conns : Persists(c) =>
        /\ tx[c].at \in {"create", "commit"} => seatStatus[SeatIn(c)] = "AVAILABLE"
        /\ tx[c].at = "commit" => RowsOn(SeatIn(c)) = {}

\* Together with the types and two safety properties above, what every step of
\* every transaction keeps: no statement invalidates what another transaction
\* that waits, or has still to commit, relies on.
IInv ==
    /\ TypeOK
    /\ TxWellFormed
    /\ LocksExclusive
    /\ OneRowPerSeat
    /\ WorkerOwnsSeat
    /\ SeatMatchesReservation
    /\ VersionGuardsStatus
=============================================================================
