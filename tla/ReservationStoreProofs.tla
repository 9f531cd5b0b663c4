----------------------- MODULE ReservationStoreProofs -----------------------
(***************************************************************************)
(* Proofs about ReservationStore for any seats, reservations, performances *)
(* and connections.  IInv is inductive, one step per action; the safety    *)
(* properties, the action property and the refinement of SeatLedger follow *)
(* from it.                                                                *)
(***************************************************************************)
EXTENDS ReservationStore, TLAPS

USE PerformanceAssumption, SeatAssumption, NoResAssumption

-----------------------------------------------------------------------------
\* With no transaction open and no row stored, the invariant holds.
LEMMA InitInv == Init => IInv
<1> SUFFICES ASSUME Init PROVE IInv
  OBVIOUS
<1>1. TypeOK
  BY DEF Init, TypeOK, SeatStates, RowStates, Transaction, Idle
<1>2. TxWellFormed /\ LocksExclusive /\ WorkerOwnsSeat /\ VersionGuardsStatus
  BY DEF Init, Idle, TxWellFormed, LocksExclusive, WorkerOwnsSeat,
         VersionGuardsStatus, Persists, Settles, HoldsRow, HoldsSeat
<1>3. OneRowPerSeat /\ SeatMatchesReservation
  BY DEF Init, OneRowPerSeat, SeatMatchesReservation
<1> QED
  BY <1>1, <1>2, <1>3 DEF IInv

\* A step that changes no table and leaves every transaction alone but that of
\* c, which rolls back, keeps the invariant: releasing locks disturbs nobody.
LEMMA RollbackKeepsInv ==
    ASSUME IInv, NEW c \in Conns,
           tx' = [tx EXCEPT ![c] = Idle],
           UNCHANGED <<seatStatus, seatVersion, resStatus>>
    PROVE  IInv'
<1>1. TypeOK'
  BY DEF IInv, TypeOK, Transaction, Idle
<1>2. TxWellFormed' /\ WorkerOwnsSeat' /\ VersionGuardsStatus'
  BY DEF IInv, TypeOK, TxWellFormed, WorkerOwnsSeat, VersionGuardsStatus,
         Idle, Persists, Settles, SeatIn, RowsOn
<1>3. LocksExclusive'
  BY DEF IInv, TypeOK, LocksExclusive, Idle, Persists, Settles, SeatIn,
         HoldsSeat, HoldsRow, SeatFirst
<1>4. OneRowPerSeat' /\ SeatMatchesReservation'
  BY DEF IInv, OneRowPerSeat, SeatMatchesReservation, RowsOn
<1> QED
  BY <1>1, <1>2, <1>3, <1>4 DEF IInv

\* Starting a transaction takes no lock.
LEMMA FindKeepsInv ==
    ASSUME IInv, NEW c \in Conns, NEW r \in Reservations,
           \/ PersistFind(c, r)
           \/ \E op \in {"confirm", "cancel"} : SettleFind(c, r, op)
    PROVE  IInv'
<1> USE DEF PersistFind, SettleFind, MaySettle
<1>1. TypeOK'
  BY DEF IInv, TypeOK, Transaction
<1>2. TxWellFormed' /\ WorkerOwnsSeat' /\ VersionGuardsStatus'
  BY DEF IInv, TypeOK, TxWellFormed, WorkerOwnsSeat, VersionGuardsStatus,
         Idle, Persists, Settles, SeatIn, RowsOn
<1>3. LocksExclusive'
  BY DEF IInv, TypeOK, LocksExclusive, Persists, Settles, SeatIn,
         HoldsSeat, HoldsRow, SeatFirst
<1>4. OneRowPerSeat' /\ SeatMatchesReservation'
  BY DEF IInv, OneRowPerSeat, SeatMatchesReservation, RowsOn
<1> QED
  BY <1>1, <1>2, <1>3, <1>4 DEF IInv

\* A statement that takes a lock waited until nobody held it.
LEMMA LockKeepsInv ==
    ASSUME IInv, NEW c \in Conns,
           PersistUpdate(c) \/ PersistCreate(c) \/ SettleFirst(c) \/ SettleSecond(c)
    PROVE  IInv'
<1> USE DEF PersistUpdate, PersistCreate, SettleFirst, SettleSecond, Ready
<1>1. TypeOK'
  BY DEF IInv, TypeOK, Transaction
<1>2. TxWellFormed' /\ VersionGuardsStatus'
  BY DEF IInv, TypeOK, TxWellFormed, VersionGuardsStatus, Transaction,
         Idle, Persists, Settles, SeatIn
<1>3. WorkerOwnsSeat'
  BY DEF IInv, TypeOK, WorkerOwnsSeat, Transaction, StillFree, Insertable,
         Persists, Settles, SeatIn, RowsOn
<1>4. LocksExclusive'
  BY DEF IInv, TypeOK, TxWellFormed, LocksExclusive, Transaction, WaitsFor,
         WantsSeat, WantsRow, Persists, Settles, SeatIn, HoldsSeat, HoldsRow,
         SeatFirst
<1>5. OneRowPerSeat' /\ SeatMatchesReservation'
  BY DEF IInv, OneRowPerSeat, SeatMatchesReservation, RowsOn
<1> QED
  BY <1>1, <1>2, <1>3, <1>4, <1>5 DEF IInv

\* The worker's commit: the seat's lock keeps every other writer of the seat
\* away from it, and the seat has no other row.
LEMMA PersistCommitKeepsInv ==
    ASSUME IInv, NEW c \in Conns, PersistCommit(c)
    PROVE  IInv'
<1> USE DEF PersistCommit
<1>1. tx[c].res \in Reservations /\ RowsOn(SeatIn(c)) = {}
  BY DEF IInv, TxWellFormed, WorkerOwnsSeat
<1>2. TypeOK'
  BY <1>1 DEF IInv, TypeOK, SeatStates, RowStates, Transaction, Idle, SeatIn
<1>3. TxWellFormed'
  BY <1>1 DEF IInv, TypeOK, TxWellFormed, Transaction, Idle, Persists, Settles,
              SeatIn
<1>4. LocksExclusive'
  BY DEF IInv, TypeOK, LocksExclusive, Idle, Persists, Settles, SeatIn,
         HoldsSeat, HoldsRow, SeatFirst
<1>5. OneRowPerSeat' /\ SeatMatchesReservation'
  BY <1>1 DEF IInv, TypeOK, OneRowPerSeat, SeatMatchesReservation, SeatStatusFor,
              RowsOn, SeatIn
<1>6. WorkerOwnsSeat'
  BY <1>1 DEF IInv, TypeOK, TxWellFormed, LocksExclusive, WorkerOwnsSeat, Idle,
              Persists, Settles, SeatIn, HoldsSeat, RowsOn
<1>7. VersionGuardsStatus'
  BY <1>1 DEF IInv, TypeOK, TxWellFormed, VersionGuardsStatus, Transaction, Idle,
              Persists, SeatIn
<1> QED
  BY <1>2, <1>3, <1>4, <1>5, <1>6, <1>7 DEF IInv

\* The commit of a confirmation or a cancellation: the row is the only one on
\* its seat, and a worker that read the seat before sees a newer version.
LEMMA SettleCommitKeepsInv ==
    ASSUME IInv, NEW c \in Conns, SettleCommit(c)
    PROVE  IInv'
<1> USE DEF SettleCommit, SeatOutcome, RowOutcome
<1>1. tx[c].res \in Reservations /\ resStatus[tx[c].res] # "NONE"
  BY DEF IInv, TxWellFormed
<1>2. TypeOK'
  BY <1>1 DEF IInv, TypeOK, SeatStates, RowStates, Transaction, Idle, SeatIn
<1>3. TxWellFormed'
  BY <1>1 DEF IInv, TypeOK, TxWellFormed, Transaction, Idle, Persists, Settles,
              SeatIn
<1>4. LocksExclusive'
  BY DEF IInv, TypeOK, LocksExclusive, Idle, Persists, Settles, SeatIn,
         HoldsSeat, HoldsRow, SeatFirst
<1>5. OneRowPerSeat' /\ SeatMatchesReservation'
  BY <1>1 DEF IInv, TypeOK, OneRowPerSeat, SeatMatchesReservation, SeatStatusFor,
              RowsOn, SeatIn, Settles
<1>6. WorkerOwnsSeat'
  BY <1>1 DEF IInv, TypeOK, TxWellFormed, LocksExclusive, WorkerOwnsSeat, Idle,
              Persists, Settles, SeatIn, HoldsSeat, RowsOn
<1>7. VersionGuardsStatus'
  BY <1>1 DEF IInv, TypeOK, TxWellFormed, VersionGuardsStatus, Transaction, Idle,
              Persists, SeatIn
<1> QED
  BY <1>2, <1>3, <1>4, <1>5, <1>6, <1>7 DEF IInv

\* A performance goes only when none of its seats is locked or reserved.
LEMMA DeleteKeepsInv ==
    ASSUME IInv, NEW p \in Performances, DeletePerformance(p)
    PROVE  IInv'
<1> USE DEF DeletePerformance
<1>1. TypeOK' /\ TxWellFormed' /\ LocksExclusive' /\ OneRowPerSeat'
  BY DEF IInv, TypeOK, SeatStates, TxWellFormed, LocksExclusive, OneRowPerSeat,
         Persists, Settles, SeatIn, HoldsSeat, HoldsRow
<1>2. SeatMatchesReservation'
  BY DEF IInv, TypeOK, SeatMatchesReservation, RowsOn
<1>3. WorkerOwnsSeat' /\ VersionGuardsStatus'
  BY DEF IInv, TypeOK, TxWellFormed, WorkerOwnsSeat, VersionGuardsStatus,
         Persists, SeatIn, HoldsSeat, RowsOn
<1> QED
  BY <1>1, <1>2, <1>3 DEF IInv

\* Every step of the tables keeps the invariant.
LEMMA StepInv == IInv /\ [Next]_vars => IInv'
<1> SUFFICES ASSUME IInv, [Next]_vars PROVE IInv'
  OBVIOUS
<1>1. ASSUME NEW c \in Conns, NEW r \in Reservations, PersistFind(c, r)
      PROVE  IInv'
  BY <1>1, FindKeepsInv
<1>2. ASSUME NEW c \in Conns, NEW r \in Reservations,
             NEW op \in {"confirm", "cancel"}, SettleFind(c, r, op)
      PROVE  IInv'
  BY <1>2, FindKeepsInv
<1>3. ASSUME NEW c \in Conns, Advance(c)
      PROVE  IInv'
  <2>1. CASE PersistUpdate(c) \/ PersistCreate(c) \/ SettleFirst(c) \/ SettleSecond(c)
    BY <2>1, LockKeepsInv
  <2>2. CASE PersistCollide(c) \/ PersistDuplicate(c)
    BY <2>2, RollbackKeepsInv DEF PersistCollide, PersistDuplicate
  <2>3. CASE PersistCommit(c)
    BY <2>3, PersistCommitKeepsInv
  <2>4. CASE SettleCommit(c)
    BY <2>4, SettleCommitKeepsInv
  <2> QED
    BY <1>3, <2>1, <2>2, <2>3, <2>4 DEF Advance
<1>4. ASSUME NEW c \in Conns, Abort(c) \/ DeadlockVictim(c)
      PROVE  IInv'
  BY <1>4, RollbackKeepsInv DEF Abort, DeadlockVictim
<1>5. ASSUME NEW p \in Performances, DeletePerformance(p)
      PROVE  IInv'
  BY <1>5, DeleteKeepsInv
<1>6. CASE UNCHANGED vars
  BY <1>6 DEF vars, IInv, TypeOK, TxWellFormed, LocksExclusive, OneRowPerSeat,
              WorkerOwnsSeat, SeatMatchesReservation, VersionGuardsStatus,
              Persists, Settles, SeatIn, HoldsSeat, HoldsRow, RowsOn
<1> QED
  BY <1>1, <1>2, <1>3, <1>4, <1>5, <1>6 DEF Next

\* In every reachable state the locks are exclusive, a seat has one row, and
\* a worker past its update still owns an AVAILABLE seat.
THEOREM InductiveInvariant == Spec => []IInv
BY InitInv, StepInv, PTL DEF Spec

-----------------------------------------------------------------------------
\* The variables keep their types.
THEOREM TypeCorrect == Spec => []TypeOK
<1>1. IInv => TypeOK
  BY DEF IInv
<1> QED
  BY <1>1, InductiveInvariant, PTL

\* The Seat and Reservation tables agree in every committed state.
THEOREM TablesAgree == Spec => []SeatMatchesReservation
<1>1. IInv => SeatMatchesReservation
  BY DEF IInv
<1> QED
  BY <1>1, InductiveInvariant, PTL

\* The version a worker read is still current only if the seat is still free.
THEOREM VersionIsEnough == Spec => []VersionGuardsStatus
<1>1. IInv => VersionGuardsStatus
  BY DEF IInv
<1> QED
  BY <1>1, InductiveInvariant, PTL

\* A settled reservation is never PENDING again: the only step that writes
\* PENDING inserts a row on a seat without rows.
Kept ==
    \A r \in Reservations : resStatus[r] \in {"CONFIRMED", "CANCELLED"}
                                => resStatus'[r] \in {"CONFIRMED", "CANCELLED"}

\* Every step of the tables keeps what is settled.
LEMMA StepKeeps == IInv /\ [Next]_vars => [Kept]_vars
<1> SUFFICES ASSUME IInv, Next PROVE Kept
  OBVIOUS
<1>1. ASSUME NEW c \in Conns, PersistCommit(c)
      PROVE  Kept
  BY <1>1 DEF PersistCommit, IInv, TypeOK, WorkerOwnsSeat, RowsOn, SeatIn, Kept
<1>2. ASSUME NEW c \in Conns, SettleCommit(c)
      PROVE  Kept
  BY <1>2 DEF SettleCommit, RowOutcome, IInv, TypeOK, Kept
<1>3. CASE UNCHANGED resStatus
  BY <1>3 DEF Kept
<1> QED
  BY <1>1, <1>2, <1>3
     DEF Next, Advance, PersistFind, PersistUpdate, PersistCollide, PersistCreate,
         PersistDuplicate, SettleFind, SettleFirst, SettleSecond, Abort,
         DeadlockVictim, DeletePerformance

\* So no transaction brings back a reservation that was confirmed or cancelled.
THEOREM NeverPendingAgain == Spec => SettledStaysSettled
BY StepKeeps, InductiveInvariant, PTL DEF Spec, SettledStaysSettled, Kept

-----------------------------------------------------------------------------
(***************************************************************************)
(* Deadlocks.  A transaction about to commit waits for nobody, so whoever  *)
(* in a cycle waits for a seat waits for a worker at its INSERT, and       *)
(* whoever waits for a row waits for a transaction that waits for a seat.  *)
(***************************************************************************)
LEMMA CommitWaitsForNobody ==
    ASSUME IInv, NEW c \in Conns, tx[c].at = "commit"
    PROVE  WaitsFor(c) = {}
BY DEF WaitsFor, WantsSeat, WantsRow, SeatFirst, Persists, Settles

\* In a cycle the holder of a seat is a worker at its INSERT.
LEMMA SeatHolderInCycle ==
    ASSUME IInv, NEW D \in SUBSET Conns, Deadlocked(D), NEW d \in D, HoldsSeat(d)
    PROVE  Persists(d) /\ tx[d].at = "create"
<1>1. tx[d].at # "commit"
  BY CommitWaitsForNobody DEF Deadlocked
<1> QED
  BY <1>1 DEF HoldsSeat, SeatFirst

\* In a cycle the holder of a reservation's row waits for the seat.
LEMMA RowHolderInCycle ==
    ASSUME IInv, NEW D \in SUBSET Conns, Deadlocked(D), NEW d \in D, HoldsRow(d)
    PROVE  \E e \in D : HoldsSeat(e)
<1>1. tx[d].at # "commit"
  BY CommitWaitsForNobody DEF Deadlocked
<1>2. Settles(d) /\ tx[d].at = "second"
  BY <1>1 DEF HoldsRow
<1>3. PICK e \in WaitsFor(d) : e \in D
  BY DEF Deadlocked
<1>4. HoldsSeat(e)
  BY <1>2, <1>3 DEF WaitsFor, WantsRow, SeatFirst, Persists, Settles
<1> QED
  BY <1>3, <1>4

\* Confirmations and cancellations never deadlock among themselves: every
\* cycle of waits has a worker that inserts a row for a cancelled seat.
LEMMA CyclesNeedAFreedSeat == IInv => DeadlocksNeedAFreedSeat
<1> SUFFICES ASSUME IInv, NEW D \in SUBSET Conns, Deadlocked(D)
             PROVE  \E c \in D : /\ Persists(c) /\ tx[c].at = "create"
                                 /\ \E r \in RowsOn(SeatIn(c)) :
                                       resStatus[r] = "CANCELLED"
  BY DEF DeadlocksNeedAFreedSeat
<1>1. \E d \in D : HoldsSeat(d) \/ HoldsRow(d)
  <2>1. PICK c \in D : WaitsFor(c) \cap D # {}
    BY DEF Deadlocked
  <2>2. PICK d \in D : d \in WaitsFor(c)
    BY <2>1
  <2> QED
    BY <2>2 DEF WaitsFor
<1>2. PICK c \in D : HoldsSeat(c)
  BY <1>1, RowHolderInCycle
<1>3. Persists(c) /\ tx[c].at = "create"
  BY <1>2, SeatHolderInCycle
<1>4. PICK d \in WaitsFor(c) : TRUE
  BY DEF Deadlocked
<1>5. Settles(d) /\ SeatIn(d) = SeatIn(c)
  BY <1>3, <1>4 DEF WaitsFor, WantsSeat, WantsRow, HoldsRow, Persists, Settles
<1>6. tx[d].res \in RowsOn(SeatIn(c))
  BY <1>4, <1>5 DEF IInv, TxWellFormed, RowsOn, SeatIn, WaitsFor
<1>7. seatStatus[SeatIn(c)] = "AVAILABLE"
  BY <1>3 DEF IInv, WorkerOwnsSeat
<1>8. resStatus[tx[d].res] = "CANCELLED"
  BY <1>6, <1>7 DEF IInv, TypeOK, RowStates, SeatMatchesReservation,
                    SeatStatusFor, RowsOn
<1> QED
  BY <1>3, <1>6, <1>8

\* That holds of every state the tables reach.
THEOREM DeadlocksExplained == Spec => []DeadlocksNeedAFreedSeat
BY CyclesNeedAFreedSeat, InductiveInvariant, PTL

-----------------------------------------------------------------------------
(***************************************************************************)
(* The tables implement the ledger.  The holder of a seat is the one row   *)
(* on it; only the worker's commit adds a row, and no step removes one.    *)
(***************************************************************************)
\* A step that adds and removes no row of any seat changes no holder.
LEMMA HolderUnchanged ==
    ASSUME \A s \in Seats : RowsOn(s)' = RowsOn(s)
    PROVE  holder' = holder
BY DEF holder

\* The worker's commit is Book.
LEMMA CommitIsBook ==
    ASSUME IInv, NEW c \in Conns, PersistCommit(c)
    PROVE  Ledger!Book(tx[c].res)
<1>1. PICK r \in Reservations, s \in Seats : r = tx[c].res /\ s = SeatOf[r]
  BY DEF IInv, TxWellFormed, PersistCommit
<1>2. RowsOn(s) = {} /\ seatStatus[s] = "AVAILABLE"
  BY <1>1 DEF IInv, WorkerOwnsSeat, PersistCommit, SeatIn
<1>3. seatStatus' = [seatStatus EXCEPT ![s] = "HELD"]
  BY <1>1 DEF PersistCommit, SeatIn
<1>4. RowsOn(s)' = {r}
  BY <1>1, <1>2 DEF PersistCommit, IInv, TypeOK, RowsOn
<1>5. ASSUME NEW t \in Seats, t # s
      PROVE  RowsOn(t)' = RowsOn(t)
  BY <1>1, <1>5 DEF PersistCommit, IInv, TypeOK, RowsOn
<1>6. OneOf({}) = NoRes /\ OneOf({r}) = r
  BY DEF OneOf
<1>7. holder[s] = NoRes
  BY <1>1, <1>2, <1>6 DEF holder
<1>8. holder'[s] = r
  BY <1>1, <1>4, <1>6 DEF holder
<1>9. ASSUME NEW t \in Seats, t # s
      PROVE  holder'[t] = holder[t]
  BY <1>5, <1>9 DEF holder
<1>10. holder' = [holder EXCEPT ![s] = r]
  BY <1>1, <1>8, <1>9 DEF holder
<1> QED
  BY <1>1, <1>2, <1>3, <1>7, <1>10 DEF Ledger!Book

\* The commit of a confirmation or a cancellation is Settle.
LEMMA CommitIsSettle ==
    ASSUME IInv, NEW c \in Conns, SettleCommit(c)
    PROVE  Ledger!Settle(SeatIn(c), SeatOutcome(tx[c].op))
<1>1. tx[c].res \in Reservations /\ resStatus[tx[c].res] # "NONE"
  BY DEF IInv, TxWellFormed, SettleCommit
<1>2. \A s \in Seats : RowsOn(s)' = RowsOn(s)
  BY <1>1 DEF SettleCommit, RowOutcome, IInv, TypeOK, RowsOn
<1>3. OneOf(RowsOn(SeatIn(c))) \in Reservations
  BY <1>1 DEF OneOf, RowsOn, SeatIn
<1>4. holder[SeatIn(c)] # NoRes
  BY <1>1, <1>3 DEF holder, SeatIn
<1> QED
  BY <1>2, <1>4, HolderUnchanged DEF Ledger!Settle, SettleCommit

\* Deleting a performance is Remove.
LEMMA DeleteIsRemove ==
    ASSUME IInv, NEW p \in Performances, DeletePerformance(p)
    PROVE  Ledger!Remove({s \in Seats : PerformanceOf[s] = p})
<1>1. \A s \in Seats : RowsOn(s)' = RowsOn(s)
  BY DEF DeletePerformance, RowsOn
<1>2. \A s \in {t \in Seats : PerformanceOf[t] = p} : holder[s] = NoRes
  BY DEF DeletePerformance, holder, OneOf
<1> QED
  BY <1>1, <1>2, HolderUnchanged DEF Ledger!Remove, DeletePerformance

\* Every step of the tables is a step of the ledger.
LEMMA LedgerStep == IInv /\ [Next]_vars => [Ledger!Next]_(Ledger!vars)
<1> SUFFICES ASSUME IInv, [Next]_vars PROVE [Ledger!Next]_(Ledger!vars)
  OBVIOUS
<1>1. ASSUME NEW c \in Conns, PersistCommit(c)
      PROVE  Ledger!Next
  BY <1>1, CommitIsBook DEF Ledger!Next, IInv, TxWellFormed, PersistCommit
<1>2. ASSUME NEW c \in Conns, SettleCommit(c)
      PROVE  Ledger!Next
  <2>1. SeatIn(c) \in Seats
    BY <1>2 DEF IInv, TxWellFormed, SettleCommit, SeatIn
  <2> QED
    BY <1>2, <2>1, CommitIsSettle DEF Ledger!Next, SeatOutcome
<1>3. ASSUME NEW p \in Performances, DeletePerformance(p)
      PROVE  Ledger!Next
  BY <1>3, DeleteIsRemove DEF Ledger!Next
<1>4. CASE UNCHANGED <<seatStatus, resStatus>>
  BY <1>4, HolderUnchanged DEF RowsOn, Ledger!vars
<1> QED
  BY <1>1, <1>2, <1>3, <1>4
     DEF Next, vars, Advance, PersistFind, PersistUpdate, PersistCollide,
         PersistCreate, PersistDuplicate, SettleFind, SettleFirst, SettleSecond,
         Abort, DeadlockVictim

\* At the start nobody holds a seat.
LEMMA LedgerInit == Init => Ledger!Init
BY DEF Init, Ledger!Init, holder, OneOf, RowsOn

\* A seat goes to one reservation in its life, whatever is queued twice,
\* aborted or raced.
THEOREM LedgerImplemented == Spec => ImplementsLedger
BY LedgerInit, LedgerStep, InductiveInvariant, PTL
   DEF Spec, ImplementsLedger, Ledger!Spec
=============================================================================
