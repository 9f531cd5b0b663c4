--------------------------- MODULE FastPassProofs ---------------------------
(***************************************************************************)
(* Proofs about FastPass for any seats, requests, processes and handlers.  *)
(***************************************************************************)
EXTENDS FastPass, SequenceTheorems, FiniteSetTheorems, TLAPS

USE FastPassAssumption

-----------------------------------------------------------------------------
(***************************************************************************)
(* What is on its way: only requests travel in buffers, pipelines, the     *)
(* queue and the workers' hands.                                           *)
(***************************************************************************)
\* A pipeline has commands for positions of its batch only.
Piped == {c \in Intake!Pipeline : c.cmds \subseteq DOMAIN c.batch}

OnTheWay ==
    /\ queue \in Seq(Requests)
    /\ buffer \in [Procs -> Seq(Requests)]
    /\ wire \in [Procs -> Seq(Piped)]
    /\ inHand \in [Procs -> Requests \cup {NoReq}]

\* At the start nothing is under way.
LEMMA InitOnTheWay == Init => OnTheWay
BY DEF Init, Intake!Init, OnTheWay

\* The command Redis runs is for a request.
LEMMA CommandOfRequest ==
    ASSUME OnTheWay, NEW p \in Procs, NEW k \in DOMAIN wire[p],
           NEW i \in wire[p][k].cmds
    PROVE  /\ wire[p][k].batch[i] \in Requests
           /\ wire[p][k] \in Piped
           /\ i \in Nat
<1>1. wire[p] \in Seq(Piped)
  BY DEF OnTheWay
<1>2. wire[p][k] \in Piped
  BY <1>1, ElementOfSeq, LenProperties
<1>3. wire[p][k].batch \in Seq(Requests) /\ i \in DOMAIN wire[p][k].batch
  BY <1>2 DEF Piped, Intake!Pipeline
<1> QED
  BY <1>2, <1>3, ElementOfSeq, LenProperties DEF Piped, Intake!Pipeline

\* An answer moves the pipeline one command on.
LEMMA AnsweredKeepsWire ==
    ASSUME OnTheWay, NEW p \in Procs, NEW k \in DOMAIN wire[p],
           NEW i \in wire[p][k].cmds,
           wire' = [wire EXCEPT ![p][k].next = i + 1]
    PROVE  wire' \in [Procs -> Seq(Piped)]
<1> DEFINE c == [wire[p][k] EXCEPT !.next = i + 1]
<1>1. c \in Piped
  BY CommandOfRequest DEF Piped, Intake!Pipeline
<1>2. wire[p] \in Seq(Piped) /\ k \in 1..Len(wire[p])
  BY LenProperties DEF OnTheWay
<1>3. [wire[p] EXCEPT ![k] = c] \in Seq(Piped)
  BY <1>1, <1>2, ExceptSeq
<1>4. wire' = [wire EXCEPT ![p] = [wire[p] EXCEPT ![k] = c]]
  BY DEF OnTheWay
<1> QED
  BY <1>3, <1>4 DEF OnTheWay

\* Leaving out the oldest pipeline and adding one is closed too.
LEMMA HeadTailOfWire ==
    ASSUME OnTheWay, NEW p \in Procs, wire[p] # <<>>
    PROVE  /\ Head(wire[p]) \in Piped
           /\ Head(wire[p]).batch \in Seq(Requests)
           /\ Head(wire[p]).cmds \subseteq DOMAIN Head(wire[p]).batch
           /\ Tail(wire[p]) \in Seq(Piped)
           /\ \A c \in Piped : Tail(wire[p]) \o <<c>> \in Seq(Piped)
<1>1. wire[p] \in Seq(Piped)
  BY DEF OnTheWay
<1>2. Head(wire[p]) \in Piped /\ Tail(wire[p]) \in Seq(Piped)
  BY <1>1, HeadTailProperties
<1>3. \A c \in Piped : Tail(wire[p]) \o <<c>> \in Seq(Piped)
  BY <1>2, ConcatProperties
<1> QED
  BY <1>2, <1>3 DEF Piped, Intake!Pipeline

\* The buffer of a process is a batch of requests.
LEMMA BatchOfRequests ==
    ASSUME OnTheWay, NEW p \in Procs, NEW batch \in Seq(Requests)
    PROVE  /\ Intake!ScriptsFor(batch) \in Piped
           /\ ToSet(batch) \subseteq Requests
           /\ [buffer EXCEPT ![p] = <<>>] \in [Procs -> Seq(Requests)]
           /\ [wire EXCEPT ![p] = Append(@, Intake!ScriptsFor(batch))]
                 \in [Procs -> Seq(Piped)]
<1>1. Intake!ScriptsFor(batch) \in Piped
  BY LenProperties DEF Intake!ScriptsFor, Piped, Intake!Pipeline
<1> QED
  BY <1>1, ElementOfSeq, LenProperties, AppendProperties DEF ToSet, OnTheWay

\* Sending a batch keeps it so.
LEMMA SendBatchOnTheWay ==
    ASSUME OnTheWay, NEW p \in Procs, NEW batch \in Seq(Requests),
           Intake!SendBatch(p, batch), UNCHANGED inHand
    PROVE  OnTheWay'
BY BatchOfRequests DEF Intake!SendBatch, Intake!redis, OnTheWay

\* What a process does for its requests, one step per action.
LEMMA IntakeOnTheWay ==
    ASSUME OnTheWay, NEW p \in Procs,
           Intake!Serve(p) \/ Intake!Disturb(p), UNCHANGED inHand
    PROVE  OnTheWay'
<1>1. ASSUME NEW r \in Requests, Intake!Submit(r)
      PROVE  OnTheWay'
  <2> DEFINE batch == Append(buffer[HomeOf[r]], r)
  <2>1. HomeOf[r] \in Procs /\ batch \in Seq(Requests)
    BY AppendProperties DEF OnTheWay
  <2>2. CASE Intake!SendBatch(HomeOf[r], batch)
    BY <2>1, <2>2, SendBatchOnTheWay
  <2>3. CASE /\ buffer' = [buffer EXCEPT ![HomeOf[r]] = batch]
             /\ UNCHANGED <<queue, wire>>
    BY <2>1, <2>3 DEF OnTheWay
  <2> QED
    BY <1>1, <2>2, <2>3 DEF Intake!Submit, Intake!redis
<1>2. CASE Intake!Flush(p)
  <2>1. buffer[p] \in Seq(Requests)
    BY DEF OnTheWay
  <2> QED
    BY <1>2, <2>1, SendBatchOnTheWay DEF Intake!Flush
<1>3. CASE Intake!RunCommand(p) \/ Intake!CommandFails(p)
  <2>1. ASSUME NEW k \in DOMAIN wire[p], NEW i \in wire[p][k].cmds,
               UNCHANGED buffer,
               wire' = wire \/ wire' = [wire EXCEPT ![p][k].next = i + 1],
               queue' = queue \/ queue' = Append(queue, wire[p][k].batch[i])
        PROVE  OnTheWay'
    <3>1. wire' \in [Procs -> Seq(Piped)]
      BY <2>1, AnsweredKeepsWire DEF OnTheWay
    <3>2. Append(queue, wire[p][k].batch[i]) \in Seq(Requests)
      BY CommandOfRequest, AppendProperties DEF OnTheWay
    <3> QED
      BY <2>1, <3>1, <3>2 DEF OnTheWay
  <2>2. \A k, i : Intake!Execute(wire[p][k].kind, wire[p][k].batch[i]) =>
           queue' = queue \/ queue' = Append(queue, wire[p][k].batch[i])
    BY DEF Intake!Execute
  <2>3. CASE Intake!RunCommand(p)
    BY <2>1, <2>2, <2>3 DEF Intake!RunCommand, Intake!Answered
  <2>4. CASE Intake!CommandFails(p)
    BY <2>1, <2>2, <2>4 DEF Intake!CommandFails, Intake!Answered, Intake!redis,
                            Intake!local
  <2> QED
    BY <1>3, <2>3, <2>4
<1>4. CASE Intake!HandleScripts(p)
  <2> DEFINE batch == Head(wire[p]).batch
             won == {i \in DOMAIN batch : saw[batch[i]] = "OK"}
  <2>1. wire[p] # <<>>
    BY <1>4 DEF Intake!HandleScripts, Intake!Complete
  <2>2. Intake!PushesFor(batch, won) \in Piped
    <3>1. batch \in Seq(Requests) /\ DOMAIN batch \subseteq Nat
      BY <2>1, HeadTailOfWire, LenProperties
    <3> QED
      BY <3>1 DEF Intake!PushesFor, Piped, Intake!Pipeline
  <2>3. wire' = [wire EXCEPT ![p] = Tail(@) \o
                    (IF won = {} THEN <<>> ELSE <<Intake!PushesFor(batch, won)>>)]
    BY <1>4 DEF Intake!HandleScripts
  <2>4. Tail(wire[p]) \o <<>> = Tail(wire[p])
    BY <2>1, HeadTailOfWire, ConcatEmptySeq
  <2>5. wire' \in [Procs -> Seq(Piped)]
    BY <2>1, <2>2, <2>3, <2>4, HeadTailOfWire DEF OnTheWay
  <2> QED
    BY <1>4, <2>5 DEF Intake!HandleScripts, Intake!redis, OnTheWay
<1>5. CASE Intake!HandlePushes(p) \/ Intake!ExecRejected(p)
  <2>1. wire[p] # <<>>
    BY <1>5 DEF Intake!HandlePushes, Intake!ExecRejected, Intake!Complete
  <2>2. Tail(wire[p]) \in Seq(Piped)
    BY <2>1, HeadTailOfWire
  <2> QED
    BY <1>5, <2>2 DEF Intake!HandlePushes, Intake!ExecRejected, Intake!redis, OnTheWay
<1>6. ASSUME NEW r \in Requests,
             \/ Intake!SlowStep(r) \/ Intake!AcquireFault(r) \/ Intake!SlowFault(r)
             \/ Intake!SlowResend(r) \/ Intake!ReleaseFault(r)
      PROVE  OnTheWay'
  <2>1. ASSUME UNCHANGED <<buffer, wire>>,
               queue' = queue \/ queue' = Append(queue, r)
        PROVE  OnTheWay'
    <3>1. Append(queue, r) \in Seq(Requests)
      BY AppendProperties DEF OnTheWay
    <3> QED
      BY <2>1, <3>1 DEF OnTheWay
  <2>2. CASE \/ Intake!Acquire(r) \/ Intake!LockBusy(r) \/ Intake!ReadAvailable(r)
             \/ Intake!ReadTaken(r) \/ Intake!ReadNothing(r) \/ Intake!AcquireFault(r)
    BY <2>1, <2>2 DEF Intake!Acquire, Intake!LockBusy, Intake!ReadAvailable,
                      Intake!ReadTaken, Intake!ReadNothing, Intake!Leaves,
                      Intake!AcquireFault, Intake!redis
  <2>3. CASE \/ Intake!Mark(r) \/ Intake!Enqueue(r) \/ Intake!Hold(r)
             \/ Intake!Release(r) \/ Intake!ReleaseFault(r)
    BY <2>1, <2>3 DEF Intake!Mark, Intake!Enqueue, Intake!Hold, Intake!Release,
                      Intake!ReleaseFault, Intake!Finish, Intake!Leaves, Intake!PushItem
  <2>4. CASE Intake!SlowFault(r) \/ Intake!SlowResend(r)
    BY <2>1, <2>4 DEF Intake!SlowFault, Intake!SlowResend, Intake!TakesEffect,
                      Intake!Leaves, Intake!PushItem, Intake!redis, Intake!local
  <2> QED
    BY <1>6, <2>2, <2>3, <2>4 DEF Intake!SlowStep
<1> QED
  BY <1>1, <1>2, <1>3, <1>4, <1>5, <1>6 DEF Intake!Serve, Intake!Disturb

\* The whole of FastPass.
LEMMA StepOnTheWay == OnTheWay /\ [Next]_vars => OnTheWay'
<1> SUFFICES ASSUME OnTheWay, [Next]_vars PROVE OnTheWay'
  OBVIOUS
<1>1. ASSUME NEW p \in Procs, Serve(p) \/ Disturb(p)
      PROVE  OnTheWay'
  BY <1>1, IntakeOnTheWay DEF Serve, Disturb, work
<1>2. ASSUME NEW p \in Procs, Pop(p)
      PROVE  OnTheWay'
  BY <1>2, HeadTailProperties DEF Pop, OnTheWay
<1>3. ASSUME NEW p \in Procs, Work(p) \/ WorkerErrs(p), ~Pop(p)
      PROVE  OnTheWay'
  BY <1>3 DEF Work, WorkerFind, WorkerProceeds, WorkerCommits, WorkerRefuses,
              WorkerLoses, WorkerErrs, GivesUp, intake, work, OnTheWay
<1>4. ASSUME NEW p \in Procs, Crash(p)
      PROVE  OnTheWay'
  BY <1>4, EmptySeq DEF Crash, Intake!Crash, Intake!redis, GivesUp, work, OnTheWay
<1>5. ASSUME UNCHANGED <<queue, buffer, wire, inHand>>
      PROVE  OnTheWay'
  BY <1>5 DEF OnTheWay
<1>6. ASSUME NEW h \in Handlers,
             \/ \E r \in Requests, op \in {"confirm", "cancel"} : SettleFind(h, r, op)
             \/ SettleProceeds(h) \/ SettleEnds(h) \/ SettleErrs(h)
             \/ \E s \in Seats : Unhold(h, s) \/ UnholdFails(h, s)
      PROVE  OnTheWay'
  BY <1>5, <1>6 DEF SettleFind, SettleProceeds, SettleEnds, SettleErrs, Unhold,
                    UnholdFails, intake, work
<1>7. ASSUME NEW s \in Seats,
             \/ Expire(s) \/ WarmRead(s)
             \/ \E status \in Intake!CacheStates : WarmSet(s, status)
      PROVE  OnTheWay'
  BY <1>5, <1>7 DEF Expire, Intake!Expire, Intake!KeyExpire, Intake!LockExpire,
                    Intake!local, WarmRead, WarmSet, intake, work
<1>8. ASSUME NEW p \in Performances, DeletePerformance(p)
      PROVE  OnTheWay'
  BY <1>5, <1>8 DEF DeletePerformance, intake, work
<1>9. CASE UNCHANGED vars
  BY <1>5, <1>9 DEF vars, intake, work
<1> QED
  BY <1>1, <1>2, <1>3, <1>4, <1>6, <1>7, <1>8, <1>9 DEF Next

-----------------------------------------------------------------------------
(***************************************************************************)
(* The tables.  Every step of the system leaves them alone or is a step of *)
(* ReservationStore: an error and the end of a process are its Abort.      *)
(***************************************************************************)
\* One step per action of the system.
LEMMA StepOfStore == OnTheWay /\ [Next]_vars => UNCHANGED store \/ Store!Next
<1> SUFFICES ASSUME OnTheWay, Next PROVE UNCHANGED store \/ Store!Next
  BY DEF vars
<1>1. ASSUME NEW c \in Procs \cup Handlers,
             Store!Advance(c) \/ Store!Abort(c) \/ Store!DeadlockVictim(c)
      PROVE  Store!Next
  BY <1>1 DEF Store!Next
<1>2. ASSUME NEW p \in Procs, Serve(p) \/ Disturb(p) \/ Pop(p) \/ WorkerRefuses(p)
      PROVE  UNCHANGED store
  BY <1>2 DEF Serve, Disturb, Pop, WorkerRefuses
<1>3. ASSUME NEW p \in Procs, WorkerFind(p)
      PROVE  Store!Next
  <2>1. inHand[p] \in Requests
    BY <1>3 DEF WorkerFind, OnTheWay
  <2> QED
    BY <1>3, <2>1 DEF WorkerFind, Store!Next
<1>4. ASSUME NEW p \in Procs,
             \/ WorkerProceeds(p) \/ WorkerCommits(p) \/ WorkerLoses(p)
             \/ WorkerErrs(p) \/ Crash(p)
      PROVE  UNCHANGED store \/ Store!Next
  BY <1>1, <1>4 DEF WorkerProceeds, WorkerCommits, WorkerLoses, WorkerErrs,
                    Crash, Store!Advance
<1>5. ASSUME NEW h \in Handlers, NEW r \in Requests,
             NEW op \in {"confirm", "cancel"}, SettleFind(h, r, op)
      PROVE  Store!Next
  BY <1>5 DEF SettleFind, Store!Next
<1>6. ASSUME NEW h \in Handlers, SettleProceeds(h) \/ SettleEnds(h) \/ SettleErrs(h)
      PROVE  Store!Next
  BY <1>1, <1>6 DEF SettleProceeds, SettleEnds, SettleErrs, Store!Advance
<1>7. ASSUME NEW h \in Handlers, NEW s \in Seats, Unhold(h, s) \/ UnholdFails(h, s)
      PROVE  UNCHANGED store
  BY <1>7 DEF Unhold, UnholdFails
<1>8. ASSUME NEW s \in Seats,
             \/ Expire(s) \/ WarmRead(s)
             \/ \E status \in Intake!CacheStates : WarmSet(s, status)
      PROVE  UNCHANGED store
  BY <1>8 DEF Expire, WarmRead, WarmSet
<1>9. ASSUME NEW p \in Performances, DeletePerformance(p)
      PROVE  Store!Next
  BY <1>9 DEF DeletePerformance, Store!Next
<1> QED
  BY <1>2, <1>3, <1>4, <1>5, <1>6, <1>7, <1>8, <1>9 DEF Next, Work

-----------------------------------------------------------------------------
(***************************************************************************)
(* So what is proved about the tables alone holds of the tables within the *)
(* system.  StoreProofs names the operators of ReservationStore once more; *)
(* the lemmas say that they are the same.                                  *)
(***************************************************************************)
StoreProofs == INSTANCE ReservationStoreProofs
    WITH Reservations <- Requests, Conns <- Procs \cup Handlers, NoRes <- NoReq

\* Waiting is the same under both names.
LEMMA SameWaits ==
    ASSUME NEW c
    PROVE  Store!WaitsFor(c) = StoreProofs!WaitsFor(c)
BY DEF Store!WaitsFor, StoreProofs!WaitsFor, Store!WantsSeat,
    StoreProofs!WantsSeat, Store!WantsRow, StoreProofs!WantsRow,
    Store!HoldsSeat, StoreProofs!HoldsSeat, Store!HoldsRow,
    StoreProofs!HoldsRow, Store!SeatIn, StoreProofs!SeatIn, Store!SeatFirst,
    StoreProofs!SeatFirst, Store!Persists, StoreProofs!Persists, Store!Settles,
    StoreProofs!Settles

\* So is a step of the tables.
LEMMA SameStep == Store!Next => StoreProofs!Next
BY SameWaits DEF Store!Next, StoreProofs!Next, Store!Advance,
    StoreProofs!Advance, Store!PersistFind, StoreProofs!PersistFind,
    Store!PersistUpdate, StoreProofs!PersistUpdate, Store!PersistCollide,
    StoreProofs!PersistCollide, Store!PersistCreate, StoreProofs!PersistCreate,
    Store!PersistDuplicate, StoreProofs!PersistDuplicate, Store!PersistCommit,
    StoreProofs!PersistCommit, Store!SettleFind, StoreProofs!SettleFind,
    Store!SettleFirst, StoreProofs!SettleFirst, Store!SettleSecond,
    StoreProofs!SettleSecond, Store!SettleCommit, StoreProofs!SettleCommit,
    Store!Abort, StoreProofs!Abort, Store!DeadlockVictim,
    StoreProofs!DeadlockVictim, Store!DeletePerformance,
    StoreProofs!DeletePerformance, Store!MaySettle, StoreProofs!MaySettle,
    Store!StillFree, StoreProofs!StillFree, Store!Insertable,
    StoreProofs!Insertable, Store!Ready, StoreProofs!Ready, Store!Deadlocked,
    StoreProofs!Deadlocked, Store!WantsSeat, StoreProofs!WantsSeat,
    Store!WantsRow, StoreProofs!WantsRow, Store!HoldsSeat,
    StoreProofs!HoldsSeat, Store!HoldsRow, StoreProofs!HoldsRow, Store!SeatIn,
    StoreProofs!SeatIn, Store!RowsOn, StoreProofs!RowsOn, Store!SeatFirst,
    StoreProofs!SeatFirst, Store!Persists, StoreProofs!Persists, Store!Settles,
    StoreProofs!Settles, Store!Idle, StoreProofs!Idle, Store!SeatOutcome,
    StoreProofs!SeatOutcome, Store!RowOutcome, StoreProofs!RowOutcome

\* The inductive invariant of the tables, and what is on its way.
LEMMA TablesHold == Spec => [](OnTheWay /\ StoreProofs!IInv)
<1> USE DEF StoreProofs!PerformanceAssumption, StoreProofs!SeatAssumption,
            StoreProofs!NoResAssumption
<1>1. Init => StoreProofs!IInv
  BY StoreProofs!InitInv
     DEF Init, Store!Init, StoreProofs!Init, Store!Idle, StoreProofs!Idle
<1>2. OnTheWay /\ StoreProofs!IInv /\ [Next]_vars => StoreProofs!IInv'
  <2>1. UNCHANGED store => UNCHANGED StoreProofs!vars
    BY DEF store, StoreProofs!vars
  <2> QED
    BY <2>1, StepOfStore, SameStep, StoreProofs!StepInv
<1> QED
  BY <1>1, <1>2, InitOnTheWay, StepOnTheWay, PTL DEF Spec

\* Processes that die, workers that drop items, caches that lie: the two
\* tables agree in every state of the whole system.
THEOREM TablesAgreeThroughout == Spec => []Store!SeatMatchesReservation
<1>1. StoreProofs!IInv => Store!SeatMatchesReservation
  BY DEF StoreProofs!IInv, StoreProofs!SeatMatchesReservation, StoreProofs!RowsOn,
         StoreProofs!SeatStatusFor, Store!SeatMatchesReservation, Store!RowsOn,
         Store!SeatStatusFor
<1> QED
  BY <1>1, TablesHold, PTL

\* A step of the system is a step of the tables, or leaves them alone.
LEMMA StepOfTables ==
    /\ OnTheWay /\ [Next]_vars => [StoreProofs!Next]_(StoreProofs!vars)
    /\ Init => StoreProofs!Init
<1>1. UNCHANGED store => UNCHANGED StoreProofs!vars
  BY DEF store, StoreProofs!vars
<1>2. Init => StoreProofs!Init
  BY DEF Init, Store!Init, StoreProofs!Init, Store!Idle, StoreProofs!Idle
<1> QED
  BY <1>1, <1>2, StepOfStore, SameStep

\* Processes that die and items that are dropped, queued twice or lost: a seat
\* goes to one reservation in its life, and the whole system implements the
\* ledger.
THEOREM SystemKeepsLedger == Spec => StoreProofs!ImplementsLedger
<1> USE DEF StoreProofs!PerformanceAssumption, StoreProofs!SeatAssumption,
            StoreProofs!NoResAssumption
<1>1. Init => StoreProofs!Ledger!Init
  BY StepOfTables, StoreProofs!LedgerInit
<1>2. OnTheWay /\ StoreProofs!IInv /\ [Next]_vars
      => [StoreProofs!Ledger!Next]_(StoreProofs!Ledger!vars)
  BY StepOfTables, StoreProofs!LedgerStep
<1> QED
  BY <1>1, <1>2, TablesHold, PTL
     DEF Spec, StoreProofs!ImplementsLedger, StoreProofs!Ledger!Spec

\* No process brings back a reservation that was confirmed or cancelled.
THEOREM NothingPendingAgain == Spec => StoreProofs!SettledStaysSettled
<1> USE DEF StoreProofs!PerformanceAssumption, StoreProofs!SeatAssumption,
            StoreProofs!NoResAssumption
<1>1. OnTheWay /\ StoreProofs!IInv /\ [Next]_vars
      => [StoreProofs!Kept]_(StoreProofs!vars)
  BY StepOfTables, StoreProofs!StepKeeps
<1> QED
  BY <1>1, TablesHold, PTL DEF Spec, StoreProofs!SettledStaysSettled, StoreProofs!Kept

\* Workers, confirmations and cancellations of the whole system wait on each
\* other in a cycle only when a worker inserts a row for a cancelled seat.
THEOREM DeadlocksExplainedThroughout == Spec => []StoreProofs!DeadlocksNeedAFreedSeat
<1> USE DEF StoreProofs!PerformanceAssumption, StoreProofs!SeatAssumption,
            StoreProofs!NoResAssumption
<1> QED
  BY StoreProofs!CyclesNeedAFreedSeat, TablesHold, PTL

-----------------------------------------------------------------------------
(***************************************************************************)
(* Why an item is dropped.  Without an error a worker gives up an item     *)
(* only when it finds its seat taken, finds that it was taken since, or    *)
(* loses a deadlock; a deadlock needs a transaction that settles a         *)
(* reservation of the same seat, and a version that moved needs one too.   *)
(***************************************************************************)
Taken(s) == seatStatus[s] = "GONE" \/ \E r \in Requests : SeatOf[r] = s /\ HasRow(r)

\* What the invariant of the tables says, in the terms of this module.
TablesInOrder ==
    /\ Store!TypeOK
    /\ \A s \in Seats : seatStatus[s] # "AVAILABLE" => Taken(s)
    /\ \A c \in Procs \cup Handlers :
          /\ tx[c].op = "none" <=> tx[c] = Store!Idle
          /\ tx[c].op = "persist" =>
                /\ tx[c].at \in {"update", "create", "commit"}
                /\ tx[c].res \in Requests
                /\ tx[c].ver <= seatVersion[SeatOf[tx[c].res]]
          /\ tx[c].op \in {"confirm", "cancel"} =>
                /\ tx[c].at \in {"first", "second", "commit"}
                /\ tx[c].res \in Requests /\ HasRow(tx[c].res)

\* It does say so.
LEMMA InOrder == StoreProofs!IInv => TablesInOrder
BY DEF StoreProofs!IInv, StoreProofs!TypeOK, StoreProofs!SeatStates,
       StoreProofs!RowStates, StoreProofs!Transaction, StoreProofs!TxWellFormed,
       StoreProofs!SeatMatchesReservation, StoreProofs!RowsOn, StoreProofs!Persists,
       StoreProofs!Settles, StoreProofs!SeatIn, StoreProofs!Idle, Store!TypeOK,
       Store!SeatStates, Store!RowStates, Store!Transaction, Store!Idle,
       TablesInOrder, Taken, HasRow

\* A worker's transaction is for the item in hand.
WorksOnHand ==
    \A p \in Procs : tx[p] # Store!Idle =>
        tx[p].op = "persist" /\ tx[p].res = inHand[p] /\ inHand[p] \in Requests

\* A seat whose version moved was taken.
VersionSpent == \A s \in Seats : seatVersion[s] # 0 => Taken(s)

\* The items that were dropped and whose seat nobody has: an error for each.
InVain == {r \in dropped : ~Taken(SeatOf[r])}
DropInv ==
    /\ WorksOnHand
    /\ VersionSpent
    /\ faults \in Nat
    /\ dropped \subseteq Requests
    /\ IsFiniteSet(InVain)
    /\ Cardinality(InVain) <= faults

\* What is taken stays taken, and a version moves only with a row.
LEMMA TakenStays ==
    ASSUME TablesInOrder, VersionSpent, UNCHANGED store \/ Store!Next
    PROVE  /\ \A s \in Seats : Taken(s) => Taken(s)'
           /\ VersionSpent'
<1> USE DEF TablesInOrder, VersionSpent, Taken, HasRow
<1>1. ASSUME NEW c \in Procs \cup Handlers, Store!PersistCommit(c) \/ Store!SettleCommit(c)
      PROVE  /\ \A s \in Seats : Taken(s) => Taken(s)'
             /\ VersionSpent'
  <2>1. PICK r \in Requests, s \in Seats, status \in {"HELD", "OCCUPIED", "AVAILABLE"},
               row \in {"PENDING", "CONFIRMED", "CANCELLED"} :
           /\ s = SeatOf[r]
           /\ seatStatus' = [seatStatus EXCEPT ![s] = status]
           /\ seatVersion' = [seatVersion EXCEPT ![s] = @ + 1]
           /\ resStatus' = [resStatus EXCEPT ![r] = row]
    BY <1>1 DEF Store!PersistCommit, Store!SettleCommit, Store!Persists, Store!Settles,
                Store!SeatIn, Store!SeatOutcome, Store!RowOutcome
  <2>2. \A t \in Seats : Taken(t) => Taken(t)'
    BY <2>1 DEF Store!TypeOK
  <2>3. Taken(s)'
    BY <2>1 DEF Store!TypeOK
  <2> QED
    BY <2>1, <2>2, <2>3 DEF Store!TypeOK
<1>2. ASSUME UNCHANGED <<seatVersion, resStatus>>,
             \A s \in Seats : seatStatus'[s] \in {seatStatus[s], "GONE"}
      PROVE  /\ \A s \in Seats : Taken(s) => Taken(s)'
             /\ VersionSpent'
  BY <1>2
<1>3. ASSUME NEW p \in Performances, Store!DeletePerformance(p)
      PROVE  \A s \in Seats : seatStatus'[s] \in {seatStatus[s], "GONE"}
  BY <1>3 DEF Store!DeletePerformance
<1>4. CASE UNCHANGED <<seatStatus, seatVersion, resStatus>>
  BY <1>2, <1>4
<1> QED
  BY <1>1, <1>2, <1>3, <1>4
     DEF Store!Next, Store!Advance, Store!PersistFind, Store!SettleFind,
         Store!PersistUpdate, Store!PersistCollide, Store!PersistCreate,
         Store!PersistDuplicate, Store!SettleFirst, Store!SettleSecond,
         Store!Abort, Store!DeadlockVictim, Store!DeletePerformance, store

\* A worker that loses its seat loses it to somebody who has it.
LEMMA LosesToSomebody ==
    ASSUME TablesInOrder, WorksOnHand, VersionSpent, NEW p \in Procs, WorkerLoses(p)
    PROVE  inHand[p] \in Requests /\ Taken(SeatOf[inHand[p]])
<1> USE DEF Store!Persists, Store!Settles, Store!SeatIn
<1>1. CASE Store!PersistCollide(p)
  <2>1. /\ tx[p].op = "persist" /\ tx[p].res = inHand[p] /\ inHand[p] \in Requests
        /\ ~Store!StillFree(p)
    BY <1>1 DEF Store!PersistCollide, WorksOnHand, Store!Idle
  <2>2. \/ seatStatus[SeatOf[inHand[p]]] # "AVAILABLE"
        \/ seatVersion[SeatOf[inHand[p]]] # tx[p].ver
    BY <2>1 DEF Store!StillFree
  <2>3. seatVersion[SeatOf[inHand[p]]] # tx[p].ver => seatVersion[SeatOf[inHand[p]]] # 0
    BY <2>1 DEF TablesInOrder, Store!TypeOK, Store!Transaction
  <2> QED
    BY <2>1, <2>2, <2>3 DEF TablesInOrder, VersionSpent
<1>2. CASE Store!PersistDuplicate(p)
  BY <1>2 DEF Store!PersistDuplicate, Store!Insertable, Store!RowsOn, WorksOnHand,
              Store!Idle, Taken, HasRow
<1>3. CASE Store!DeadlockVictim(p)
  <2>1. PICK D \in SUBSET (Procs \cup Handlers) : p \in D /\ Store!Deadlocked(D)
    BY <1>3 DEF Store!DeadlockVictim
  <2>2. \A c \in D : \E d \in D : d \in Store!WaitsFor(c)
    BY <2>1 DEF Store!Deadlocked
  <2>3. \A c \in D : tx[c].at # "commit"
    BY <2>2 DEF Store!WaitsFor, Store!WantsSeat, Store!WantsRow, Store!SeatFirst
  <2>4. ASSUME NEW c \in D, tx[c].op = "persist", tx[c].at = "create"
        PROVE  Taken(SeatOf[tx[c].res])
    <3>1. PICK d \in D : d \in Store!WaitsFor(c)
      BY <2>2
    <3>2. Store!Settles(d) /\ SeatOf[tx[d].res] = SeatOf[tx[c].res]
      BY <2>4, <3>1 DEF Store!WaitsFor, Store!WantsSeat, Store!WantsRow, Store!HoldsRow
    <3> QED
      BY <2>1, <3>2 DEF TablesInOrder, Taken
  <2>5. tx[p].op = "persist" /\ tx[p].res = inHand[p] /\ inHand[p] \in Requests
    <3>1. tx[p] # Store!Idle
      BY <2>1, <2>2 DEF Store!WaitsFor, Store!WantsSeat, Store!WantsRow, Store!Idle
    <3> QED
      BY <3>1 DEF WorksOnHand
  <2>6. CASE tx[p].at = "update"
    <3>1. PICK d \in D : d \in Store!WaitsFor(p)
      BY <2>1, <2>2
    <3>2. Store!HoldsSeat(d) /\ SeatOf[tx[d].res] = SeatOf[tx[p].res]
      BY <2>5, <2>6, <3>1 DEF Store!WaitsFor, Store!WantsSeat, Store!WantsRow
    <3>3. tx[d].op = "persist" /\ tx[d].at = "create"
      BY <2>3, <3>2 DEF Store!HoldsSeat, Store!SeatFirst
    <3> QED
      BY <2>4, <2>5, <3>2, <3>3
  <2> QED
    BY <2>1, <2>3, <2>4, <2>5, <2>6 DEF TablesInOrder
<1> QED
  BY <1>1, <1>2, <1>3 DEF WorkerLoses

\* Errors are counted and never forgotten.
LEMMA FaultsGrow ==
    ASSUME [Next]_vars
    PROVE  faults' = faults \/ faults' = faults + 1
<1>1. ASSUME NEW p \in Procs, Serve(p)
      PROVE  UNCHANGED faults
  <2>1. ASSUME NEW r \in Requests, Intake!SlowStep(r)
        PROVE  UNCHANGED faults
    BY <2>1 DEF Intake!SlowStep, Intake!Acquire, Intake!LockBusy, Intake!ReadAvailable,
                Intake!ReadTaken, Intake!ReadNothing, Intake!Mark, Intake!Enqueue,
                Intake!Hold, Intake!Release
  <2>2. ASSUME NEW r \in Requests, Intake!Submit(r)
        PROVE  UNCHANGED faults
    BY <2>2 DEF Intake!Submit, Intake!SendBatch
  <2> QED
    BY <1>1, <2>1, <2>2 DEF Serve, Intake!Serve, Intake!Flush, Intake!SendBatch,
                            Intake!RunCommand, Intake!HandleScripts, Intake!HandlePushes
<1>2. ASSUME NEW p \in Procs, Disturb(p) \/ WorkerErrs(p) \/ Crash(p)
      PROVE  faults' = faults + 1
  BY <1>2 DEF Disturb, Intake!Disturb, Intake!CommandFails, Intake!ExecRejected,
              Intake!AcquireFault, Intake!SlowFault, Intake!SlowResend,
              Intake!ReleaseFault, WorkerErrs, Crash, Intake!Crash, Intake!Fault
<1>3. ASSUME NEW p \in Procs, Work(p)
      PROVE  UNCHANGED faults
  BY <1>3 DEF Work, Pop, WorkerFind, WorkerProceeds, WorkerCommits, WorkerRefuses,
              WorkerLoses, intake
<1>4. ASSUME NEW h \in Handlers,
             \/ \E r \in Requests, op \in {"confirm", "cancel"} : SettleFind(h, r, op)
             \/ SettleProceeds(h) \/ SettleEnds(h)
             \/ \E s \in Seats : Unhold(h, s)
      PROVE  UNCHANGED faults
  BY <1>4 DEF SettleFind, SettleProceeds, SettleEnds, Unhold, intake
<1>5. ASSUME NEW h \in Handlers, SettleErrs(h) \/ \E s \in Seats : UnholdFails(h, s)
      PROVE  faults' = faults + 1
  BY <1>5 DEF SettleErrs, UnholdFails, Intake!Fault
<1>6. ASSUME NEW s \in Seats,
             \/ Expire(s) \/ WarmRead(s)
             \/ \E status \in Intake!CacheStates : WarmSet(s, status)
      PROVE  faults' = faults \/ faults' = faults + 1
  BY <1>6 DEF Expire, Intake!Expire, Intake!KeyExpire, Intake!LockExpire, WarmRead,
              WarmSet, Intake!Fault, intake
<1>7. ASSUME NEW p \in Performances, DeletePerformance(p)
      PROVE  UNCHANGED faults
  BY <1>7 DEF DeletePerformance, intake
<1>8. CASE UNCHANGED vars
  BY <1>8 DEF vars, intake
<1> QED
  BY <1>1, <1>2, <1>3, <1>4, <1>5, <1>6, <1>7, <1>8 DEF Next

\* The worker of p changes its hand only between transactions, and nobody else
\* touches its connection.
LEMMA HandStep ==
    ASSUME OnTheWay, TablesInOrder, WorksOnHand, [Next]_vars
    PROVE  WorksOnHand'
<1> USE DEF WorksOnHand, Store!Idle
<1>1. ASSUME UNCHANGED <<inHand, tx>>
      PROVE  WorksOnHand'
  BY <1>1
<1>2. ASSUME NEW p \in Procs, Serve(p) \/ Disturb(p)
      PROVE  WorksOnHand'
  BY <1>1, <1>2 DEF Serve, Disturb, store, work
<1>3. ASSUME NEW p \in Procs, Pop(p)
      PROVE  WorksOnHand'
  BY <1>3 DEF Pop, store, OnTheWay
<1>4. ASSUME NEW p \in Procs, WorkerFind(p)
      PROVE  WorksOnHand'
  BY <1>4 DEF WorkerFind, Store!PersistFind, work, OnTheWay, TablesInOrder, Store!TypeOK
<1>5. ASSUME NEW p \in Procs, WorkerProceeds(p)
      PROVE  WorksOnHand'
  BY <1>5 DEF WorkerProceeds, Store!PersistUpdate, Store!PersistCreate,
              Store!Persists, work, TablesInOrder, Store!TypeOK, Store!Transaction
<1>6. ASSUME NEW p \in Procs,
             /\ tx' = [tx EXCEPT ![p] = Store!Idle]
             /\ UNCHANGED inHand \/ inHand' = [inHand EXCEPT ![p] = NoReq]
      PROVE  WorksOnHand'
  BY <1>6 DEF OnTheWay, TablesInOrder, Store!TypeOK
<1>7. ASSUME NEW p \in Procs, WorkerCommits(p) \/ WorkerLoses(p)
      PROVE  WorksOnHand'
  BY <1>6, <1>7 DEF WorkerCommits, WorkerLoses, GivesUp, Store!PersistCommit,
                    Store!PersistCollide, Store!PersistDuplicate, Store!DeadlockVictim
<1>8. ASSUME NEW p \in Procs, UNCHANGED tx, tx[p] = Store!Idle,
             UNCHANGED inHand \/ inHand' = [inHand EXCEPT ![p] = NoReq]
      PROVE  WorksOnHand'
  BY <1>8 DEF OnTheWay
<1>9. ASSUME NEW p \in Procs, WorkerRefuses(p) \/ WorkerErrs(p) \/ Crash(p)
      PROVE  WorksOnHand'
  BY <1>6, <1>8, <1>9 DEF WorkerRefuses, WorkerErrs, Crash, GivesUp, Store!Abort,
                          store, work
<1>10. ASSUME NEW h \in Handlers, UNCHANGED inHand, NEW t,
              tx' = tx \/ tx' = [tx EXCEPT ![h] = t] \/ tx' = [tx EXCEPT ![h].at = t]
       PROVE  WorksOnHand'
  BY <1>10 DEF TablesInOrder, Store!TypeOK
<1>11. ASSUME NEW h \in Handlers, NEW r \in Requests, NEW op \in {"confirm", "cancel"},
              SettleFind(h, r, op)
       PROVE  WorksOnHand'
  BY <1>10, <1>11 DEF SettleFind, Store!SettleFind, work
<1>12. ASSUME NEW h \in Handlers, SettleProceeds(h) \/ SettleEnds(h) \/ SettleErrs(h)
       PROVE  WorksOnHand'
  BY <1>10, <1>12 DEF SettleProceeds, SettleEnds, SettleErrs, Store!SettleFirst,
                      Store!SettleSecond, Store!SettleCommit, Store!DeadlockVictim,
                      Store!Abort, work
<1>13. ASSUME NEW h \in Handlers, NEW s \in Seats, Unhold(h, s) \/ UnholdFails(h, s)
       PROVE  WorksOnHand'
  BY <1>1, <1>13 DEF Unhold, UnholdFails, store, work
<1>14. ASSUME NEW s \in Seats,
              \/ Expire(s) \/ WarmRead(s)
              \/ \E status \in Intake!CacheStates : WarmSet(s, status)
       PROVE  WorksOnHand'
  BY <1>1, <1>14 DEF Expire, WarmRead, WarmSet, store, work
<1>15. ASSUME NEW p \in Performances, DeletePerformance(p)
       PROVE  WorksOnHand'
  BY <1>1, <1>15 DEF DeletePerformance, Store!DeletePerformance, work
<1>16. CASE UNCHANGED vars
  BY <1>1, <1>16 DEF vars, store, work
<1> QED
  BY <1>2, <1>3, <1>4, <1>5, <1>7, <1>9, <1>11, <1>12, <1>13, <1>14, <1>15, <1>16
     DEF Next, Work

\* An item is dropped for an error, or for a seat that is taken.
LEMMA DropStep ==
    ASSUME OnTheWay, TablesInOrder, DropInv, [Next]_vars
    PROVE  \/ UNCHANGED dropped
           \/ \E r \in Requests : /\ dropped' = dropped \cup {r}
                                  /\ faults' = faults + 1 \/ Taken(SeatOf[r])
<1>1. ASSUME NEW p \in Procs, Serve(p) \/ Disturb(p)
      PROVE  UNCHANGED dropped
  BY <1>1 DEF Serve, Disturb, work
<1>2. ASSUME NEW p \in Procs, Pop(p) \/ WorkerFind(p) \/ WorkerProceeds(p) \/ WorkerCommits(p)
      PROVE  UNCHANGED dropped
  BY <1>2 DEF Pop, WorkerFind, WorkerProceeds, WorkerCommits, work
<1>3. ASSUME NEW p \in Procs, WorkerRefuses(p)
      PROVE  \E r \in Requests : dropped' = dropped \cup {r} /\ Taken(SeatOf[r])
  <2>1. inHand[p] \in Requests
    BY <1>3 DEF WorkerRefuses, OnTheWay
  <2> QED
    BY <1>3, <2>1 DEF WorkerRefuses, GivesUp, TablesInOrder
<1>4. ASSUME NEW p \in Procs, WorkerLoses(p)
      PROVE  \E r \in Requests : dropped' = dropped \cup {r} /\ Taken(SeatOf[r])
  BY <1>4, LosesToSomebody DEF WorkerLoses, GivesUp, DropInv
<1>5. ASSUME NEW p \in Procs, WorkerErrs(p) \/ Crash(p)
      PROVE  \/ UNCHANGED dropped
             \/ \E r \in Requests : dropped' = dropped \cup {r} /\ faults' = faults + 1
  BY <1>5 DEF WorkerErrs, Crash, Intake!Crash, Intake!Fault, GivesUp, work, OnTheWay
<1>6. ASSUME NEW h \in Handlers,
             \/ \E r \in Requests, op \in {"confirm", "cancel"} : SettleFind(h, r, op)
             \/ SettleProceeds(h) \/ SettleEnds(h) \/ SettleErrs(h)
             \/ \E s \in Seats : Unhold(h, s) \/ UnholdFails(h, s)
      PROVE  UNCHANGED dropped
  BY <1>6 DEF SettleFind, SettleProceeds, SettleEnds, SettleErrs, Unhold,
              UnholdFails, work
<1>7. ASSUME NEW s \in Seats,
             \/ Expire(s) \/ WarmRead(s)
             \/ \E status \in Intake!CacheStates : WarmSet(s, status)
      PROVE  UNCHANGED dropped
  BY <1>7 DEF Expire, WarmRead, WarmSet, work
<1>8. ASSUME NEW p \in Performances, DeletePerformance(p)
      PROVE  UNCHANGED dropped
  BY <1>8 DEF DeletePerformance, work
<1>9. CASE UNCHANGED vars
  BY <1>9 DEF vars, work
<1> QED
  BY <1>1, <1>2, <1>3, <1>4, <1>5, <1>6, <1>7, <1>8, <1>9 DEF Next, Work

\* So one more item is dropped in vain only with one more error.
LEMMA InVainStep ==
    ASSUME OnTheWay, TablesInOrder, DropInv, [Next]_vars
    PROVE  IsFiniteSet(InVain)' /\ Cardinality(InVain') <= faults'
<1>1. \A s \in Seats : Taken(s) => Taken(s)'
  BY TakenStays, StepOfStore DEF DropInv
<1>2. /\ IsFiniteSet(InVain) /\ Cardinality(InVain) \in Nat
      /\ Cardinality(InVain) <= faults /\ faults \in Nat
      /\ faults' = faults \/ faults' = faults + 1
  BY FaultsGrow, FS_CardinalityType DEF DropInv
<1>3. CASE InVain' \subseteq InVain
  <2>1. IsFiniteSet(InVain') /\ Cardinality(InVain') <= Cardinality(InVain)
    BY <1>2, <1>3, FS_Subset
  <2>2. Cardinality(InVain') \in Nat
    BY <2>1, FS_CardinalityType
  <2> QED
    BY <1>2, <2>1, <2>2
<1>4. ASSUME NEW r \in Requests, InVain' \subseteq InVain \cup {r}, faults' = faults + 1
      PROVE  IsFiniteSet(InVain') /\ Cardinality(InVain') <= faults'
  <2> DEFINE more == InVain \cup {r}
  <2>1. /\ IsFiniteSet(more) /\ Cardinality(more) \in Nat
        /\ Cardinality(more) <= Cardinality(InVain) + 1
    BY <1>2, FS_AddElement
  <2> HIDE DEF more
  <2>2. IsFiniteSet(InVain') /\ Cardinality(InVain') <= Cardinality(more)
    BY <1>4, <2>1, FS_Subset DEF more
  <2>3. Cardinality(InVain') \in Nat
    BY <2>2, FS_CardinalityType
  <2> QED
    BY <1>2, <1>4, <2>1, <2>2, <2>3
<1>5. \/ InVain' \subseteq InVain
      \/ \E r \in Requests : InVain' \subseteq InVain \cup {r} /\ faults' = faults + 1
  <2>1. CASE UNCHANGED dropped
    BY <1>1, <2>1 DEF InVain, DropInv
  <2>2. ASSUME NEW r \in Requests, dropped' = dropped \cup {r},
               faults' = faults + 1 \/ Taken(SeatOf[r])
        PROVE  \/ InVain' \subseteq InVain
               \/ InVain' \subseteq InVain \cup {r} /\ faults' = faults + 1
    <3>1. InVain' \subseteq InVain \cup {r}
      BY <1>1, <2>2 DEF InVain, DropInv
    <3>2. Taken(SeatOf[r]) => r \notin InVain'
      BY <1>1 DEF InVain
    <3> QED
      BY <2>2, <3>1, <3>2
  <2> QED
    BY <2>1, <2>2, DropStep
<1> QED
  BY <1>3, <1>4, <1>5

\* Nothing the system does breaks the invariant.
LEMMA DropsHold == Spec => []DropInv
<1>1. Init => DropInv
  <2> SUFFICES ASSUME Init PROVE DropInv
    OBVIOUS
  <2>1. InVain = {}
    BY DEF Init, InVain
  <2> QED
    BY <2>1, FS_EmptySet DEF Init, Intake!Init, Store!Init, DropInv, WorksOnHand,
                             VersionSpent
<1>2. /\ OnTheWay /\ StoreProofs!IInv /\ DropInv /\ [Next]_vars
      => DropInv'
  <2> SUFFICES ASSUME OnTheWay, StoreProofs!IInv, DropInv, [Next]_vars
               PROVE  DropInv'
    OBVIOUS
  <2>1. TablesInOrder
    BY InOrder
  <2>2. WorksOnHand'
    BY <2>1, HandStep DEF DropInv
  <2>3. VersionSpent'
    BY <2>1, TakenStays, StepOfStore DEF DropInv
  <2>4. faults' \in Nat
    BY FaultsGrow DEF DropInv
  <2>5. dropped' \subseteq Requests
    BY <2>1, DropStep DEF DropInv
  <2> QED
    BY <2>1, <2>2, <2>3, <2>4, <2>5, InVainStep DEF DropInv
<1> QED
  BY <1>1, <1>2, TablesHold, PTL DEF Spec

\* Without an error an item is dropped only if somebody has its seat or the
\* seat is gone.
LEMMA DroppedForACause ==
    ASSUME DropInv, faults = 0, NEW r \in dropped
    PROVE  r \in Requests /\ Taken(SeatOf[r])
<1>1. IsFiniteSet(InVain) /\ Cardinality(InVain) \in Nat
  BY FS_CardinalityType DEF DropInv
<1>2. InVain = {}
  BY <1>1, FS_EmptySet DEF DropInv
<1> QED
  BY <1>2 DEF InVain, DropInv

-----------------------------------------------------------------------------
(***************************************************************************)
(* The Redlock.  While its key does not time out, whoever is past its      *)
(* acquisition and not yet at its release holds it.                        *)
(***************************************************************************)
HoldsLock ==
    /\ phase \in [Requests -> Intake!Phases]
    /\ lock \in [Seats -> Requests \cup {NoReq}]
    /\ \A r \in Requests : phase[r] \in Intake!Protected => lock[SeatOf[r]] = r

\* Whoever does not enter changes nothing as long as the lock stays.
LEMMA OutsidersKeepLock ==
    ASSUME HoldsLock, UNCHANGED lock, phase' \in [Requests -> Intake!Phases],
           \A r \in Requests : phase'[r] \in Intake!Protected => phase[r] \in Intake!Protected
    PROVE  HoldsLock'
BY DEF HoldsLock

\* Only an acquisition lets a request in, and only if nobody is inside.
LEMMA IntakeHoldsLock ==
    ASSUME HoldsLock, NEW p \in Procs, Intake!Serve(p) \/ Intake!Disturb(p)
    PROVE  HoldsLock'
<1> USE DEF Intake!Phases, Intake!Protected
<1>1. ASSUME NEW q \in Procs, NEW batch, Intake!SendBatch(q, batch)
      PROVE  HoldsLock'
  BY <1>1, OutsidersKeepLock DEF Intake!SendBatch, Intake!Moved, Intake!redis, HoldsLock
<1>2. ASSUME NEW r \in Requests, Intake!Submit(r)
      PROVE  HoldsLock'
  BY <1>1, <1>2, OutsidersKeepLock DEF Intake!Submit, Intake!redis, HoldsLock
<1>3. CASE Intake!Flush(p)
  BY <1>1, <1>3 DEF Intake!Flush
<1>4. CASE Intake!RunCommand(p) \/ Intake!CommandFails(p)
  BY <1>4, OutsidersKeepLock
     DEF Intake!RunCommand, Intake!CommandFails, Intake!Answered, Intake!Execute,
         Intake!redis, Intake!local, HoldsLock
<1>5. CASE Intake!HandleScripts(p)
  <2>1. \A r \in Requests : phase'[r] \in {"lock", "done", phase[r]}
    BY <1>5 DEF Intake!HandleScripts
  <2> QED
    BY <1>5, <2>1, OutsidersKeepLock DEF Intake!HandleScripts, Intake!redis, HoldsLock
<1>6. CASE Intake!HandlePushes(p) \/ Intake!ExecRejected(p)
  BY <1>6, OutsidersKeepLock
     DEF Intake!HandlePushes, Intake!ExecRejected, Intake!Moved, Intake!redis, HoldsLock
<1>7. ASSUME NEW r \in Requests, Intake!Acquire(r)
      PROVE  HoldsLock'
  BY <1>7 DEF Intake!Acquire, Intake!LockFree, HoldsLock
<1>8. ASSUME NEW r \in Requests,
             \/ Intake!LockBusy(r) \/ Intake!ReadAvailable(r) \/ Intake!ReadTaken(r)
             \/ Intake!ReadNothing(r)
      PROVE  HoldsLock'
  BY <1>8, OutsidersKeepLock
     DEF Intake!LockBusy, Intake!ReadAvailable, Intake!ReadTaken,
         Intake!ReadNothing, Intake!Leaves, Intake!redis, HoldsLock
<1>9. ASSUME NEW r \in Requests,
             Intake!Mark(r) \/ Intake!Enqueue(r) \/ Intake!Hold(r) \/ Intake!SlowFault(r)
      PROVE  HoldsLock'
  BY <1>9, OutsidersKeepLock
     DEF Intake!Mark, Intake!Enqueue, Intake!Hold, Intake!SlowFault,
         Intake!TakesEffect, Intake!Leaves, Intake!redis, HoldsLock
<1>10. ASSUME NEW r \in Requests,
              \/ Intake!Release(r) \/ Intake!ReleaseFault(r) \/ Intake!SlowResend(r)
       PROVE  HoldsLock'
  BY <1>10 DEF Intake!Release, Intake!ReleaseFault, Intake!SlowResend,
               Intake!TakesEffect, Intake!FreeLock, Intake!Finish, Intake!local, HoldsLock
<1>11. ASSUME NEW r \in Requests, Intake!AcquireFault(r)
       PROVE  HoldsLock'
  BY <1>11 DEF Intake!AcquireFault, Intake!LockFree, HoldsLock
<1> QED
  BY <1>2, <1>3, <1>4, <1>5, <1>6, <1>7, <1>8, <1>9, <1>10, <1>11
     DEF Intake!Serve, Intake!Disturb, Intake!SlowStep

\* One request at a time is in the slow path of a seat, across all processes
\* and whatever fails, unless the lock's ten seconds run out under it.
THEOREM OneInSlowPath ==
    ASSUME "lock" \notin Expiring
    PROVE  Spec => []SlowPathExclusive
<1>1. Init => HoldsLock
  BY DEF Init, Intake!Init, Intake!Phases, Intake!Protected, HoldsLock
<1>2. HoldsLock /\ [Next]_vars => HoldsLock'
  <2> SUFFICES ASSUME HoldsLock, [Next]_vars PROVE HoldsLock'
    OBVIOUS
  <2>1. ASSUME NEW p \in Procs, Serve(p) \/ Disturb(p)
        PROVE  HoldsLock'
    BY <2>1, IntakeHoldsLock DEF Serve, Disturb
  <2>2. ASSUME UNCHANGED <<lock, phase>>
        PROVE  HoldsLock'
    BY <2>2 DEF HoldsLock
  <2>3. ASSUME NEW p \in Procs, Work(p) \/ WorkerErrs(p)
        PROVE  HoldsLock'
    BY <2>2, <2>3
       DEF Work, Pop, WorkerFind, WorkerProceeds, WorkerCommits, WorkerRefuses,
           WorkerLoses, WorkerErrs, intake
  <2>4. ASSUME NEW p \in Procs, Crash(p)
        PROVE  HoldsLock'
    BY <2>4, OutsidersKeepLock
       DEF Crash, Intake!Crash, Intake!Moved, Intake!redis, Intake!Phases,
           Intake!Protected, HoldsLock
  <2>5. ASSUME NEW h \in Handlers,
               \/ \E r \in Requests, op \in {"confirm", "cancel"} : SettleFind(h, r, op)
               \/ SettleProceeds(h) \/ SettleEnds(h) \/ SettleErrs(h)
               \/ \E s \in Seats : Unhold(h, s) \/ UnholdFails(h, s)
        PROVE  HoldsLock'
    BY <2>2, <2>5 DEF SettleFind, SettleProceeds, SettleEnds, SettleErrs, Unhold,
                      UnholdFails, intake
  <2>6. ASSUME NEW s \in Seats,
               \/ Expire(s) \/ WarmRead(s)
               \/ \E status \in Intake!CacheStates : WarmSet(s, status)
        PROVE  HoldsLock'
    BY <2>2, <2>6 DEF Expire, Intake!Expire, Intake!KeyExpire, Intake!LockExpire,
                      Intake!local, WarmRead, WarmSet, intake
  <2>7. ASSUME NEW p \in Performances, DeletePerformance(p)
        PROVE  HoldsLock'
    BY <2>2, <2>7 DEF DeletePerformance, intake
  <2>8. CASE UNCHANGED vars
    BY <2>2, <2>8 DEF vars, intake
  <2> QED
    BY <2>1, <2>3, <2>4, <2>5, <2>6, <2>7, <2>8 DEF Next
<1>3. HoldsLock => SlowPathExclusive
  BY DEF HoldsLock, SlowPathExclusive, SameSeat
<1> QED
  BY <1>1, <1>2, <1>3, PTL DEF Spec

-----------------------------------------------------------------------------
(***************************************************************************)
(* One acceptance per seat.  From a cache that holds AVAILABLE for every   *)
(* seat, whose keys do not time out and that no cancellation overwrites,   *)
(* the Lua script makes at most one winner per seat.  A request stays a    *)
(* winner, or stops being one, until it is answered; only a script run on  *)
(* AVAILABLE makes a new one, and it leaves HELD behind.                   *)
(***************************************************************************)
Pushing(r) ==
    \E p \in Procs : \E k \in DOMAIN wire[p] :
        wire[p][k].kind = "push" /\ r \in Intake!Served(wire[p][k])

Winner(r) == saw[r] = "OK" \/ reply[r] = "accepted" \/ Pushing(r)

\* Nobody misses the cache, so nobody takes the slow path.
NoMisses ==
    /\ cache \in [Seats -> {"AVAILABLE", "HELD"}]
    /\ phase \in [Requests -> {"new", "buffered", "piped", "done"}]
    /\ saw \in [Requests -> {"none", "OK", "FAIL", "ERR"}]
    /\ reply \in [Requests -> {"none", "accepted", "rejected", "lost"}]

OneWinner ==
    /\ \A r \in Requests : Winner(r) => cache[SeatOf[r]] = "HELD"
    /\ \A q, r \in Requests : Winner(q) /\ Winner(r) /\ SeatOf[q] = SeatOf[r] => q = r

WarmInv == OnTheWay /\ NoMisses /\ OneWinner

\* As long as nobody new wins and the cache stays, there is one winner.
LEMMA NobodyNewWins ==
    ASSUME OneWinner, UNCHANGED cache, \A r \in Requests : Winner(r)' => Winner(r)
    PROVE  OneWinner'
BY DEF OneWinner

\* A batch of scripts adds no push.
LEMMA SendBatchNoWinner ==
    ASSUME WarmInv, NEW p \in Procs, NEW batch \in Seq(Requests),
           Intake!SendBatch(p, batch)
    PROVE  NoMisses' /\ OneWinner'
<1>1. NoMisses'
  BY DEF WarmInv, NoMisses, Intake!SendBatch, Intake!Moved, Intake!redis
<1>2. ASSUME NEW r \in Requests, Pushing(r)'
      PROVE  Pushing(r)
  <2>1. PICK q \in Procs : \E k \in DOMAIN wire'[q] :
           wire'[q][k].kind = "push" /\ r \in Intake!Served(wire'[q][k])
    BY <1>2 DEF Pushing, Intake!Served
  <2>2. wire[p] \in Seq(Piped) /\ wire'[p] = Append(wire[p], Intake!ScriptsFor(batch))
    BY DEF Intake!SendBatch, WarmInv, OnTheWay
  <2>3. CASE q # p
    <3>1. wire'[q] = wire[q]
      BY <2>3 DEF Intake!SendBatch, WarmInv, OnTheWay
    <3> QED
      BY <2>1, <3>1 DEF Pushing
  <2>4. CASE q = p
    <3>1. Intake!ScriptsFor(batch).kind = "script"
      BY DEF Intake!ScriptsFor
    <3>2. \A k \in DOMAIN wire'[p] :
             \/ k \in DOMAIN wire[p] /\ wire'[p][k] = wire[p][k]
             \/ wire'[p][k] = Intake!ScriptsFor(batch)
      BY <2>2
    <3> QED
      BY <2>1, <2>4, <3>1, <3>2 DEF Pushing
  <2> QED
    BY <2>3, <2>4
<1>3. \A r \in Requests : Winner(r)' => Winner(r)
  BY <1>2 DEF Winner, Intake!SendBatch
<1> QED
  BY <1>1, <1>3, NobodyNewWins DEF WarmInv, Intake!SendBatch, Intake!redis

\* An answer neither adds nor removes a push.
LEMMA AnsweredNoPush ==
    ASSUME OnTheWay, NEW p \in Procs, NEW k \in DOMAIN wire[p],
           NEW i \in wire[p][k].cmds,
           wire' = wire \/ wire' = [wire EXCEPT ![p][k].next = i + 1],
           NEW r \in Requests, Pushing(r)'
    PROVE  Pushing(r)
<1>1. PICK q \in Procs : \E l \in DOMAIN wire'[q] :
         wire'[q][l].kind = "push" /\ r \in Intake!Served(wire'[q][l])
  BY DEF Pushing, Intake!Served
<1>2. PICK l \in DOMAIN wire'[q] :
         wire'[q][l].kind = "push" /\ r \in Intake!Served(wire'[q][l])
  BY <1>1
<1>3. wire[q] \in Seq(Piped) /\ wire[p] \in Seq(Piped) /\ wire[p][k] \in Piped
  BY CommandOfRequest DEF OnTheWay
<1>4. l \in DOMAIN wire[q]
  BY <1>3 DEF OnTheWay
<1>5. /\ wire'[q][l].kind = wire[q][l].kind
      /\ wire'[q][l].cmds = wire[q][l].cmds
      /\ wire'[q][l].batch = wire[q][l].batch
  <2>1. CASE wire' = wire
    BY <2>1
  <2>2. CASE wire' = [wire EXCEPT ![p] = [wire[p] EXCEPT ![k] =
                                            [wire[p][k] EXCEPT !.next = i + 1]]]
    <3>1. wire'[q][l] = IF q = p /\ l = k THEN [wire[p][k] EXCEPT !.next = i + 1]
                                          ELSE wire[q][l]
      BY <1>3, <1>4, <2>2 DEF OnTheWay
    <3> QED
      BY <1>3, <3>1 DEF Piped, Intake!Pipeline
  <2> QED
    BY <2>1, <2>2 DEF OnTheWay
<1> QED
  BY <1>2, <1>4, <1>5 DEF Pushing, Intake!Served

\* A command makes its request a winner only if it is a script run on
\* AVAILABLE, and then nobody was a winner before.
LEMMA CommandOneWinner ==
    ASSUME WarmInv, NEW p \in Procs, NEW k \in DOMAIN wire[p],
           NEW i \in wire[p][k].cmds,
           wire' = wire \/ wire' = [wire EXCEPT ![p][k].next = i + 1],
           NEW result,
           \/ saw' = saw
           \/ saw' = [saw EXCEPT ![wire[p][k].batch[i]] = result],
           \/ result = "ERR"
           \/ result = Intake!ResultOf(wire[p][k].kind, wire[p][k].batch[i]),
           \/ UNCHANGED cache /\ result = "ERR"
           \/ Intake!Execute(wire[p][k].kind, wire[p][k].batch[i]),
           UNCHANGED <<phase, reply>>
    PROVE  NoMisses' /\ OneWinner'
<1>1. PICK r \in Requests, s \in Seats : r = wire[p][k].batch[i] /\ s = SeatOf[r]
  BY CommandOfRequest DEF WarmInv
<1>2. cache[s] \in {"AVAILABLE", "HELD"}
  BY <1>1 DEF WarmInv, NoMisses
<1>3. \/ UNCHANGED cache
      \/ cache[s] = "AVAILABLE" /\ cache' = [cache EXCEPT ![s] = "HELD"]
  BY <1>1, <1>2 DEF Intake!Execute, Intake!ScriptLeaves, WarmInv, NoMisses
<1>4. result \in {"OK", "FAIL", "ERR"}
  BY <1>1, <1>2 DEF Intake!ResultOf, Intake!ScriptResult
<1>5. NoMisses'
  BY <1>1, <1>3, <1>4 DEF WarmInv, NoMisses
<1>6. \A q \in Requests : Pushing(q)' => Pushing(q)
  BY AnsweredNoPush DEF WarmInv
<1>7. ASSUME NEW q \in Requests, Winner(q)', q # r
      PROVE  Winner(q)
  BY <1>1, <1>6, <1>7 DEF Winner, WarmInv, NoMisses
<1>8. CASE wire[p][k].kind = "push"
  <2>1. Winner(r)
    BY <1>1, <1>8 DEF Winner, Pushing, Intake!Served
  <2>2. UNCHANGED cache
    BY <1>1, <1>8 DEF Intake!Execute
  <2> QED
    BY <1>5, <1>7, <2>1, <2>2, NobodyNewWins DEF WarmInv
<1>9. CASE wire[p][k].kind = "script" /\ cache[s] = "HELD"
  <2>1. result \in {"FAIL", "ERR"}
    BY <1>1, <1>9 DEF Intake!ResultOf, Intake!ScriptResult
  <2>2. Winner(r)' => Winner(r)
    BY <1>1, <1>6, <2>1 DEF Winner, WarmInv, NoMisses
  <2> QED
    BY <1>3, <1>5, <1>7, <1>9, <2>2, NobodyNewWins DEF WarmInv
<1>10. CASE wire[p][k].kind = "script" /\ cache[s] = "AVAILABLE"
  <2>1. \A q \in Requests : SeatOf[q] = s => ~Winner(q)
    BY <1>1, <1>10 DEF WarmInv, OneWinner
  <2>2. CASE UNCHANGED cache
    <3>1. result = "ERR"
      BY <1>1, <1>10, <2>2 DEF Intake!Execute, Intake!ScriptLeaves, WarmInv, NoMisses
    <3>2. Winner(r)' => Winner(r)
      BY <1>1, <1>6, <3>1 DEF Winner, WarmInv, NoMisses
    <3> QED
      BY <1>5, <1>7, <2>2, <3>2, NobodyNewWins DEF WarmInv
  <2>3. CASE cache' = [cache EXCEPT ![s] = "HELD"]
    BY <1>1, <1>5, <1>7, <2>1, <2>3 DEF WarmInv, NoMisses, OneWinner
  <2> QED
    BY <1>3, <2>2, <2>3
<1> QED
  BY <1>2, <1>8, <1>9, <1>10, CommandOfRequest DEF WarmInv, Piped, Intake!Pipeline

\* After the oldest pipeline was handled, a push was there before or is new.
LEMMA HandledPushes ==
    ASSUME OnTheWay, NEW p \in Procs, wire[p] # <<>>, NEW more \in Seq(Piped),
           wire' = [wire EXCEPT ![p] = Tail(@) \o more],
           NEW r \in Requests, Pushing(r)'
    PROVE  \/ Pushing(r)
           \/ \E k \in DOMAIN more : more[k].kind = "push" /\ r \in Intake!Served(more[k])
<1>1. PICK q \in Procs : \E l \in DOMAIN wire'[q] :
         wire'[q][l].kind = "push" /\ r \in Intake!Served(wire'[q][l])
  BY DEF Pushing, Intake!Served
<1>2. PICK l \in DOMAIN wire'[q] :
         wire'[q][l].kind = "push" /\ r \in Intake!Served(wire'[q][l])
  BY <1>1
<1>3. wire[p] \in Seq(Piped) /\ Tail(wire[p]) \in Seq(Piped)
  BY HeadTailOfWire DEF OnTheWay
<1>4. CASE q # p
  BY <1>2, <1>4 DEF OnTheWay, Pushing
<1>5. CASE q = p
  <2> DEFINE rest == Tail(wire[p])
             n == Len(rest)
  <2>1. n \in Nat /\ DOMAIN rest = 1..n
    BY <1>3, LenProperties
  <2>2. ASSUME NEW k \in 1..n
        PROVE  k + 1 \in DOMAIN wire[p] /\ rest[k] = wire[p][k + 1]
    BY <1>3, <2>1, HeadTailProperties, LenProperties
  <2>3. /\ DOMAIN (rest \o more) = 1..(n + Len(more))
        /\ \A i \in 1..(n + Len(more)) :
              (rest \o more)[i] = IF i <= n THEN rest[i] ELSE more[i - n]
    BY <1>3, ConcatProperties, LenProperties
  <2>4. DOMAIN more = 1..Len(more) /\ Len(more) \in Nat
    BY LenProperties
  <2>5. wire'[q] = rest \o more
    BY <1>5 DEF OnTheWay
  <2> HIDE DEF rest, n
  <2>6. l \in 1..(n + Len(more)) /\ wire'[q][l] = (IF l <= n THEN rest[l] ELSE more[l - n])
    BY <1>2, <2>3, <2>5
  <2>7. CASE l <= n
    BY <1>2, <2>1, <2>2, <2>6, <2>7 DEF Pushing
  <2>8. CASE ~(l <= n)
    <3>1. l - n \in DOMAIN more
      BY <2>1, <2>4, <2>6, <2>8
    <3> QED
      BY <1>2, <2>6, <2>8, <3>1
  <2> QED
    BY <2>7, <2>8
<1> QED
  BY <1>4, <1>5

\* The results of the scripts: only who got OK is pushed.
LEMMA HandleScriptsOneWinner ==
    ASSUME WarmInv, NEW p \in Procs, Intake!HandleScripts(p)
    PROVE  NoMisses' /\ OneWinner'
<1> DEFINE batch == Head(wire[p]).batch
           won == {i \in DOMAIN batch : saw[batch[i]] = "OK"}
           more == IF won = {} THEN <<>> ELSE <<Intake!PushesFor(batch, won)>>
<1>1. wire[p] # <<>>
  BY DEF Intake!HandleScripts, Intake!Complete
<1>2. batch \in Seq(Requests) /\ DOMAIN batch \subseteq Nat
  BY <1>1, HeadTailOfWire, LenProperties DEF WarmInv
<1>3. Intake!PushesFor(batch, won) \in Piped
  BY <1>2 DEF Intake!PushesFor, Piped, Intake!Pipeline
<1>4. more \in Seq(Piped)
  BY <1>3
<1>5. wire' = [wire EXCEPT ![p] = Tail(@) \o more]
  BY DEF Intake!HandleScripts
<1>6. ASSUME NEW r \in Requests, Pushing(r)'
      PROVE  Winner(r)
  <2>1. CASE Pushing(r)
    BY <2>1 DEF Winner
  <2>2. ASSUME NEW k \in DOMAIN more, r \in Intake!Served(more[k])
        PROVE  saw[r] = "OK"
    <3>1. more[k] = Intake!PushesFor(batch, won)
      BY <2>2
    <3> QED
      BY <2>2, <3>1 DEF Intake!Served, Intake!PushesFor
  <2> HIDE DEF more
  <2> QED
    BY <1>1, <1>4, <1>5, <1>6, <2>1, <2>2, HandledPushes DEF WarmInv, Winner
<1>7. \A r \in Requests : phase'[r] \in {"done", phase[r]}
                          /\ reply'[r] \in {"rejected", reply[r]}
  BY DEF Intake!HandleScripts, Intake!Settled, WarmInv, NoMisses
<1>8. DOMAIN phase' = Requests /\ DOMAIN reply' = Requests /\ UNCHANGED <<cache, saw>>
  BY DEF Intake!HandleScripts, Intake!redis
<1>9. phase' = [r \in Requests |-> phase'[r]] /\ reply' = [r \in Requests |-> reply'[r]]
  BY DEF Intake!HandleScripts
<1>10. NoMisses'
  BY <1>7, <1>8, <1>9 DEF WarmInv, NoMisses
<1>11. \A r \in Requests : Winner(r)' => Winner(r)
  BY <1>6, <1>7, <1>8 DEF Winner
<1> QED
  BY <1>8, <1>10, <1>11, NobodyNewWins DEF WarmInv

\* The results of the pushes, or the whole pipeline rejected: accepted is only
\* who got OK.
LEMMA HandlePushesOneWinner ==
    ASSUME WarmInv, NEW p \in Procs, Intake!HandlePushes(p) \/ Intake!ExecRejected(p)
    PROVE  NoMisses' /\ OneWinner'
<1>1. wire[p] # <<>> /\ wire' = [wire EXCEPT ![p] = Tail(@)]
  BY DEF Intake!HandlePushes, Intake!ExecRejected, Intake!Complete
<1>2. wire' = [wire EXCEPT ![p] = Tail(@) \o <<>>]
  BY <1>1, HeadTailOfWire, ConcatEmptySeq DEF WarmInv
<1>3. ASSUME NEW r \in Requests, Pushing(r)'
      PROVE  Pushing(r)
  <2> DEFINE none == <<>>
  <2>1. none \in Seq(Piped) /\ DOMAIN none = {}
    OBVIOUS
  <2> HIDE DEF none
  <2>2. wire' = [wire EXCEPT ![p] = Tail(@) \o none]
    BY <1>2 DEF none
  <2> QED
    BY <1>1, <1>3, <2>1, <2>2, HandledPushes DEF WarmInv
<1>4. NoMisses'
  <2>1. phase' \in [Requests -> {"new", "buffered", "piped", "done"}]
    BY DEF Intake!HandlePushes, Intake!ExecRejected, Intake!Moved, WarmInv, NoMisses
  <2>2. reply' \in [Requests -> {"none", "accepted", "rejected", "lost"}]
    BY DEF Intake!HandlePushes, Intake!ExecRejected, Intake!Settled, WarmInv, NoMisses
  <2> QED
    BY <2>1, <2>2 DEF Intake!HandlePushes, Intake!ExecRejected, Intake!redis,
                      WarmInv, NoMisses
<1>5. \A r \in Requests : reply'[r] = "accepted" => saw[r] = "OK" \/ reply[r] = "accepted"
  BY DEF Intake!HandlePushes, Intake!ExecRejected, Intake!Settled
<1>6. UNCHANGED <<cache, saw>>
  BY DEF Intake!HandlePushes, Intake!ExecRejected, Intake!redis
<1> QED
  BY <1>3, <1>4, <1>5, <1>6, NobodyNewWins DEF Winner, WarmInv

\* All that a process does for its requests, and all that may befall it.
LEMMA IntakeOneWinner ==
    ASSUME WarmInv, NEW p \in Procs, Intake!Serve(p) \/ Intake!Disturb(p)
    PROVE  NoMisses' /\ OneWinner'
<1>1. ASSUME NEW r \in Requests, Intake!Submit(r)
      PROVE  NoMisses' /\ OneWinner'
  <2>1. HomeOf[r] \in Procs /\ Append(buffer[HomeOf[r]], r) \in Seq(Requests)
    BY AppendProperties DEF WarmInv, OnTheWay
  <2>2. CASE Intake!SendBatch(HomeOf[r], Append(buffer[HomeOf[r]], r))
    BY <2>1, <2>2, SendBatchNoWinner
  <2>3. CASE /\ phase' = [phase EXCEPT ![r] = "buffered"]
             /\ UNCHANGED <<cache, wire, saw, reply>>
    <3>1. NoMisses'
      BY <2>3 DEF WarmInv, NoMisses
    <3>2. \A q \in Requests : Winner(q)' => Winner(q)
      BY <2>3 DEF Winner, Pushing, Intake!Served
    <3> QED
      BY <2>3, <3>1, <3>2, NobodyNewWins DEF WarmInv
  <2> QED
    BY <1>1, <2>2, <2>3 DEF Intake!Submit, Intake!redis
<1>2. CASE Intake!Flush(p)
  <2>1. buffer[p] \in Seq(Requests)
    BY DEF WarmInv, OnTheWay
  <2> QED
    BY <1>2, <2>1, SendBatchNoWinner DEF Intake!Flush
<1>3. CASE Intake!RunCommand(p)
  BY <1>3, CommandOneWinner DEF Intake!RunCommand, Intake!Answered
<1>4. CASE Intake!CommandFails(p)
  BY <1>4, CommandOneWinner DEF Intake!CommandFails, Intake!Answered, Intake!redis,
                                Intake!local
<1>5. CASE Intake!HandleScripts(p) \/ Intake!HandlePushes(p) \/ Intake!ExecRejected(p)
  BY <1>5, HandleScriptsOneWinner, HandlePushesOneWinner
<1>6. ASSUME NEW r \in Requests,
             \/ Intake!SlowStep(r) \/ Intake!AcquireFault(r) \/ Intake!SlowFault(r)
             \/ Intake!SlowResend(r) \/ Intake!ReleaseFault(r)
      PROVE  FALSE
  BY <1>6 DEF WarmInv, NoMisses, Intake!SlowStep, Intake!Acquire, Intake!LockBusy,
              Intake!ReadAvailable, Intake!ReadTaken, Intake!ReadNothing,
              Intake!Mark, Intake!Enqueue, Intake!Hold, Intake!Release,
              Intake!AcquireFault, Intake!SlowFault, Intake!SlowResend,
              Intake!TakesEffect, Intake!Protected, Intake!ReleaseFault, Intake!Finish
<1> QED
  BY <1>1, <1>2, <1>3, <1>4, <1>5, <1>6 DEF Intake!Serve, Intake!Disturb

\* The end of a process takes its pushes with it.
LEMMA CrashOneWinner ==
    ASSUME WarmInv, NEW p \in Procs, Intake!Crash(p)
    PROVE  NoMisses' /\ OneWinner'
<1>1. NoMisses'
  <2>1. phase' \in [Requests -> {"new", "buffered", "piped", "done"}]
    BY DEF Intake!Crash, Intake!Moved, WarmInv, NoMisses
  <2>2. reply' \in [Requests -> {"none", "accepted", "rejected", "lost"}]
    BY DEF Intake!Crash, Intake!Settled, WarmInv, NoMisses
  <2> QED
    BY <2>1, <2>2 DEF Intake!Crash, Intake!redis, WarmInv, NoMisses
<1>2. \A r \in Requests : reply'[r] = "accepted" => reply[r] = "accepted"
  BY DEF Intake!Crash, Intake!Settled
<1>3. \A q \in Procs : wire'[q] = wire[q] \/ wire'[q] = <<>>
  BY DEF Intake!Crash, WarmInv, OnTheWay
<1>4. ASSUME NEW r \in Requests, Pushing(r)'
      PROVE  Pushing(r)
  BY <1>3, <1>4 DEF Pushing, Intake!Served
<1> QED
  BY <1>1, <1>2, <1>4, NobodyNewWins DEF Winner, WarmInv, Intake!Crash, Intake!redis

\* The invariant of a warm cache, for every step of the system, as long as no
\* cancellation has a SET under way.
LEMMA WarmHolds ==
    ASSUME InitialCache = {"AVAILABLE"}, "key" \notin Expiring
    PROVE  Spec /\ [](unholding = {}) => []WarmInv
<1>1. Init => WarmInv
  <2> SUFFICES ASSUME Init PROVE WarmInv
    OBVIOUS
  <2>1. NoMisses
    BY DEF Init, Intake!Init, NoMisses
  <2>2. \A r \in Requests : ~Winner(r)
    BY DEF Init, Intake!Init, Winner, Pushing
  <2> QED
    BY <2>1, <2>2, InitOnTheWay DEF WarmInv, OneWinner
<1>2. WarmInv /\ unholding = {} /\ [Next]_vars => WarmInv'
  <2> SUFFICES ASSUME WarmInv, unholding = {}, [Next]_vars
               PROVE  NoMisses' /\ OneWinner'
    BY StepOnTheWay DEF WarmInv
  <2>1. ASSUME NEW p \in Procs, Serve(p) \/ Disturb(p)
        PROVE  NoMisses' /\ OneWinner'
    BY <2>1, IntakeOneWinner DEF Serve, Disturb
  <2>2. ASSUME NEW p \in Procs, Crash(p)
        PROVE  NoMisses' /\ OneWinner'
    BY <2>2, CrashOneWinner DEF Crash
  <2>3. ASSUME UNCHANGED <<cache, wire, phase, saw, reply>>
        PROVE  NoMisses' /\ OneWinner'
    BY <2>3 DEF WarmInv, NoMisses, OneWinner, Winner, Pushing, Intake!Served
  <2>4. ASSUME NEW p \in Procs, Work(p) \/ WorkerErrs(p)
        PROVE  NoMisses' /\ OneWinner'
    BY <2>3, <2>4
       DEF Work, Pop, WorkerFind, WorkerProceeds, WorkerCommits, WorkerRefuses,
           WorkerLoses, WorkerErrs, intake
  <2>5. ASSUME NEW s \in Seats, NEW status \in Intake!CacheStates, WarmSet(s, status)
        PROVE  NoMisses' /\ OneWinner'
    <3>1. UNCHANGED cache
      BY <2>5 DEF WarmSet, WarmLeaves, WarmInv, NoMisses
    <3> QED
      BY <2>3, <2>5, <3>1 DEF WarmSet
  <2>6. ASSUME NEW s \in Seats, Expire(s) \/ WarmRead(s)
        PROVE  NoMisses' /\ OneWinner'
    BY <2>3, <2>6 DEF Expire, Intake!Expire, Intake!KeyExpire, Intake!LockExpire,
                      Intake!local, WarmRead, intake
  <2>7. ASSUME NEW p \in Performances, DeletePerformance(p)
        PROVE  NoMisses' /\ OneWinner'
    BY <2>3, <2>7 DEF DeletePerformance, intake
  <2>8. ASSUME NEW h \in Handlers,
               \/ \E r \in Requests, op \in {"confirm", "cancel"} : SettleFind(h, r, op)
               \/ SettleProceeds(h) \/ SettleEnds(h) \/ SettleErrs(h)
        PROVE  NoMisses' /\ OneWinner'
    BY <2>3, <2>8 DEF SettleFind, SettleProceeds, SettleEnds, SettleErrs, intake
  <2>9. ASSUME NEW h \in Handlers, NEW s \in Seats, Unhold(h, s) \/ UnholdFails(h, s)
        PROVE  FALSE
    BY <2>9 DEF Unhold, UnholdFails
  <2>10. CASE UNCHANGED vars
    BY <2>3, <2>10 DEF vars, intake
  <2> QED
    BY <2>1, <2>2, <2>4, <2>5, <2>6, <2>7, <2>8, <2>9, <2>10 DEF Next
<1> QED
  BY <1>1, <1>2, PTL DEF Spec

\* From a warm cache, and as long as no cancellation writes it, at most one
\* request for a seat is accepted, whatever the number of requests and
\* processes, the way their batches interleave, whichever commands fail or are
\* sent twice, processes die, and reservations are confirmed.
THEOREM OneAcceptancePerSeat ==
    ASSUME InitialCache = {"AVAILABLE"}, "key" \notin Expiring
    PROVE  Spec /\ [](unholding = {}) => []AtMostOneAccepted
<1>1. WarmInv => AtMostOneAccepted
  BY DEF WarmInv, OneWinner, Winner, AtMostOneAccepted, SameSeat
<1> QED
  BY <1>1, WarmHolds, PTL
=============================================================================
