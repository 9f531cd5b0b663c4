------------------------------ MODULE FastPass ------------------------------
(***************************************************************************)
(* The reservation system: server processes that answer requests from      *)
(* Redis (ReservationIntake), the queue worker of each process that turns  *)
(* queued items into rows (ReservationStore), the handlers that confirm,   *)
(* cancel and expire reservations, and getSeats, which warms the cache.    *)
(* Redis and the tables are shared by all of them.                         *)
(***************************************************************************)
EXTENDS Naturals, FiniteSets, SequencesExt

CONSTANTS Seats, Performances, PerformanceOf, Requests, SeatOf, Procs, HomeOf,
          BatchMax, InitialCache, Expiring, MaxFaults, NoReq,
          Handlers,   \* connections of confirm, cancel and expiry
          Deletable,  \* performances that may be deleted
          Browsed     \* seats of performances that are being looked at

ASSUME FastPassAssumption ==
    /\ PerformanceOf \in [Seats -> Performances]
    /\ SeatOf \in [Requests -> Seats]
    /\ HomeOf \in [Requests -> Procs]
    /\ BatchMax \in Nat \ {0}
    /\ MaxFaults \in Nat
    /\ InitialCache \subseteq {"MISSING", "AVAILABLE"}
    /\ NoReq \notin Requests
    /\ Procs \cap Handlers = {}
    /\ Deletable \subseteq Performances
    /\ Browsed \subseteq Seats

VARIABLES seatStatus, seatVersion, resStatus, tx,       \* ReservationStore
          cache, queue, lock, buffer, wire, phase, saw, reply, faults,
                                                        \* ReservationIntake
          inHand,     \* the item each worker popped and has not finished
          dropped,    \* items a worker gave up: only a log line is left
          warming,    \* SETs of getSeats not yet run: seat and status
          unholding   \* SETs of cancellations not yet run: handler and seat

Store == INSTANCE ReservationStore
    WITH Reservations <- Requests, Conns <- Procs \cup Handlers, NoRes <- NoReq
Intake == INSTANCE ReservationIntake

store == <<seatStatus, seatVersion, resStatus, tx>>
intake == <<cache, queue, lock, buffer, wire, phase, saw, reply, faults>>
work == <<inHand, dropped>>
extra == <<warming, unholding>>
vars == <<store, intake, work, extra>>

TypeOK ==
    /\ Store!TypeOK
    /\ Intake!TypeOK
    /\ inHand \in [Procs -> Requests \cup {NoReq}]
    /\ dropped \subseteq Requests
    /\ warming \subseteq Seats \X Intake!CacheStates
    /\ unholding \subseteq Handlers \X Seats

Init ==
    /\ Store!Init
    /\ Intake!Init
    /\ inHand = [p \in Procs |-> NoReq]
    /\ dropped = {}
    /\ warming = {}
    /\ unholding = {}

-----------------------------------------------------------------------------
(***************************************************************************)
(* Requests.                                                               *)
(***************************************************************************)
Serve(p) == Intake!Serve(p) /\ UNCHANGED <<store, work, extra>>
Disturb(p) == Intake!Disturb(p) /\ UNCHANGED <<store, work, extra>>
Expire(s) == Intake!Expire(s) /\ UNCHANGED <<store, work, extra>>

-----------------------------------------------------------------------------
(***************************************************************************)
(* The queue worker of process p.  isProcessing lets one item at a time be *)
(* in hand; the pauses between ticks only delay Pop.                       *)
(***************************************************************************)
Pop(p) ==
    /\ inHand[p] = NoReq /\ queue # <<>>
    /\ inHand' = [inHand EXCEPT ![p] = Head(queue)]
    /\ queue' = Tail(queue)
    /\ UNCHANGED <<store, cache, lock, buffer, wire, phase, saw, reply, faults,
                   dropped, extra>>

WorkerFind(p) ==
    /\ inHand[p] # NoReq
    /\ Store!PersistFind(p, inHand[p])
    /\ UNCHANGED <<intake, work, extra>>

WorkerProceeds(p) ==
    /\ Store!PersistUpdate(p) \/ Store!PersistCreate(p)
    /\ UNCHANGED <<intake, work, extra>>

WorkerCommits(p) ==
    /\ Store!PersistCommit(p)
    /\ inHand' = [inHand EXCEPT ![p] = NoReq]
    /\ UNCHANGED <<intake, dropped, extra>>

\* The catch block logs the error; nothing puts the item back.
KeepsInHand(p) == UNCHANGED <<inHand, dropped>>  \* mutant: isProcessing not reset
GivesUp(p) ==
    /\ inHand' = [inHand EXCEPT ![p] = NoReq]
    /\ dropped' = dropped \cup {inHand[p]}

\* The seat is not AVAILABLE, or not there.
WorkerRefuses(p) ==
    /\ inHand[p] # NoReq /\ tx[p] = Store!Idle
    /\ seatStatus[SeatOf[inHand[p]]] # "AVAILABLE"
    /\ GivesUp(p)
    /\ UNCHANGED <<store, intake, extra>>

\* Somebody else took the seat, or the insert violates the unique index.
WorkerLoses(p) ==
    /\ Store!PersistCollide(p) \/ Store!PersistDuplicate(p) \/ Store!DeadlockVictim(p)
    /\ GivesUp(p)
    /\ UNCHANGED <<intake, extra>>

\* Any other error of the transaction or of the connection.
WorkerErrs(p) ==
    /\ Intake!Fault
    /\ inHand[p] # NoReq
    /\ Store!Abort(p) \/ (tx[p] = Store!Idle /\ UNCHANGED store)
    /\ GivesUp(p)
    /\ UNCHANGED <<cache, queue, lock, buffer, wire, phase, saw, reply, extra>>

Work(p) ==
    \/ Pop(p) \/ WorkerFind(p) \/ WorkerProceeds(p) \/ WorkerCommits(p)
    \/ WorkerRefuses(p) \/ WorkerLoses(p)

\* The end of a process takes the item its worker has in hand with it.
CrashKeepsUpdate(p) ==                   \* mutant: no transaction, the seat
    /\ Intake!Crash(p)                   \* keeps what the update wrote
    /\ IF inHand[p] = NoReq THEN UNCHANGED work ELSE GivesUp(p)
    /\ IF tx[p].at \in {"create", "commit"}
       THEN /\ seatStatus' = [seatStatus EXCEPT ![SeatOf[tx[p].res]] = "HELD"]
            /\ tx' = [tx EXCEPT ![p] = Store!Idle]
            /\ UNCHANGED <<seatVersion, resStatus>>
       ELSE IF tx[p] = Store!Idle THEN UNCHANGED store ELSE Store!Abort(p)
    /\ UNCHANGED extra
Crash(p) ==
    /\ Intake!Crash(p)
    /\ IF inHand[p] = NoReq THEN UNCHANGED work ELSE GivesUp(p)
    /\ IF tx[p] = Store!Idle THEN UNCHANGED store ELSE Store!Abort(p)
    /\ UNCHANGED extra

-----------------------------------------------------------------------------
(***************************************************************************)
(* Confirmation, cancellation and expiry.  cancelReservation starts the    *)
(* SET of the cache after its second update, inside the transaction, and   *)
(* does not wait for it.  A user learns the id from the reply, and an      *)
(* overdue reservation is ten minutes old: its request is over.            *)
(***************************************************************************)
SettleFind(h, r, op) ==
    /\ reply[r] # "none"
    /\ Store!SettleFind(h, r, op)
    /\ UNCHANGED <<intake, work, extra>>

SettleProceeds(h) ==
    /\ \/ Store!SettleFirst(h) /\ UNCHANGED unholding
       \/ /\ Store!SettleSecond(h)
          /\ unholding' = IF tx[h].op = "cancel"
                          THEN unholding \cup {<<h, SeatOf[tx[h].res]>>}
                          ELSE unholding
    /\ UNCHANGED <<intake, work, warming>>

SettleEnds(h) ==
    /\ Store!SettleCommit(h) \/ Store!DeadlockVictim(h)
    /\ UNCHANGED <<intake, work, extra>>

SettleErrs(h) ==
    /\ Intake!Fault
    /\ Store!Abort(h)
    /\ UNCHANGED <<cache, queue, lock, buffer, wire, phase, saw, reply, work, extra>>

\* SET seat:{id}:status AVAILABLE, whatever the cache holds now.
Unhold(h, s) ==
    /\ <<h, s>> \in unholding
    /\ cache' = [cache EXCEPT ![s] = "AVAILABLE"]
    /\ unholding' = unholding \ {<<h, s>>}
    /\ UNCHANGED <<store, queue, lock, buffer, wire, phase, saw, reply, faults,
                   work, warming>>

\* The SET fails and the error is printed, or ioredis sends it once more.
UnholdFails(h, s) ==
    /\ Intake!Fault
    /\ <<h, s>> \in unholding
    /\ \/ unholding' = unholding \ {<<h, s>>} /\ UNCHANGED cache
       \/ cache' = [cache EXCEPT ![s] = "AVAILABLE"] /\ UNCHANGED unholding
    /\ UNCHANGED <<store, queue, lock, buffer, wire, phase, saw, reply,
                   work, warming>>

-----------------------------------------------------------------------------
(***************************************************************************)
(* getSeats: read the seats, then SET each status that is not cached, and  *)
(* do not wait for it.  And deletion of a performance.                     *)
(***************************************************************************)
WarmRead(s) ==
    /\ s \in Browsed /\ seatStatus[s] # "GONE"
    /\ warming' = warming \cup {<<s, seatStatus[s]>>}
    /\ UNCHANGED <<store, intake, work, unholding>>

WarmAlways(s, status) == status          \* mutant: SET without NX
WarmLeaves(s, status) == IF cache[s] = "MISSING" THEN status ELSE cache[s]

WarmSet(s, status) ==
    /\ <<s, status>> \in warming
    /\ \/ warming' = warming \ {<<s, status>>} /\ UNCHANGED faults
       \/ UNCHANGED warming /\ Intake!Fault        \* sent once more
    /\ cache' = [cache EXCEPT ![s] = WarmLeaves(s, status)]
    /\ UNCHANGED <<store, queue, lock, buffer, wire, phase, saw, reply, work,
                   unholding>>

DeletePerformance(p) ==
    /\ p \in Deletable
    /\ Store!DeletePerformance(p)
    /\ UNCHANGED <<intake, work, extra>>

-----------------------------------------------------------------------------
Next ==
    \/ \E p \in Procs : Serve(p) \/ Work(p) \/ Disturb(p) \/ WorkerErrs(p) \/ Crash(p)
    \/ \E h \in Handlers :
          \/ \E r \in Requests, op \in {"confirm", "cancel"} : SettleFind(h, r, op)
          \/ SettleProceeds(h) \/ SettleEnds(h) \/ SettleErrs(h)
          \/ \E s \in Seats : Unhold(h, s) \/ UnholdFails(h, s)
    \/ \E s \in Seats :
          \/ Expire(s)
          \/ WarmRead(s)
          \/ \E status \in Intake!CacheStates : WarmSet(s, status)
    \/ \E p \in Performances : DeletePerformance(p)

\* The timers of every process tick for ever and Redis answers; PostgreSQL
\* serves lock requests in their order.  Requests, faults, time-outs, visitors
\* and administrators owe nothing.
Fairness ==
    /\ \A p \in Procs :
          /\ WF_vars(Intake!Flush(p) /\ UNCHANGED <<store, work, extra>>)
          /\ WF_vars(Intake!RunCommand(p) /\ UNCHANGED <<store, work, extra>>)
          /\ WF_vars((Intake!HandleScripts(p) \/ Intake!HandlePushes(p))
                        /\ UNCHANGED <<store, work, extra>>)
          /\ SF_vars(Pop(p))
          /\ SF_vars(WorkerFind(p) \/ WorkerProceeds(p) \/ WorkerCommits(p)
                        \/ WorkerRefuses(p) \/ WorkerLoses(p))
    /\ \A r \in Requests :
          WF_vars(Intake!SlowStep(r) /\ UNCHANGED <<store, work, extra>>)
    /\ \A h \in Handlers : SF_vars(SettleProceeds(h) \/ SettleEnds(h))

Spec == Init /\ [][Next]_vars
FairSpec == Spec /\ Fairness

-----------------------------------------------------------------------------
(***************************************************************************)
(* Properties.                                                             *)
(***************************************************************************)
\* Where the item of request r is between its acceptance and its row.
Queued(r) == \E i \in DOMAIN queue : queue[i] = r
InHand(r) == \E p \in Procs : inHand[p] = r
HasRow(r) == resStatus[r] # "NONE"
SameSeat(r) == {q \in Requests \ {r} : SeatOf[q] = SeatOf[r]}

\* README: of all who ask for one seat at the same time, one is told PENDING
\* and everybody else 409.  Holds from a warm cache, in any interleaving of
\* processes, pipelines, workers and getSeats; violated from a cold one.
AtMostOneAccepted ==
    \A r \in Requests : reply[r] = "accepted" =>
        \A q \in SameSeat(r) : reply[q] # "accepted"

\* An accepted reservation is on its way or has its row: without an error,
\* the worker never drops it.
AcceptedIsKept ==
    \A r \in Requests :
        reply[r] = "accepted" /\ faults = 0 => Queued(r) \/ InHand(r) \/ HasRow(r)

\* Whoever is told 409 is not booked later: without an error, no item of a
\* rejected request is queued, in hand or stored.
RejectedLeavesNoTrace ==
    \A r \in Requests :
        reply[r] = "rejected" /\ faults = 0 => ~Queued(r) /\ ~InHand(r) /\ ~HasRow(r)

\* A reservation that was answered PENDING and came to nothing: no item of it
\* is left, it has no row, and its seat is there and went to nobody.
LostInVain(r) ==
    /\ reply[r] = "accepted"
    /\ ~Queued(r) /\ ~InHand(r) /\ ~HasRow(r)
    /\ seatStatus[SeatOf[r]] # "GONE"
    /\ \A q \in SameSeat(r) : ~HasRow(q)

\* The catch block of the worker gives an item up on any error, and a crash
\* takes the item in hand.  But no error costs more than the one reservation:
\* whatever is resent, refused, rolled back or cancelled around it, a half-done
\* transaction bars nobody from the seat and no other item gets lost.
OneLossPerError == Cardinality({r \in Requests : LostInVain(r)}) <= faults

\* A HELD seat belongs to somebody: to a request whose script returned OK, an
\* item that is queued or in hand, or a row; a hold without an owner is the
\* trace of an error.
HoldIsAccounted ==
    \A s \in Seats : cache[s] = "HELD" /\ faults = 0 =>
        \E r \in Requests :
            /\ SeatOf[r] = s
            /\ \/ Queued(r) \/ InHand(r) \/ HasRow(r)
               \/ phase[r] = "piped" /\ saw[r] = "OK"

\* The Redlock admits one request at a time to the slow path of a seat, also
\* when answers to acquire and release are lost or the commands are resent.
SlowPathExclusive ==
    \A r \in Requests : phase[r] \in Intake!Protected =>
        \A q \in SameSeat(r) : phase[q] \notin Intake!Protected

\* Every request is answered.
EveryRequestAnswered ==
    \A r \in Requests : phase[r] # "new" ~> reply[r] # "none"

\* README: what was accepted is persisted in the end, unless an error
\* intervenes.
AcceptedIsPersisted ==
    \A r \in Requests : reply[r] = "accepted" ~> HasRow(r) \/ faults > 0

\* The queue drains: every item becomes a row or is given up.
QueueDrains == \A r \in Requests : Queued(r) ~> HasRow(r) \/ r \in dropped

\* Doc claim, violated: a cancellation makes the seat bookable at once.  When
\* nothing is under way any more, the cache does not deny a free seat.
Quiet ==
    /\ queue = <<>> /\ dropped = {} /\ unholding = {} /\ warming = {}
    /\ \A r \in Requests : phase[r] \in {"new", "done"}
    /\ \A p \in Procs : inHand[p] = NoReq
    /\ \A h \in Handlers : tx[h] = Store!Idle
FreedSeatIsOffered ==
    \A s \in Seats :
        Quiet /\ faults = 0 /\ seatStatus[s] = "AVAILABLE"
            => cache[s] \in {"MISSING", "AVAILABLE"}
=============================================================================
