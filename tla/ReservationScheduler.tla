------------------------ MODULE ReservationScheduler ------------------------
(***************************************************************************)
(* The timed side of a reservation (ReservationScheduler): the hold in the *)
(* cache lives 600 s, the worker's interval drains the queue in ticks of   *)
(* at most fifty items, and a cron job gives back what was not paid within *)
(* ten minutes.  Time passes in steps of Tick; what is compared with a     *)
(* limit is an age or a rest of life, so there is no clock.                *)
(* The seats change as SeatLedger allows.  Transactions, pipelines and     *)
(* late SETs are one step each here: how they interleave is the subject of *)
(* ReservationStore, ReservationIntake and FastPass.                       *)
(***************************************************************************)
EXTENDS Naturals, SequencesExt

CONSTANTS Seats, Requests, SeatOf, Procs, NoReq,
          Jobs,        \* runs of the expiry job, which may overlap
          PerTick,     \* items a tick of the worker may take (50)
          HoldTtl,     \* life of a key seat:{id}:status, in steps (600 s)
          PayWithin,   \* the expiry threshold, in steps (10 min)
          MaxFaults    \* bound on errors and crashes

ASSUME SchedulerAssumption ==
    /\ SeatOf \in [Requests -> Seats]
    /\ PerTick \in Nat \ {0} /\ HoldTtl \in Nat \ {0} /\ PayWithin \in Nat \ {0}
    /\ MaxFaults \in Nat
    /\ NoReq \notin Requests

VARIABLES state, holder,  \* the seats, as in SeatLedger
          cache,   \* seat:{id}:status
          life,    \* steps until that key expires, 0 if there is none
          queue,   \* queue:reservations
          reply,   \* how the request was answered, or that its script missed
          age,     \* steps since reservedAt, no more than MaxAge
          isProcessing,  \* the flag of each process
          left,    \* items its running tick may still take
          inHand,  \* the item a tick has popped
          todo,    \* overdue reservations a run of the job has still to cancel
          faults

Ledger == INSTANCE SeatLedger WITH Reservations <- Requests, NoOne <- NoReq

seats == <<state, holder>>
keys == <<cache, life>>
ticks == <<isProcessing, left, inHand>>
vars == <<seats, keys, queue, reply, age, ticks, todo, faults>>

\* Past both limits an age makes no difference.
MaxAge == IF HoldTtl > PayWithin THEN HoldTtl ELSE PayWithin

TypeOK ==
    /\ state \in [Seats -> {"AVAILABLE", "HELD", "OCCUPIED"}]
    /\ holder \in [Seats -> Requests \cup {NoReq}]
    /\ cache \in [Seats -> {"MISSING", "AVAILABLE", "HELD", "OCCUPIED"}]
    /\ life \in [Seats -> 0..HoldTtl]
    /\ \A s \in Seats : cache[s] = "MISSING" <=> life[s] = 0
    /\ queue \in Seq(Requests)
    /\ reply \in [Requests -> {"none", "missed", "accepted", "rejected"}]
    /\ age \in [Requests -> 0..MaxAge]
    /\ isProcessing \in [Procs -> BOOLEAN]
    /\ left \in [Procs -> 0..PerTick]
    /\ inHand \in [Procs -> Requests \cup {NoReq}]
    /\ todo \in [Jobs -> SUBSET Requests]
    /\ faults \in 0..MaxFaults

Init ==
    /\ Ledger!Init
    /\ cache = [s \in Seats |-> "MISSING"]
    /\ life = [s \in Seats |-> 0]
    /\ queue = <<>>
    /\ reply = [r \in Requests |-> "none"]
    /\ age = [r \in Requests |-> 0]
    /\ isProcessing = [p \in Procs |-> FALSE]
    /\ left = [p \in Procs |-> 0]
    /\ inHand = [p \in Procs |-> NoReq]
    /\ todo = [j \in Jobs |-> {}]
    /\ faults = 0

Fault == faults < MaxFaults /\ faults' = faults + 1

Queued(r) == \E i \in DOMAIN queue : queue[i] = r
InHand(r) == \E p \in Procs : inHand[p] = r

\* The row of r, which SeatLedger knows by its seat (SeatMatchesReservation).
Pending(r) == holder[SeatOf[r]] = r /\ state[SeatOf[r]] = "HELD"
Confirmed(r) == holder[SeatOf[r]] = r /\ state[SeatOf[r]] = "OCCUPIED"

-----------------------------------------------------------------------------
(***************************************************************************)
(* Time, and the keys of the cache.                                        *)
(***************************************************************************)
\* SET key status, and the life it gives the key: EX 600 in every place.
PutForEver(s, status) ==                 \* mutant: SET without EX
    /\ cache' = [cache EXCEPT ![s] = status]
    /\ life' = [life EXCEPT ![s] = HoldTtl + 1]
PutForLess(s, status) ==                 \* mutant: the hold of the lock's TTL
    /\ cache' = [cache EXCEPT ![s] = status]
    /\ life' = [life EXCEPT ![s] = 1]
Put(s, status) ==
    /\ cache' = [cache EXCEPT ![s] = status]
    /\ life' = [life EXCEPT ![s] = HoldTtl]

\* Time waits for nobody: an item may grow older than its hold.
Tick ==
    /\ life' = [s \in Seats |-> IF life[s] \in 1..HoldTtl THEN life[s] - 1 ELSE life[s]]
    /\ cache' = [s \in Seats |-> IF life'[s] = 0 THEN "MISSING" ELSE cache[s]]
    /\ age' = [r \in Requests |->
                  IF reply[r] = "accepted" /\ age[r] < MaxAge THEN age[r] + 1
                  ELSE age[r]]
    /\ UNCHANGED <<seats, queue, reply, ticks, todo, faults>>

\* getSeats: SET NX of the status in the database.
Warm(s) ==
    /\ cache[s] = "MISSING"
    /\ Put(s, state[s])
    /\ UNCHANGED <<seats, queue, reply, age, ticks, todo, faults>>

-----------------------------------------------------------------------------
(***************************************************************************)
(* Requests.                                                               *)
(***************************************************************************)
Answer(r, answer) == reply' = [reply EXCEPT ![r] = answer]
Enqueue(r) == queue' = Append(queue, r)

\* The script returns OK and the item is pushed.
Accept(r) ==
    /\ reply[r] = "none" /\ cache[SeatOf[r]] = "AVAILABLE"
    /\ Put(SeatOf[r], "HELD") /\ Enqueue(r) /\ Answer(r, "accepted")
    /\ UNCHANGED <<seats, age, ticks, todo, faults>>

\* The script returns OK, but the push fails, or the process ends before it.
LoseHold(r) ==
    /\ Fault
    /\ reply[r] = "none" /\ cache[SeatOf[r]] = "AVAILABLE"
    /\ Put(SeatOf[r], "HELD") /\ Answer(r, "rejected")
    /\ UNCHANGED <<seats, queue, age, ticks, todo>>

\* FAIL, and MISS.
Refuse(r) ==
    /\ reply[r] = "none" /\ cache[SeatOf[r]] \in {"HELD", "OCCUPIED"}
    /\ Answer(r, "rejected")
    /\ UNCHANGED <<seats, keys, queue, age, ticks, todo, faults>>
Miss(r) ==
    /\ reply[r] = "none" /\ cache[SeatOf[r]] = "MISSING"
    /\ Answer(r, "missed")
    /\ UNCHANGED <<seats, keys, queue, age, ticks, todo, faults>>

\* The slow path asks the database, whatever the cache holds by now.
SlowAccept(r) ==
    /\ reply[r] = "missed" /\ state[SeatOf[r]] = "AVAILABLE"
    /\ Put(SeatOf[r], "HELD") /\ Enqueue(r) /\ Answer(r, "accepted")
    /\ UNCHANGED <<seats, age, ticks, todo, faults>>
SlowRefuse(r) ==
    /\ reply[r] = "missed" /\ state[SeatOf[r]] # "AVAILABLE"
    /\ Put(SeatOf[r], state[SeatOf[r]]) /\ Answer(r, "rejected")
    /\ UNCHANGED <<seats, queue, age, ticks, todo, faults>>

\* The user pays, or gives the seat back, which makes it AVAILABLE in the
\* cache as well.
Confirm(r) ==
    /\ Pending(r)
    /\ Ledger!Settle(SeatOf[r], "OCCUPIED")
    /\ UNCHANGED <<keys, queue, reply, age, ticks, todo, faults>>
CancelReservation(r) ==
    /\ Pending(r)
    /\ Ledger!Settle(SeatOf[r], "AVAILABLE")
    /\ Put(SeatOf[r], "AVAILABLE")
Cancel(r) ==
    /\ CancelReservation(r)
    /\ UNCHANGED <<queue, reply, age, ticks, todo, faults>>

-----------------------------------------------------------------------------
(***************************************************************************)
(* handleReservationQueue.  An interval that fires while the tick before   *)
(* it is running returns at once.                                          *)
(***************************************************************************)
StartTick(p) ==
    /\ ~isProcessing[p]
    /\ isProcessing' = [isProcessing EXCEPT ![p] = TRUE]
    /\ left' = [left EXCEPT ![p] = PerTick]
    /\ UNCHANGED <<seats, keys, queue, reply, age, inHand, todo, faults>>

\* The loop is over and "finally" resets the flag.
EndLoop(p) ==                            \* mutant: the flag stays set
    /\ left' = [left EXCEPT ![p] = 0]
    /\ UNCHANGED isProcessing
EndTick(p) ==
    /\ left' = [left EXCEPT ![p] = 0]
    /\ isProcessing' = [isProcessing EXCEPT ![p] = FALSE]

Pop(p) ==
    /\ left[p] > 0 /\ inHand[p] = NoReq /\ queue # <<>>
    /\ inHand' = [inHand EXCEPT ![p] = Head(queue)]
    /\ queue' = Tail(queue)
    /\ UNCHANGED <<seats, keys, reply, age, isProcessing, left, todo, faults>>

\* LPOP returns nothing: the loop is left.
Empty(p) ==
    /\ left[p] > 0 /\ inHand[p] = NoReq /\ queue = <<>>
    /\ EndTick(p)
    /\ UNCHANGED <<seats, keys, queue, reply, age, inHand, todo, faults>>

Drop(p) == inHand' = [inHand EXCEPT ![p] = NoReq]

\* The item is stored and the tick goes on to the next, if it may.
Store(p) ==
    /\ inHand[p] # NoReq
    /\ Ledger!Book(inHand[p])
    /\ Drop(p)
    /\ IF left[p] > 1
       THEN left' = [left EXCEPT ![p] = @ - 1] /\ UNCHANGED isProcessing
       ELSE EndTick(p)
    /\ UNCHANGED <<keys, queue, reply, age, todo, faults>>

\* The seat is taken or its unique row exists: the item is dropped, and the
\* tick is over although the queue may hold more.
Taken(s) == state[s] # "AVAILABLE" \/ holder[s] # NoReq

GiveUp(p) ==
    /\ inHand[p] # NoReq
    /\ Taken(SeatOf[inHand[p]])
    /\ Drop(p) /\ EndTick(p)
    /\ UNCHANGED <<seats, keys, queue, reply, age, todo, faults>>

\* Any other error has the same end; so has the end of the process.
TickFails(p) ==
    /\ Fault
    /\ left[p] > 0
    /\ Drop(p) /\ EndTick(p)
    /\ UNCHANGED <<seats, keys, queue, reply, age, todo>>

-----------------------------------------------------------------------------
(***************************************************************************)
(* handleExpiredReservations: list what is overdue, then cancel one after  *)
(* the other.                                                              *)
(***************************************************************************)
PaidAndOld ==                            \* mutant: the wrong status
    {r \in Requests : Confirmed(r) /\ age[r] >= PayWithin}
Overdue == {r \in Requests : Pending(r) /\ age[r] >= PayWithin}

FindOverdue(j) ==
    /\ todo[j] = {}
    /\ todo' = [todo EXCEPT ![j] = Overdue]
    /\ UNCHANGED <<seats, keys, queue, reply, age, ticks, faults>>

CheckOff(j, r) == r \in todo[j] /\ todo' = [todo EXCEPT ![j] = @ \ {r}]

ExpireOne(j, r) ==
    /\ CheckOff(j, r)
    /\ CancelReservation(r)
    /\ UNCHANGED <<queue, reply, age, ticks, faults>>

\* It was paid or cancelled since it was listed: the conflict is logged.
SkipSettled(j, r) ==
    /\ CheckOff(j, r)
    /\ ~Pending(r)
    /\ UNCHANGED <<seats, keys, queue, reply, age, ticks, faults>>

\* Any other error of a cancellation is skipped too; the end of the process
\* ends the run.
ExpiryFails(j, r) ==
    /\ Fault
    /\ CheckOff(j, r) \/ (todo[j] # {} /\ todo' = [todo EXCEPT ![j] = {}])
    /\ UNCHANGED <<seats, keys, queue, reply, age, ticks>>

-----------------------------------------------------------------------------
Ask(r) ==
    Accept(r) \/ Refuse(r) \/ Miss(r) \/ SlowAccept(r) \/ SlowRefuse(r)
RunTick(p) == Pop(p) \/ Empty(p) \/ Store(p) \/ GiveUp(p)
RunJob(j) == \E r \in Requests : ExpireOne(j, r) \/ SkipSettled(j, r)

Next ==
    \/ Tick
    \/ \E s \in Seats : Warm(s)
    \/ \E r \in Requests : Ask(r) \/ LoseHold(r) \/ Confirm(r) \/ Cancel(r)
    \/ \E p \in Procs : StartTick(p) \/ RunTick(p) \/ TickFails(p)
    \/ \E j \in Jobs :
          \/ FindOverdue(j) \/ RunJob(j)
          \/ \E r \in Requests : ExpiryFails(j, r)

\* Time passes, the timers of every process fire for ever, and what they
\* started goes on.  Requests, payments and visitors owe nothing.
Fairness ==
    /\ WF_vars(Tick)
    /\ \A p \in Procs : WF_vars(StartTick(p)) /\ WF_vars(RunTick(p))
    /\ \A j \in Jobs : WF_vars(FindOverdue(j)) /\ WF_vars(RunJob(j))

Spec == Init /\ [][Next]_vars /\ Fairness

-----------------------------------------------------------------------------
(***************************************************************************)
(* Properties.                                                             *)
(***************************************************************************)
\* The hold covers a wait of HoldTtl in full: until a reservation of the seat
\* is stored, whatever getSeats, the slow path, other items and other requests
\* write meanwhile, the cache refuses the seat of an accepted item younger than
\* that.  Older than that, its seat may be accepted again.
HoldOutlivesItem ==
    \A r \in Requests :
        /\ Queued(r) \/ InHand(r)
        /\ age[r] < HoldTtl
        /\ holder[SeatOf[r]] = NoReq
        => cache[SeatOf[r]] = "HELD"

\* The retrospective: seats that are not paid come back by themselves.  No
\* reservation stays PENDING, although runs of the job overlap, skip what
\* fails and are ended half-way.
UnpaidIsReleased == \A r \in Requests : Pending(r) ~> ~Pending(r)

\* A comment in flushQueue: the TTL ends a hold whose push failed.  A seat is
\* not refused for ever on behalf of nobody, whether the hold was lost in
\* Redis, in the worker, or in the database.
Owned(s) ==
    \E r \in Requests : /\ SeatOf[r] = s
                        /\ Queued(r) \/ InHand(r) \/ Pending(r) \/ Confirmed(r)
LostHoldHeals ==
    \A s \in Seats :
        cache[s] \in {"HELD", "OCCUPIED"} /\ ~Owned(s)
            ~> cache[s] \in {"MISSING", "AVAILABLE"} \/ Owned(s)

\* One item that fails ends the tick, and a tick may end with the queue full:
\* every item is taken from the queue and finished all the same.
QueueDrains == \A r \in Requests : Queued(r) ~> ~Queued(r) /\ ~InHand(r)
=============================================================================
