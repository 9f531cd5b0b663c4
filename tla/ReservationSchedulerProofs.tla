--------------------- MODULE ReservationSchedulerProofs ---------------------
(***************************************************************************)
(* Proofs about ReservationScheduler for any seats, requests, processes,   *)
(* runs of the job, and any limits: how long the hold in the cache covers  *)
(* the item it stands for.                                                 *)
(***************************************************************************)
EXTENDS ReservationScheduler, SequenceTheorems, TLAPS

USE SchedulerAssumption

-----------------------------------------------------------------------------
(***************************************************************************)
(* The invariant.  A hold lacks no more of its life than the item's age.   *)
(***************************************************************************)
UnderWay(r) == Queued(r) \/ InHand(r)

\* What is under way was accepted, so its age is counted.
UnderWayAccepted == \A r \in Requests : UnderWay(r) => reply[r] = "accepted"

\* A seat is not free only on behalf of a reservation that was stored.
TakenHasHolder == \A s \in Seats : state[s] # "AVAILABLE" => holder[s] # NoReq

\* The item r stands for the hold of its seat: it waits, no reservation of the
\* seat was stored, and it is younger than the life of a key.
Covered(r) == UnderWay(r) /\ holder[SeatOf[r]] = NoReq /\ age[r] < HoldTtl

HoldYoung ==
    \A r \in Requests : Covered(r) =>
        cache[SeatOf[r]] = "HELD" /\ life[SeatOf[r]] + age[r] >= HoldTtl

Inv == TypeOK /\ UnderWayAccepted /\ TakenHasHolder /\ HoldYoung

-----------------------------------------------------------------------------
(***************************************************************************)
(* The queue.                                                              *)
(***************************************************************************)
\* RPUSH of an item.
LEMMA EnqueueAdds ==
    ASSUME queue \in Seq(Requests), NEW r \in Requests, Enqueue(r)
    PROVE  /\ queue' \in Seq(Requests)
           /\ \A q \in Requests : Queued(q)' => Queued(q) \/ q = r
<1>1. /\ queue' \in Seq(Requests)
      /\ Len(queue) \in Nat /\ DOMAIN queue = 1..Len(queue)
      /\ DOMAIN queue' = 1..(Len(queue) + 1)
      /\ \A i \in 1..Len(queue) : queue'[i] = queue[i]
      /\ queue'[Len(queue) + 1] = r
  BY AppendProperties, LenProperties DEF Enqueue
<1>2. \A q \in Requests : Queued(q)' => Queued(q) \/ q = r
  BY <1>1 DEF Queued
<1> QED
  BY <1>1, <1>2

\* LPOP takes an item that was queued and adds none.
LEMMA PopTakes ==
    ASSUME queue \in Seq(Requests), queue # <<>>, queue' = Tail(queue)
    PROVE  /\ queue' \in Seq(Requests)
           /\ Head(queue) \in Requests /\ Queued(Head(queue))
           /\ \A q \in Requests : Queued(q)' => Queued(q)
<1> DEFINE n == Len(queue)
<1>1. /\ queue' \in Seq(Requests) /\ Head(queue) \in Requests
      /\ n \in Nat /\ n # 0 /\ DOMAIN queue = 1..n
      /\ DOMAIN queue' = 1..(n - 1)
      /\ \A i \in 1..(n - 1) : queue'[i] = queue[i + 1]
      /\ Head(queue) = queue[1]
  BY HeadTailProperties, LenProperties, EmptySeq
<1> HIDE DEF n
<1>2. Queued(Head(queue))
  BY <1>1 DEF Queued
<1>3. ASSUME NEW q \in Requests, Queued(q)'
      PROVE  Queued(q)
  <2>1. PICK i \in 1..(n - 1) : queue'[i] = q
    BY <1>1, <1>3 DEF Queued
  <2>2. i + 1 \in 1..n /\ queue[i + 1] = q
    BY <1>1, <2>1
  <2> QED
    BY <1>1, <2>2 DEF Queued
<1> QED
  BY <1>1, <1>2, <1>3

-----------------------------------------------------------------------------
(***************************************************************************)
(* Requests, keys and time.                                                *)
(***************************************************************************)
\* At the start nothing is queued, held or stored.
LEMMA InitInv == Init => Inv
<1> SUFFICES ASSUME Init PROVE Inv
  OBVIOUS
<1>1. MaxAge \in Nat
  BY DEF MaxAge
<1>2. TypeOK
  BY <1>1 DEF Init, Ledger!Init, TypeOK
<1>3. \A r \in Requests : ~UnderWay(r)
  BY DEF Init, UnderWay, Queued, InHand
<1> QED
  BY <1>2, <1>3 DEF Init, Ledger!Init, Inv, UnderWayAccepted, TakenHasHolder,
                    HoldYoung, Covered

\* Steps that bring nothing under way and leave seats, keys, answers and ages.
LEMMA QuietKeepsInv ==
    ASSUME Inv, UNCHANGED <<seats, keys, reply, age>>, TypeOK',
           \A r \in Requests : UnderWay(r)' => UnderWay(r)
    PROVE  Inv'
BY DEF Inv, seats, keys, UnderWayAccepted, TakenHasHolder, HoldYoung, Covered

\* An acceptance queues an item with a fresh hold; the hold of an item that
\* waits already for the seat only becomes younger.
LEMMA AcceptKeepsInv ==
    ASSUME Inv, NEW r \in Requests, Accept(r) \/ SlowAccept(r)
    PROVE  Inv'
<1> USE DEF seats, ticks, keys
<1>1. /\ queue \in Seq(Requests) /\ Enqueue(r)
      /\ reply' = [reply EXCEPT ![r] = "accepted"]
      /\ cache' = [cache EXCEPT ![SeatOf[r]] = "HELD"]
      /\ life' = [life EXCEPT ![SeatOf[r]] = HoldTtl]
      /\ UNCHANGED <<seats, age, ticks, todo, faults>>
  BY DEF Accept, SlowAccept, Put, Answer, Inv, TypeOK
<1>2. /\ queue' \in Seq(Requests)
      /\ \A q \in Requests : Queued(q)' => Queued(q) \/ q = r
  BY <1>1, EnqueueAdds
<1>3. \A q \in Requests : UnderWay(q)' => UnderWay(q) \/ q = r
  BY <1>1, <1>2 DEF UnderWay, InHand
<1>4. TypeOK'
  BY <1>1, <1>2 DEF Inv, TypeOK
<1>5. UnderWayAccepted' /\ TakenHasHolder'
  BY <1>1, <1>3 DEF Inv, TypeOK, UnderWayAccepted, TakenHasHolder
<1>6. ASSUME NEW q \in Requests, Covered(q)'
      PROVE  cache'[SeatOf[q]] = "HELD" /\ life'[SeatOf[q]] + age'[q] >= HoldTtl
  <2>1. age[q] \in Nat /\ age'[q] = age[q] /\ MaxAge \in Nat
    BY <1>1 DEF Inv, TypeOK, MaxAge
  <2>2. CASE SeatOf[q] = SeatOf[r]
    BY <1>1, <2>1, <2>2 DEF Inv, TypeOK
  <2>3. CASE SeatOf[q] # SeatOf[r]
    <3>1. Covered(q)
      BY <1>1, <1>3, <1>6, <2>3 DEF Covered
    <3> QED
      BY <1>1, <2>1, <2>3, <3>1 DEF Inv, TypeOK, HoldYoung
  <2> QED
    BY <2>2, <2>3
<1> QED
  BY <1>4, <1>5, <1>6 DEF Inv, HoldYoung

\* Time: the hold loses as much of its life as the item gains in age.
LEMMA TickKeepsInv ==
    ASSUME Inv, Tick
    PROVE  Inv'
<1> USE DEF seats, ticks
<1>1. MaxAge \in Nat /\ HoldTtl <= MaxAge
  BY DEF MaxAge
<1>2. TypeOK'
  BY <1>1 DEF Tick, Inv, TypeOK
<1>3. UnderWayAccepted' /\ TakenHasHolder'
  BY DEF Tick, Inv, UnderWayAccepted, TakenHasHolder, UnderWay, Queued, InHand
<1>4. ASSUME NEW r \in Requests, Covered(r)'
      PROVE  cache'[SeatOf[r]] = "HELD" /\ life'[SeatOf[r]] + age'[r] >= HoldTtl
  <2>1. UnderWay(r) /\ reply[r] = "accepted" /\ holder[SeatOf[r]] = NoReq
    BY <1>4 DEF Tick, Covered, UnderWay, Queued, InHand, Inv, UnderWayAccepted
  <2>2. age[r] \in 0..MaxAge /\ age'[r] < HoldTtl
    BY <1>4 DEF Covered, Inv, TypeOK
  <2>3. age'[r] = age[r] + 1
    BY <1>1, <2>1, <2>2 DEF Tick
  <2>4. cache[SeatOf[r]] = "HELD" /\ life[SeatOf[r]] + age[r] >= HoldTtl
    BY <1>1, <2>1, <2>2, <2>3 DEF Covered, Inv, HoldYoung
  <2>5. life[SeatOf[r]] \in 1..HoldTtl /\ life[SeatOf[r]] > 1
    BY <1>1, <2>2, <2>3, <2>4 DEF Inv, TypeOK
  <2>6. life'[SeatOf[r]] = life[SeatOf[r]] - 1 /\ life'[SeatOf[r]] # 0
    BY <2>5 DEF Tick
  <2>7. cache'[SeatOf[r]] = "HELD"
    BY <2>4, <2>6 DEF Tick
  <2> QED
    BY <1>1, <2>2, <2>3, <2>4, <2>5, <2>6, <2>7
<1> QED
  BY <1>2, <1>3, <1>4 DEF Inv, HoldYoung

\* An answer other than acceptance, and what it may write to the cache: a hold,
\* only over AVAILABLE, and the status of a seat in the database, which says
\* HELD or OCCUPIED only for a reservation that was stored.
LEMMA AnswerKeepsInv ==
    ASSUME Inv, NEW r \in Requests,
           LoseHold(r) \/ Refuse(r) \/ Miss(r) \/ SlowRefuse(r)
    PROVE  Inv'
<1> USE DEF seats, ticks, keys
<1>1. TypeOK'
  <2>1. CASE LoseHold(r)
    BY <2>1 DEF LoseHold, Put, Answer, Fault, Inv, TypeOK
  <2>2. CASE Refuse(r) \/ Miss(r)
    <3>1. PICK answer \in {"missed", "rejected"} :
             /\ UNCHANGED <<seats, keys, queue, age, ticks, todo, faults>>
             /\ reply' = [reply EXCEPT ![r] = answer]
      BY <2>2 DEF Refuse, Miss, Answer
    <3> QED
      BY <3>1 DEF Inv, TypeOK
  <2>3. CASE SlowRefuse(r)
    <3>1. /\ UNCHANGED <<state, holder, queue, age, isProcessing, left, inHand, todo, faults>>
          /\ reply' = [reply EXCEPT ![r] = "rejected"]
          /\ cache' = [cache EXCEPT ![SeatOf[r]] = state[SeatOf[r]]]
          /\ life' = [life EXCEPT ![SeatOf[r]] = HoldTtl]
          /\ state[SeatOf[r]] \in {"HELD", "OCCUPIED"}
      BY <2>3 DEF SlowRefuse, Put, Answer, Inv, TypeOK
    <3> QED
      BY <3>1 DEF Inv, TypeOK
  <2> QED
    BY <2>1, <2>2, <2>3
<1>2. PICK answer \in {"missed", "rejected"} :
         /\ reply[r] # "accepted" /\ reply' = [reply EXCEPT ![r] = answer]
         /\ UNCHANGED <<seats, queue, age, inHand>>
  BY DEF LoseHold, Refuse, Miss, SlowRefuse, Answer
<1>3. \A q \in Requests : UnderWay(q)' <=> UnderWay(q)
  BY <1>2 DEF UnderWay, Queued, InHand
<1>4. UnderWayAccepted' /\ TakenHasHolder'
  BY <1>2, <1>3 DEF Inv, TypeOK, UnderWayAccepted, TakenHasHolder
<1>5. ASSUME NEW q \in Requests, Covered(q)'
      PROVE  cache'[SeatOf[q]] = "HELD" /\ life'[SeatOf[q]] + age'[q] >= HoldTtl
  <2>1. Covered(q) /\ age'[q] = age[q]
    BY <1>2, <1>3, <1>5 DEF Covered
  <2>2. cache[SeatOf[q]] = "HELD" /\ life[SeatOf[q]] + age[q] >= HoldTtl
    BY <2>1 DEF Inv, HoldYoung
  <2>3. UNCHANGED <<cache[SeatOf[q]], life[SeatOf[q]]>>
    <3>1. CASE LoseHold(r)
      BY <2>2, <3>1 DEF LoseHold, Put, Inv, TypeOK
    <3>2. CASE SlowRefuse(r)
      BY <2>1, <3>2 DEF SlowRefuse, Put, Covered, Inv, TypeOK, TakenHasHolder
    <3>3. CASE Refuse(r) \/ Miss(r)
      BY <3>3 DEF Refuse, Miss
    <3> QED
      BY <3>1, <3>2, <3>3
  <2> QED
    BY <2>1, <2>2, <2>3
<1> QED
  BY <1>1, <1>4, <1>5 DEF Inv, HoldYoung

\* getSeats writes only where there is no key.
LEMMA WarmKeepsInv ==
    ASSUME Inv, NEW s \in Seats, Warm(s)
    PROVE  Inv'
<1> USE DEF seats, ticks
<1>1. TypeOK'
  BY DEF Warm, Put, Inv, TypeOK
<1>2. UnderWayAccepted' /\ TakenHasHolder'
  BY DEF Warm, Inv, UnderWayAccepted, TakenHasHolder, UnderWay, Queued, InHand
<1>3. HoldYoung'
  BY DEF Warm, Put, Inv, TypeOK, HoldYoung, Covered, UnderWay, Queued, InHand
<1> QED
  BY <1>1, <1>2, <1>3 DEF Inv

\* A settled seat and the key it may change have their types.
LEMMA SettleTypes ==
    ASSUME TypeOK, NEW r \in Requests,
           \/ Pending(r) /\ Ledger!Settle(SeatOf[r], "OCCUPIED") /\ UNCHANGED keys
           \/ CancelReservation(r)
    PROVE  /\ state' \in [Seats -> {"AVAILABLE", "HELD", "OCCUPIED"}]
           /\ holder' \in [Seats -> Requests \cup {NoReq}]
           /\ cache' \in [Seats -> {"MISSING", "AVAILABLE", "HELD", "OCCUPIED"}]
           /\ life' \in [Seats -> 0..HoldTtl]
           /\ \A s \in Seats : cache'[s] = "MISSING" <=> life'[s] = 0
<1>1. CASE CancelReservation(r)
  BY <1>1 DEF CancelReservation, Ledger!Settle, Put, TypeOK
<1>2. CASE Ledger!Settle(SeatOf[r], "OCCUPIED") /\ UNCHANGED keys
  BY <1>2 DEF Ledger!Settle, keys, TypeOK
<1> QED
  BY <1>1, <1>2

\* Payment and cancellation, by the user or by the job, are of a stored
\* reservation: its seat covers no item any more.
LEMMA SettleKeepsInv ==
    ASSUME Inv, NEW r \in Requests, TypeOK',
           \/ Pending(r) /\ Ledger!Settle(SeatOf[r], "OCCUPIED") /\ UNCHANGED keys
           \/ CancelReservation(r),
           UNCHANGED <<queue, reply, age, inHand>>
    PROVE  Inv'
<1> USE DEF keys
<1>1. /\ holder[SeatOf[r]] = r /\ r # NoReq /\ UNCHANGED holder
      /\ \A s \in Seats : state'[s] = state[s] \/ s = SeatOf[r]
  BY DEF CancelReservation, Pending, Ledger!Settle, Inv, TypeOK
<1>2. UnderWayAccepted' /\ TakenHasHolder'
  BY <1>1 DEF Inv, UnderWayAccepted, TakenHasHolder, UnderWay, Queued, InHand
<1>3. \A s \in Seats : s # SeatOf[r] => cache'[s] = cache[s] /\ life'[s] = life[s]
  BY DEF CancelReservation, Put, Inv, TypeOK
<1>4. HoldYoung'
  BY <1>1, <1>3 DEF Inv, HoldYoung, Covered, UnderWay, Queued, InHand
<1> QED
  BY <1>2, <1>4 DEF Inv

-----------------------------------------------------------------------------
(***************************************************************************)
(* The worker: an item goes from the queue to a hand, and from there to    *)
(* its row or away.                                                        *)
(***************************************************************************)
LEMMA PopKeepsInv ==
    ASSUME Inv, NEW p \in Procs, Pop(p)
    PROVE  Inv'
<1>1. PICK h \in Requests : Queued(h) /\ inHand' = [inHand EXCEPT ![p] = h]
  BY PopTakes DEF Pop, Inv, TypeOK
<1>2. /\ queue' \in Seq(Requests)
      /\ \A q \in Requests : Queued(q)' => Queued(q)
      /\ UNCHANGED <<state, holder, cache, life, reply, age, isProcessing, left, todo, faults>>
  BY PopTakes DEF Pop, seats, keys, Inv, TypeOK
<1>3. TypeOK'
  BY <1>1, <1>2 DEF Inv, TypeOK
<1>4. ASSUME NEW q \in Requests, InHand(q)'
      PROVE  UnderWay(q)
  <2>1. PICK g \in Procs : inHand'[g] = q
    BY <1>4 DEF InHand
  <2> QED
    BY <1>1, <2>1 DEF UnderWay, InHand, Inv, TypeOK
<1>5. \A q \in Requests : UnderWay(q)' => UnderWay(q)
  BY <1>2, <1>4 DEF UnderWay
<1> QED
  BY <1>2, <1>3, <1>5, QuietKeepsInv DEF seats, keys

\* The hand is empty again: the item was stored, refused or lost.
LEMMA DropKeepsInv ==
    ASSUME Inv, NEW p \in Procs, TypeOK', Drop(p),
           UNCHANGED <<keys, queue, reply, age>>,
           \/ UNCHANGED seats
           \/ inHand[p] # NoReq /\ Ledger!Book(inHand[p])
    PROVE  Inv'
<1>1. \A q \in Requests : UnderWay(q)' => UnderWay(q)
  BY DEF Drop, UnderWay, Queued, InHand, Inv, TypeOK
<1>2. CASE UNCHANGED seats
  BY <1>1, <1>2, QuietKeepsInv
<1>3. CASE inHand[p] # NoReq /\ Ledger!Book(inHand[p])
  <2>1. PICK r \in Requests : r = inHand[p] /\ r # NoReq /\ SeatOf[r] \in Seats
    BY <1>3 DEF Inv, TypeOK
  <2>2. /\ state' = [state EXCEPT ![SeatOf[r]] = "HELD"]
        /\ holder' = [holder EXCEPT ![SeatOf[r]] = r]
    BY <1>3, <2>1 DEF Ledger!Book
  <2>3. UnderWayAccepted' /\ TakenHasHolder'
    BY <1>1, <2>1, <2>2 DEF Inv, TypeOK, UnderWayAccepted, TakenHasHolder
  <2>4. \A q \in Requests : Covered(q)' => Covered(q)
    BY <1>1, <2>1, <2>2 DEF Covered, Inv, TypeOK
  <2>5. HoldYoung'
    BY <2>4 DEF Inv, HoldYoung, keys
  <2> QED
    BY <2>3, <2>5 DEF Inv
<1> QED
  BY <1>2, <1>3

\* The end of a tick leaves its flag and its count with their types.
LEMMA EndTickTypes ==
    ASSUME TypeOK, NEW p \in Procs, EndTick(p)
    PROVE  left' \in [Procs -> 0..PerTick] /\ isProcessing' \in [Procs -> BOOLEAN]
BY DEF EndTick, TypeOK

\* Every step.
LEMMA StepInv == Inv /\ [Next]_vars => Inv'
<1> SUFFICES ASSUME Inv, [Next]_vars PROVE Inv'
  OBVIOUS
<1>1. ASSUME NEW r \in Requests,
             Ask(r) \/ LoseHold(r)
      PROVE  Inv'
  BY <1>1, AcceptKeepsInv, AnswerKeepsInv DEF Ask
<1>2. ASSUME NEW r \in Requests, Confirm(r) \/ Cancel(r)
      PROVE  Inv'
  <2>1. TypeOK'
    BY <1>2, SettleTypes DEF Confirm, Cancel, ticks, Inv, TypeOK
  <2> QED
    BY <1>2, <2>1, SettleKeepsInv DEF Confirm, Cancel, ticks
<1>3. ASSUME NEW j \in Jobs, NEW r \in Requests, ExpireOne(j, r)
      PROVE  Inv'
  <2>1. TypeOK'
    BY <1>3, SettleTypes DEF ExpireOne, CheckOff, ticks, Inv, TypeOK
  <2> QED
    BY <1>3, <2>1, SettleKeepsInv DEF ExpireOne, ticks
<1>4. ASSUME NEW p \in Procs, StartTick(p) \/ Empty(p)
      PROVE  Inv'
  <2>1. TypeOK'
    <3>1. CASE StartTick(p)
      BY <1>4, <3>1 DEF StartTick, seats, keys, Inv, TypeOK
    <3>2. CASE Empty(p)
      BY <1>4, <3>2, EndTickTypes DEF Empty, seats, keys, Inv, TypeOK
    <3> QED
      BY <1>4, <3>1, <3>2
  <2> QED
    BY <1>4, <2>1, QuietKeepsInv DEF StartTick, Empty, UnderWay, Queued, InHand
<1>5. ASSUME NEW p \in Procs, Store(p)
      PROVE  Inv'
  <2>1. TypeOK'
    <3>1. inHand[p] \in Requests
      BY <1>5 DEF Store, Inv, TypeOK
    <3>2. /\ state' = [state EXCEPT ![SeatOf[inHand[p]]] = "HELD"]
          /\ holder' = [holder EXCEPT ![SeatOf[inHand[p]]] = inHand[p]]
          /\ inHand' = [inHand EXCEPT ![p] = NoReq]
          /\ UNCHANGED <<cache, life, queue, reply, age, todo, faults>>
      BY <1>5 DEF Store, Drop, Ledger!Book, keys
    <3>3. left' \in [Procs -> 0..PerTick] /\ isProcessing' \in [Procs -> BOOLEAN]
      <4>1. CASE left[p] > 1 /\ left' = [left EXCEPT ![p] = @ - 1] /\ UNCHANGED isProcessing
        BY <4>1 DEF Inv, TypeOK
      <4>2. CASE EndTick(p)
        BY <4>2, EndTickTypes DEF Inv
      <4> QED
        BY <1>5, <4>1, <4>2 DEF Store
    <3> QED
      BY <3>1, <3>2, <3>3 DEF Inv, TypeOK
  <2> QED
    BY <1>5, <2>1, DropKeepsInv DEF Store
<1>6. ASSUME NEW p \in Procs, GiveUp(p) \/ TickFails(p)
      PROVE  Inv'
  <2>1. TypeOK'
    <3>1. faults' \in 0..MaxFaults
      BY <1>6 DEF GiveUp, TickFails, Fault, Inv, TypeOK
    <3>2. /\ inHand' = [inHand EXCEPT ![p] = NoReq] /\ EndTick(p)
          /\ UNCHANGED <<seats, keys, queue, reply, age, todo>>
      BY <1>6 DEF GiveUp, TickFails, Drop
    <3> QED
      BY <3>1, <3>2, EndTickTypes DEF seats, keys, Inv, TypeOK
  <2> QED
    BY <1>6, <2>1, DropKeepsInv DEF GiveUp, TickFails
<1>7. ASSUME NEW j \in Jobs,
             \/ FindOverdue(j)
             \/ \E r \in Requests : SkipSettled(j, r) \/ ExpiryFails(j, r)
      PROVE  Inv'
  <2>1. TypeOK'
    <3>1. faults' \in 0..MaxFaults
      BY <1>7 DEF FindOverdue, SkipSettled, ExpiryFails, Fault, Inv, TypeOK
    <3>2. todo' \in [Jobs -> SUBSET Requests]
      <4>1. todo[j] \in SUBSET Requests /\ Overdue \in SUBSET Requests
        BY DEF Overdue, Inv, TypeOK
      <4>2. CASE FindOverdue(j)
        BY <4>1, <4>2 DEF FindOverdue, Inv, TypeOK
      <4>3. ASSUME NEW r \in Requests, SkipSettled(j, r) \/ ExpiryFails(j, r)
            PROVE  todo' \in [Jobs -> SUBSET Requests]
        <5>1. \E S \in SUBSET Requests : todo' = [todo EXCEPT ![j] = S]
          BY <4>1, <4>3 DEF SkipSettled, ExpiryFails, CheckOff, Inv, TypeOK
        <5> QED
          BY <5>1 DEF Inv, TypeOK
      <4> QED
        BY <1>7, <4>2, <4>3
    <3>3. UNCHANGED <<seats, keys, queue, reply, age, ticks>>
      BY <1>7 DEF FindOverdue, SkipSettled, ExpiryFails
    <3> QED
      BY <3>1, <3>2, <3>3 DEF seats, keys, ticks, Inv, TypeOK
  <2> QED
    BY <1>7, <2>1, QuietKeepsInv
       DEF FindOverdue, SkipSettled, ExpiryFails, ticks, UnderWay, Queued, InHand
<1>8. CASE UNCHANGED vars
  BY <1>8, QuietKeepsInv
     DEF vars, seats, keys, ticks, Inv, TypeOK, UnderWay, Queued, InHand
<1> QED
  BY <1>1, <1>2, <1>3, <1>4, <1>5, <1>6, <1>7, <1>8, TickKeepsInv, WarmKeepsInv,
     PopKeepsInv DEF Next, RunTick, RunJob

\* The inductive invariant, in every behaviour.
THEOREM InvHolds == Spec => []Inv
BY InitInv, StepInv, PTL DEF Spec

\* The types, with a key that is there as long as it has life left.
THEOREM TypeCorrect == Spec => []TypeOK
<1>1. Inv => TypeOK
  BY DEF Inv
<1> QED
  BY <1>1, InvHolds, PTL

\* Until a reservation of the seat is stored, the hold in the cache covers an
\* accepted item for HoldTtl in full, for any number of requests, processes,
\* ticks and visitors, and whatever fails.
THEOREM HoldLastsLongEnough == Spec => []HoldOutlivesItem
<1>1. Inv => HoldOutlivesItem
  BY DEF Inv, HoldYoung, Covered, UnderWay, HoldOutlivesItem
<1> QED
  BY <1>1, InvHolds, PTL
=============================================================================
