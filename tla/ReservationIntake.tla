------------------------- MODULE ReservationIntake --------------------------
(***************************************************************************)
(* How a reservation request is answered (ReservationService.reserveSeat,  *)
(* flushQueue and reserveSeatSlowPath) by several server processes that    *)
(* share one Redis: requests are buffered, a pipeline runs the Lua script  *)
(* for each, the winners are pushed to the worker's queue by a second      *)
(* pipeline, and seats missing from the cache take the slow path under a   *)
(* Redlock.  Every command reaching Redis, every reply and every await is  *)
(* a step of its own.  The tables are only read (seatStatus).              *)
(***************************************************************************)
EXTENDS Naturals, SequencesExt

CONSTANTS Seats,         \* seat ids
          Requests,      \* reservation requests, each named by its uuid
          SeatOf,        \* dto.seatId
          Procs,         \* PM2 processes
          HomeOf,        \* the process nginx and PM2 hand the request to
          BatchMax,      \* buffer length that flushes at once (100)
          InitialCache,  \* what the cache may hold for a seat at the start
          Expiring,      \* which TTLs may run out: "key", "lock"
          MaxFaults,     \* bound on Redis errors, resends and crashes
          NoReq          \* not a request

VARIABLES seatStatus,  \* Seat.status in the database, read only
          cache,       \* seat:{id}:status
          queue,       \* queue:reservations
          lock,        \* locks:seats:{id}: the request whose token it holds
          buffer,      \* reservationQueue of each process
          wire,        \* pipelines of each process not yet answered
          phase,       \* what each request does next
          saw,         \* the last result a request was given
          reply,       \* how its promise was settled
          faults       \* faults so far

redis == <<cache, queue, lock>>
local == <<buffer, wire, phase, saw, reply>>

\* A pipeline: the batch it serves, the positions in the batch for whose
\* requests it has a command, and the first of them Redis has not reached.
Pipeline == [kind : {"script", "push"}, batch : Seq(Requests),
             cmds : SUBSET Nat, next : Nat]
NotRun(c) == {i \in c.cmds : i >= c.next}
Served(c) == {c.batch[i] : i \in c.cmds}

Phases == {"new", "buffered", "piped", "lock", "read", "mark", "enqueue",
           "hold", "release", "done"}
CacheStates == {"MISSING", "AVAILABLE", "HELD", "OCCUPIED"}

TypeOK ==
    /\ cache \in [Seats -> CacheStates]
    /\ queue \in Seq(Requests)
    /\ lock \in [Seats -> Requests \cup {NoReq}]
    /\ buffer \in [Procs -> Seq(Requests)]
    /\ wire \in [Procs -> Seq(Pipeline)]
    /\ phase \in [Requests -> Phases]
    /\ saw \in [Requests -> {"none", "OK", "FAIL", "MISS", "ERR", "HELD",
                             "OCCUPIED", "accepted", "rejected"}]
    /\ reply \in [Requests -> {"none", "accepted", "rejected", "lost"}]
    /\ faults \in 0..MaxFaults

Init ==
    /\ cache \in [Seats -> InitialCache]
    /\ queue = <<>>
    /\ lock = [s \in Seats |-> NoReq]
    /\ buffer = [p \in Procs |-> <<>>]
    /\ wire = [p \in Procs |-> <<>>]
    /\ phase = [r \in Requests |-> "new"]
    /\ saw = [r \in Requests |-> "none"]
    /\ reply = [r \in Requests |-> "none"]
    /\ faults = 0

Fault == faults < MaxFaults /\ faults' = faults + 1

\* A promise settles once: the first resolve or reject counts.
Settled(r, answer) == IF reply[r] = "none" THEN answer ELSE reply[r]

\* The requests of S change phase.
Moved(S, to) == [r \in Requests |-> IF r \in S THEN to ELSE phase[r]]

-----------------------------------------------------------------------------
(***************************************************************************)
(* reserveSeat and the timer: fill the buffer, flush it.                   *)
(***************************************************************************)
ScriptsFor(batch) ==
    [kind |-> "script", batch |-> batch, cmds |-> DOMAIN batch, next |-> 1]

\* The batch becomes one pipeline of scripts and the buffer is empty again.
SendBatch(p, batch) ==
    /\ buffer' = [buffer EXCEPT ![p] = <<>>]
    /\ wire' = [wire EXCEPT ![p] = Append(@, ScriptsFor(batch))]
    /\ phase' = Moved(ToSet(batch), "piped")
    /\ UNCHANGED <<redis, saw, reply, faults>>

Submit(r) ==
    LET p == HomeOf[r]
        batch == Append(buffer[p], r) IN
    /\ phase[r] = "new"
    /\ IF Len(batch) >= BatchMax
       THEN SendBatch(p, batch)
       ELSE /\ buffer' = [buffer EXCEPT ![p] = batch]
            /\ phase' = [phase EXCEPT ![r] = "buffered"]
            /\ UNCHANGED <<redis, wire, saw, reply, faults>>

\* The timer of onModuleInit, every BATCH_INTERVAL.
Flush(p) == buffer[p] # <<>> /\ SendBatch(p, buffer[p])

-----------------------------------------------------------------------------
(***************************************************************************)
(* Redis runs the commands of a process in the order they were written.    *)
(***************************************************************************)
\* The Lua script: what it returns, and the status it leaves behind.  (The
\* operators marked "mutant" are faulty variants the runs are tested with.)
ScriptResult(s) ==
    CASE cache[s] = "MISSING" -> "MISS"
      [] cache[s] = "AVAILABLE" -> "OK"
      [] OTHER -> "FAIL"
ScriptOnlyReads(s) == cache[s]           \* mutant: get without the set
ScriptHoldsOnMiss(s) == "HELD"           \* mutant: set before the check
ScriptStoresResult(s) == ScriptResult(s) \* mutant: caches what it returns
ScriptLeaves(s) == IF cache[s] = "AVAILABLE" THEN "HELD" ELSE cache[s]

\* Redis runs the command of request r in a pipeline of this kind.
Execute(kind, r) ==
    IF kind = "script"
    THEN /\ cache' = [cache EXCEPT ![SeatOf[r]] = ScriptLeaves(SeatOf[r])]
         /\ UNCHANGED <<queue, lock>>
    ELSE /\ queue' = Append(queue, r)
         /\ UNCHANGED <<cache, lock>>
ResultOf(kind, r) == IF kind = "script" THEN ScriptResult(SeatOf[r]) ELSE "OK"

\* The command Redis runs next for p: position i of the k-th pipeline.
Upcoming(p, k, i) ==
    /\ i \in NotRun(wire[p][k])
    /\ \A j \in NotRun(wire[p][k]) : i <= j
    /\ \A l \in 1..(k - 1) : NotRun(wire[p][l]) = {}

\* That command is over with this result, with an effect or without.
Answered(p, k, i, effect, result) ==
    /\ effect
    /\ saw' = [saw EXCEPT ![wire[p][k].batch[i]] = result]
    /\ wire' = [wire EXCEPT ![p][k].next = i + 1]
    /\ UNCHANGED <<buffer, phase, reply>>

RunCommand(p) ==
    \E k \in DOMAIN wire[p] : \E i \in wire[p][k].cmds :
        LET c == wire[p][k]
            r == c.batch[i] IN
        /\ Upcoming(p, k, i)
        /\ Answered(p, k, i, Execute(c.kind, r), ResultOf(c.kind, r))
        /\ UNCHANGED faults

\* The connection breaks on a command that Redis may have run: the command
\* fails, or ioredis sends it again.
CommandFails(p) ==
    /\ Fault
    /\ \E k \in DOMAIN wire[p] : \E i \in wire[p][k].cmds :
          LET c == wire[p][k]
              r == c.batch[i] IN
          /\ Upcoming(p, k, i)
          /\ \/ Answered(p, k, i, UNCHANGED redis, "ERR")
             \/ Answered(p, k, i, Execute(c.kind, r), "ERR")
             \/ Execute(c.kind, r) /\ UNCHANGED local

-----------------------------------------------------------------------------
(***************************************************************************)
(* flushQueue after its awaits: the results of the scripts, and those of   *)
(* the pushes.                                                             *)
(***************************************************************************)
PushesForBatch(batch, won) ==            \* mutant: pushes the losers too
    [kind |-> "push", batch |-> batch, cmds |-> DOMAIN batch, next |-> 1]
PushesForRest(batch, won) ==             \* mutant: forgets the first winner
    [kind |-> "push", batch |-> batch, next |-> 1,
     cmds |-> {i \in won : \E j \in won : j < i}]
PushesFor(batch, won) ==
    [kind |-> "push", batch |-> batch, cmds |-> won, next |-> 1]

\* The results of p's oldest pipeline are in.
Complete(p, kind) ==
    wire[p] # <<>> /\ Head(wire[p]).kind = kind /\ NotRun(Head(wire[p])) = {}

\* OK: to be pushed.  MISS: slow path.  FAIL or an error: rejected.
HandleScripts(p) ==
    LET batch == Head(wire[p]).batch
        won == {i \in DOMAIN batch : saw[batch[i]] = "OK"}
        missed == {r \in ToSet(batch) : saw[r] = "MISS"}
        refused == {r \in ToSet(batch) : saw[r] \notin {"OK", "MISS"}} IN
    /\ Complete(p, "script")
    /\ wire' = [wire EXCEPT ![p] =
          Tail(@) \o (IF won = {} THEN <<>> ELSE <<PushesFor(batch, won)>>)]
    /\ phase' = [r \in Requests |-> CASE r \in missed -> "lock"
                                      [] r \in refused -> "done"
                                      [] OTHER -> phase[r]]
    /\ reply' = [r \in Requests |->
                    IF r \in refused THEN Settled(r, "rejected") ELSE reply[r]]
    /\ UNCHANGED <<redis, buffer, saw, faults>>

\* A push that went through resolves the request, a failed one rejects it.
HandlePushes(p) ==
    LET pushed == Served(Head(wire[p])) IN
    /\ Complete(p, "push")
    /\ wire' = [wire EXCEPT ![p] = Tail(@)]
    /\ phase' = Moved(pushed, "done")
    /\ reply' = [r \in Requests |->
                    IF r \in pushed
                    THEN Settled(r, IF saw[r] = "OK" THEN "accepted" ELSE "rejected")
                    ELSE reply[r]]
    /\ UNCHANGED <<redis, buffer, saw, faults>>

\* pipeline.exec() itself rejects and nothing was sent: the catch block
\* rejects the whole batch.  Slow paths of the batch go on.
ExecRejected(p) ==
    LET c == Head(wire[p]) IN
    /\ Fault
    /\ wire[p] # <<>> /\ NotRun(c) = c.cmds
    /\ wire' = [wire EXCEPT ![p] = Tail(@)]
    /\ phase' = Moved(Served(c), "done")
    /\ reply' = [r \in Requests |->
                    IF r \in ToSet(c.batch) THEN Settled(r, "rejected") ELSE reply[r]]
    /\ UNCHANGED <<redis, buffer, saw>>

-----------------------------------------------------------------------------
(***************************************************************************)
(* reserveSeatSlowPath, one await per step.                                *)
(***************************************************************************)
\* redlock.acquire with retryCount 0.
IgnoreLock(r) == TRUE                    \* mutant: no mutual exclusion
LockFree(r) == lock[SeatOf[r]] = NoReq

PushesFirst(r) ==                        \* mutant: queued before the check
    /\ phase[r] = "lock" /\ LockFree(r)
    /\ lock' = [lock EXCEPT ![SeatOf[r]] = r]
    /\ queue' = Append(queue, r)
    /\ phase' = [phase EXCEPT ![r] = "read"]
    /\ UNCHANGED <<cache, buffer, wire, saw, reply, faults>>
Acquire(r) ==
    /\ phase[r] = "lock" /\ LockFree(r)
    /\ lock' = [lock EXCEPT ![SeatOf[r]] = r]
    /\ phase' = [phase EXCEPT ![r] = "read"]
    /\ UNCHANGED <<cache, queue, buffer, wire, saw, reply, faults>>

LockBusy(r) ==
    /\ phase[r] = "lock" /\ ~LockFree(r)
    /\ phase' = [phase EXCEPT ![r] = "done"]
    /\ reply' = [reply EXCEPT ![r] = Settled(r, "rejected")]
    /\ UNCHANGED <<redis, buffer, wire, saw, faults>>

\* acquire fails, or its answer is lost: whether or not Redis has set the key,
\* the request holds no lock that it could release.
AcquireFault(r) ==
    /\ Fault
    /\ phase[r] = "lock"
    /\ \/ UNCHANGED lock
       \/ LockFree(r) /\ lock' = [lock EXCEPT ![SeatOf[r]] = r]
    /\ phase' = [phase EXCEPT ![r] = "done"]
    /\ reply' = [reply EXCEPT ![r] = Settled(r, "rejected")]
    /\ UNCHANGED <<cache, queue, buffer, wire, saw>>

\* The request leaves the try block for "finally" with this outcome.
Leaves(r, outcome) ==
    /\ saw' = [saw EXCEPT ![r] = outcome]
    /\ phase' = [phase EXCEPT ![r] = "release"]
    /\ UNCHANGED <<buffer, wire, reply>>

\* The seat's status is read from the database, whatever the cache says now.
ReadAvailable(r) ==
    /\ phase[r] = "read" /\ seatStatus[SeatOf[r]] = "AVAILABLE"
    /\ phase' = [phase EXCEPT ![r] = "enqueue"]
    /\ UNCHANGED <<redis, buffer, wire, saw, reply, faults>>

ReadTaken(r) ==
    /\ phase[r] = "read" /\ seatStatus[SeatOf[r]] \in {"HELD", "OCCUPIED"}
    /\ saw' = [saw EXCEPT ![r] = seatStatus[SeatOf[r]]]
    /\ phase' = [phase EXCEPT ![r] = "mark"]
    /\ UNCHANGED <<redis, buffer, wire, reply, faults>>

ReadNothing(r) ==
    /\ phase[r] = "read" /\ seatStatus[SeatOf[r]] = "GONE"
    /\ Leaves(r, "rejected")
    /\ UNCHANGED <<redis, faults>>

\* The status that was read goes to the cache, whatever it holds now.
WriteStatus(r) == cache' = [cache EXCEPT ![SeatOf[r]] = saw[r]]
PushItem(r) == queue' = Append(queue, r)
WriteHeld(r) == cache' = [cache EXCEPT ![SeatOf[r]] = "HELD"]

Mark(r) ==
    /\ phase[r] = "mark"
    /\ WriteStatus(r)
    /\ Leaves(r, "rejected")
    /\ UNCHANGED <<queue, lock, faults>>

Enqueue(r) ==
    /\ phase[r] = "enqueue"
    /\ PushItem(r)
    /\ phase' = [phase EXCEPT ![r] = "hold"]
    /\ UNCHANGED <<cache, lock, buffer, wire, saw, reply, faults>>

Hold(r) ==
    /\ phase[r] = "hold"
    /\ WriteHeld(r)
    /\ Leaves(r, "accepted")
    /\ UNCHANGED <<queue, lock, faults>>

\* The promise settles only after the release was awaited.
Finish(r) ==
    /\ phase[r] = "release"
    /\ phase' = [phase EXCEPT ![r] = "done"]
    /\ reply' = [reply EXCEPT ![r] = Settled(r, saw[r])]
    /\ UNCHANGED <<cache, queue, buffer, wire, saw>>

\* The release deletes the lock only if it still holds the request's token.
FreeLock(r) == lock' = [lock EXCEPT ![SeatOf[r]] = IF @ = r THEN NoReq ELSE @]
Release(r) == Finish(r) /\ FreeLock(r) /\ UNCHANGED faults

\* What the lock protects, and the commands in it that write.
Protected == {"read", "mark", "enqueue", "hold"}
TakesEffect(r) ==
    \/ phase[r] = "mark" /\ WriteStatus(r) /\ UNCHANGED <<queue, lock>>
    \/ phase[r] = "enqueue" /\ PushItem(r) /\ UNCHANGED <<cache, lock>>
    \/ phase[r] = "hold" /\ WriteHeld(r) /\ UNCHANGED <<queue, lock>>

\* A Redis or database error at any await after the lock was acquired: the
\* request is rejected, whether or not the command took effect.
SlowFault(r) ==
    /\ Fault
    /\ \/ phase[r] \in Protected /\ UNCHANGED redis
       \/ TakesEffect(r)
    /\ Leaves(r, "rejected")

\* The connection breaks after the command took effect, and ioredis sends it
\* again.
SlowResend(r) ==
    /\ Fault
    /\ \/ TakesEffect(r)
       \/ phase[r] = "release" /\ FreeLock(r) /\ UNCHANGED <<cache, queue>>
    /\ UNCHANGED local

\* A failed release is only logged: the lock stays until it expires.
ReleaseFault(r) == Fault /\ Finish(r) /\ UNCHANGED lock

\* The next await of the slow path of r.
SlowStep(r) ==
    \/ Acquire(r) \/ LockBusy(r)
    \/ ReadAvailable(r) \/ ReadTaken(r) \/ ReadNothing(r)
    \/ Mark(r) \/ Enqueue(r) \/ Hold(r) \/ Release(r)

-----------------------------------------------------------------------------
(***************************************************************************)
(* Time-outs of Redis keys, and the end of a process.                      *)
(***************************************************************************)
KeyExpire(s) ==
    /\ "key" \in Expiring /\ cache[s] # "MISSING"
    /\ cache' = [cache EXCEPT ![s] = "MISSING"]
    /\ UNCHANGED <<queue, lock, local, faults>>

LockExpire(s) ==
    /\ "lock" \in Expiring /\ lock[s] # NoReq
    /\ lock' = [lock EXCEPT ![s] = NoReq]
    /\ UNCHANGED <<cache, queue, local, faults>>

\* The buffer, the pipelines and the slow paths of p end without an answer.
Crash(p) ==
    LET open == {r \in Requests : HomeOf[r] = p /\ phase[r] \notin {"new", "done"}} IN
    /\ Fault
    /\ buffer' = [buffer EXCEPT ![p] = <<>>]
    /\ wire' = [wire EXCEPT ![p] = <<>>]
    /\ phase' = Moved(open, "done")
    /\ reply' = [r \in Requests |-> IF r \in open THEN Settled(r, "lost") ELSE reply[r]]
    /\ UNCHANGED <<redis, saw>>

-----------------------------------------------------------------------------
\* What a process does for its requests, and what may befall it.
Serve(p) ==
    \/ Flush(p) \/ RunCommand(p) \/ HandleScripts(p) \/ HandlePushes(p)
    \/ \E r \in Requests : HomeOf[r] = p /\ (Submit(r) \/ SlowStep(r))

Disturb(p) ==
    \/ CommandFails(p) \/ ExecRejected(p)
    \/ \E r \in Requests :
          /\ HomeOf[r] = p
          /\ AcquireFault(r) \/ SlowFault(r) \/ SlowResend(r) \/ ReleaseFault(r)

Expire(s) == KeyExpire(s) \/ LockExpire(s)
=============================================================================
