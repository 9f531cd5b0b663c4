-------------------------- MODULE AvailabilitySync --------------------------
(***************************************************************************)
(* Performance.availableSeats, the denormalised count of free seats, and   *)
(* the job that refreshes it every five seconds in every process (handle-  *)
(* SeatSync, syncAvailableSeats): one aggregate query, then one update per *)
(* performance, all at once.  The interval does not wait for the previous  *)
(* run, so runs overlap, in one process as well as between processes.      *)
(* The seats change as SeatLedger allows, which ReservationStore           *)
(* implements.                                                             *)
(***************************************************************************)
EXTENDS Integers, FiniteSets, Functions

CONSTANTS Seats, Performances, PerformanceOf, Reservations, SeatOf, NoOne,
          OrganiserCounts,  \* values of availableSeats that organisers send
          Jobs,        \* runs of the job that may overlap
          MaxChanges,  \* bound on changes of seats, edits and deletions
          MaxFaults    \* bound on failing updates

ASSUME SyncAssumption ==
    /\ IsFiniteSet(Seats)
    /\ PerformanceOf \in [Seats -> Performances]
    /\ SeatOf \in [Reservations -> Seats]
    /\ OrganiserCounts \subseteq Int
    /\ 0 \in OrganiserCounts             \* @default(0)
    /\ MaxChanges \in Nat
    /\ MaxFaults \in Nat

VARIABLES state, holder,   \* the seats, as in SeatLedger
          availableSeats,  \* Performance.availableSeats
          exists,          \* the performances not deleted
          counts,          \* updates each run has still to do: [p |-> count]
          changes, faults

Ledger == INSTANCE SeatLedger

vars == <<state, holder, availableSeats, exists, counts, changes, faults>>

SeatsOf(p) == {s \in Seats : PerformanceOf[s] = p}
Free(p) == {s \in SeatsOf(p) : state[s] = "AVAILABLE"}

TypeOK ==
    /\ state \in [Seats -> {"AVAILABLE", "HELD", "OCCUPIED", "GONE"}]
    /\ holder \in [Seats -> Reservations \cup {NoOne}]
    /\ availableSeats \in [Performances -> Int]
    /\ \A p \in Performances :
          availableSeats[p] \in OrganiserCounts \cup 1..Cardinality(SeatsOf(p))
    /\ exists \subseteq Performances
    /\ \A j \in Jobs : counts[j] \in [DOMAIN counts[j] -> 1..Cardinality(Seats)]
    /\ changes \in 0..MaxChanges
    /\ faults \in 0..MaxFaults

NoUpdates == [p \in {} |-> 0]

\* CreatePerformanceDto asks for a number, if it is there at all.
Init ==
    /\ Ledger!Init
    /\ availableSeats \in [Performances -> OrganiserCounts]
    /\ exists = Performances
    /\ counts = [j \in Jobs |-> NoUpdates]
    /\ changes = 0
    /\ faults = 0

Change == changes < MaxChanges /\ changes' = changes + 1

\* A worker books a seat, or its reservation is confirmed or cancelled.
ChangeSeat ==
    /\ Change
    /\ \/ \E r \in Reservations : Ledger!Book(r)
       \/ \E s \in Seats, outcome \in {"OCCUPIED", "AVAILABLE"} :
             Ledger!Settle(s, outcome)
    /\ UNCHANGED <<availableSeats, exists, counts, faults>>

\* A performance without reservations is deleted with its seats.
DeletePerformance(p) ==
    /\ Change
    /\ p \in exists
    /\ Ledger!Remove(SeatsOf(p))
    /\ exists' = exists \ {p}
    /\ UNCHANGED <<availableSeats, counts, faults>>

\* PerformanceService.update writes the number the organiser sends, also one
\* that the seats cannot have; totalSeats, startAt and eventId have no part in
\* the job.
EditPerformance(p, count) ==
    /\ Change
    /\ p \in exists
    /\ availableSeats' = [availableSeats EXCEPT ![p] = count]
    /\ UNCHANGED <<state, holder, exists, counts, faults>>

\* GROUP BY performanceId WHERE status = 'AVAILABLE': a performance without a
\* free seat has no group.
GroupsOfAll ==                           \* mutant: no WHERE clause
    [p \in Performances |-> Cardinality(SeatsOf(p))]
Groups ==
    [p \in {q \in Performances : Free(q) # {}} |-> Cardinality(Free(p))]

Read(j) ==
    /\ counts[j] = NoUpdates
    /\ counts' = [counts EXCEPT ![j] = Groups]
    /\ UNCHANGED <<state, holder, availableSeats, exists, changes, faults>>

\* The updates of a run are done in any order.
Done(j, p) ==
    counts' = [counts EXCEPT ![j] = Restrict(@, DOMAIN @ \ {p})]

WriteAdds(j, p) ==                       \* mutant: increments by the count
    /\ p \in DOMAIN counts[j]
    /\ Done(j, p)
    /\ availableSeats' = [availableSeats EXCEPT ![p] = @ + counts[j][p]]
    /\ UNCHANGED <<state, holder, exists, changes, faults>>
Write(j, p) ==
    /\ p \in DOMAIN counts[j]
    /\ Done(j, p)
    /\ availableSeats' = IF p \in exists
                         THEN [availableSeats EXCEPT ![p] = counts[j][p]]
                         ELSE availableSeats
    /\ UNCHANGED <<state, holder, exists, changes, faults>>

\* Promise.allSettled: a failing update is skipped.
WriteFails(j, p) ==
    /\ faults < MaxFaults /\ faults' = faults + 1
    /\ p \in DOMAIN counts[j]
    /\ Done(j, p)
    /\ UNCHANGED <<state, holder, availableSeats, exists, changes>>

Next ==
    \/ ChangeSeat
    \/ \E p \in Performances :
          \/ DeletePerformance(p)
          \/ \E count \in OrganiserCounts : EditPerformance(p, count)
    \/ \E j \in Jobs :
          \/ Read(j)
          \/ \E p \in Performances : Write(j, p) \/ WriteFails(j, p)

\* The interval fires for ever, and every update that was sent is answered.
Fairness ==
    \A j \in Jobs :
        WF_vars(Read(j)) /\ \A p \in Performances : WF_vars(Write(j, p))

Spec == Init /\ [][Next]_vars /\ Fairness

-----------------------------------------------------------------------------
\* The work log: the count is eventually consistent.  Once the seats of a
\* performance stop changing, and one of them is free, the count becomes
\* right and stays so, although overlapping runs write counts that are out
\* of date, organisers overwrite it, and updates fail.
CountConverges ==
    \A p \in Performances :
        <>[](p \in exists /\ Free(p) # {} => availableSeats[p] = Cardinality(Free(p)))

\* A run writes a count that the seats of its performance can have, and none to
\* a deleted performance, however old what it read is: every other change is an
\* organiser's.  A run never writes 0.
RunsWriteRealCounts ==
    [][\A p \in Performances : availableSeats'[p] # availableSeats[p] =>
          /\ p \in exists
          /\ \/ availableSeats'[p] \in 1..Cardinality(SeatsOf(p))
             \/ \E count \in OrganiserCounts : EditPerformance(p, count)]_vars

\* Doc claim, violated: the count is refreshed from the real status of the
\* seats, also when the last seat is sold.
SoldOutIsShown ==
    \A p \in Performances :
        p \in exists /\ Free(p) = {} ~> p \notin exists \/ Free(p) # {} \/ availableSeats[p] = 0
=============================================================================
