----------------------------- MODULE SeatLedger -----------------------------
(***************************************************************************)
(* What the reservation tables promise about a seat, whatever the number   *)
(* of server processes, transactions and failures behind them: a seat is   *)
(* given to at most one reservation in its whole life, a seat is marked    *)
(* taken only together with the reservation that takes it, and a seat      *)
(* with a reservation is never deleted.  ReservationStore implements it.   *)
(***************************************************************************)
CONSTANTS Seats,         \* the seats of every performance
          Reservations,  \* the reservation ids
          SeatOf,        \* the seat a reservation is for
          NoOne          \* not a reservation

VARIABLES state,   \* AVAILABLE, HELD, OCCUPIED, or GONE once deleted
          holder   \* the one reservation the seat was ever given to

vars == <<state, holder>>

Init ==
    /\ state = [s \in Seats |-> "AVAILABLE"]
    /\ holder = [s \in Seats |-> NoOne]

\* A queued reservation becomes the holder of a seat nobody ever held.
Book(r) ==
    /\ state[SeatOf[r]] = "AVAILABLE"
    /\ holder[SeatOf[r]] = NoOne
    /\ state' = [state EXCEPT ![SeatOf[r]] = "HELD"]
    /\ holder' = [holder EXCEPT ![SeatOf[r]] = r]

\* The holder pays, or gives the seat back: the seat keeps its holder.
Settle(s, outcome) ==
    /\ holder[s] # NoOne
    /\ state' = [state EXCEPT ![s] = outcome]
    /\ UNCHANGED holder

\* Seats nobody ever held disappear with their performance.
Remove(gone) ==
    /\ \A s \in gone : holder[s] = NoOne
    /\ state' = [s \in Seats |-> IF s \in gone THEN "GONE" ELSE state[s]]
    /\ UNCHANGED holder

Next ==
    \/ \E r \in Reservations : Book(r)
    \/ \E s \in Seats, outcome \in {"OCCUPIED", "AVAILABLE"} : Settle(s, outcome)
    \/ \E gone \in SUBSET Seats : Remove(gone)

Spec == Init /\ [][Next]_vars
=============================================================================
