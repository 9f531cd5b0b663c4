------------------------- MODULE MCReservationStore -------------------------
(* One performance with two seats, and two reservations for the same seat. *)
EXTENDS ReservationStore

CONSTANTS s1, s2, r1, r2, p1

MCPerformanceOf == [s \in {s1, s2} |-> p1]
MCSeatOf == [r \in {r1, r2} |-> s1]
=============================================================================
