----------------------- MODULE MCReservationScheduler -----------------------
(***************************************************************************)
(* Small instances of ReservationScheduler: every request is for s1.       *)
(***************************************************************************)
EXTENDS ReservationScheduler
CONSTANTS s1
MCSeatOf == [r \in Requests |-> s1]
=============================================================================
