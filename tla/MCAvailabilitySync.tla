------------------------- MODULE MCAvailabilitySync -------------------------
(* A performance with two seats and one with a single seat, a reservation  *)
(* for each seat; organisers who send a negative count or one too large.   *)
EXTENDS AvailabilitySync

CONSTANTS s1, s2, s3, r1, r2, r3, p1, p2

MCPerformanceOf == [s \in {s1, s2, s3} |-> IF s = s3 THEN p2 ELSE p1]
MCSeatOf == [r \in {r1, r2, r3} |-> CASE r = r1 -> s1 [] r = r2 -> s2 [] r = r3 -> s3]
MCOrganiserCounts == {-1, 0, 5}
=============================================================================
