----------------------------- MODULE MCFastPass -----------------------------
(* Requests for one seat: two on one process, the third on the other.      *)
EXTENDS FastPass

CONSTANTS s1, r1, r2, r3, p1, p2, perf

MCPerformanceOf == [s \in {s1} |-> perf]
MCSeatOf == [r \in Requests |-> s1]
MCHomeOf == [r \in Requests |-> IF r = r3 THEN p2 ELSE p1]
=============================================================================
