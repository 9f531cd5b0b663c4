----------------------- MODULE AvailabilitySyncProofs -----------------------
(***************************************************************************)
(* What the runs of the counter job write, for any seats, performances,    *)
(* number of overlapping runs, edits, deletions and failing updates.       *)
(***************************************************************************)
EXTENDS AvailabilitySync, FiniteSetTheorems, TLAPS

USE SyncAssumption

-----------------------------------------------------------------------------
(***************************************************************************)
(* The updates a run has still to do.  Each is for a performance that had  *)
(* a free seat when the run read the seats, so its count lies between one  *)
(* and the number of the seats of that performance.                        *)
(***************************************************************************)
RealCount(p) == 1..Cardinality(SeatsOf(p))

Updates == UNION {[D -> 1..Cardinality(Seats)] : D \in SUBSET Performances}

CountsOK ==
    /\ availableSeats \in [Performances -> Int]
    /\ \A p \in Performances :
          availableSeats[p] \in OrganiserCounts \cup RealCount(p)

IInv ==
    /\ TypeOK
    /\ counts \in [Jobs -> Updates]
    /\ \A j \in Jobs : \A p \in DOMAIN counts[j] : counts[j][p] \in RealCount(p)

\* A set of seats is counted by a natural number, at most that of all seats.
LEMMA SeatCounts ==
    ASSUME NEW S \in SUBSET Seats, NEW T \in SUBSET S
    PROVE  /\ Cardinality(S) \in Nat /\ Cardinality(T) \in Nat
           /\ Cardinality(T) <= Cardinality(S)
           /\ T # {} => Cardinality(T) >= 1
<1>1. IsFiniteSet(S)
  BY FS_Subset
<1>2. IsFiniteSet(T)
  BY <1>1, FS_Subset
<1>3. Cardinality(T) <= Cardinality(S)
  BY <1>1, FS_Subset
<1>4. Cardinality(S) \in Nat /\ Cardinality(T) \in Nat
  BY <1>1, <1>2, FS_CardinalityType
<1>5. T # {} => Cardinality(T) # 0
  BY <1>2, FS_EmptySet
<1> QED
  BY <1>3, <1>4, <1>5

\* The query counts at least one and at most every seat of a performance.
LEMMA GroupsAreReal ==
    /\ Groups \in Updates
    /\ \A p \in DOMAIN Groups : p \in Performances /\ Groups[p] \in RealCount(p)
<1>1. ASSUME NEW p \in Performances, Free(p) # {}
      PROVE  /\ Cardinality(Free(p)) \in RealCount(p)
             /\ Cardinality(Free(p)) \in 1..Cardinality(Seats)
  <2>1. SeatsOf(p) \in SUBSET Seats /\ Free(p) \in SUBSET SeatsOf(p)
    BY DEF SeatsOf, Free
  <2>2. Free(p) \in SUBSET Seats
    BY <2>1
  <2>3. Seats \in SUBSET Seats
    OBVIOUS
  <2>4. Cardinality(SeatsOf(p)) \in Nat /\ Cardinality(Free(p)) \in Nat
        /\ Cardinality(Free(p)) <= Cardinality(SeatsOf(p)) /\ Cardinality(Free(p)) >= 1
    BY <1>1, <2>1, SeatCounts
  <2>5. Cardinality(Seats) \in Nat /\ Cardinality(Free(p)) <= Cardinality(Seats)
    BY <2>2, <2>3, SeatCounts
  <2> QED
    BY <2>4, <2>5 DEF RealCount
<1> DEFINE D == {q \in Performances : Free(q) # {}}
<1>2. Groups = [p \in D |-> Cardinality(Free(p))]
  BY DEF Groups
<1>3. D \in SUBSET Performances /\ \A p \in D : p \in Performances /\ Free(p) # {}
  OBVIOUS
<1> HIDE DEF D
<1>4. Groups \in [D -> 1..Cardinality(Seats)]
  BY <1>1, <1>2, <1>3
<1>5. Groups \in Updates
  BY <1>3, <1>4 DEF Updates
<1> QED
  BY <1>1, <1>2, <1>3, <1>5

\* What is left of the updates when one of them is done.
LEMMA DoneLeavesReal ==
    ASSUME IInv, NEW j \in Jobs, NEW p \in Performances, Done(j, p)
    PROVE  /\ counts' \in [Jobs -> Updates]
           /\ \A i \in Jobs : \A q \in DOMAIN counts'[i] : counts'[i][q] \in RealCount(q)
<1> DEFINE c == counts[j]
           rest == DOMAIN c \ {p}
<1>1. PICK D \in SUBSET Performances : c \in [D -> 1..Cardinality(Seats)]
  BY DEF IInv, Updates
<1>2. rest \in SUBSET Performances /\ Restrict(c, rest) \in [rest -> 1..Cardinality(Seats)]
      /\ \A q \in rest : Restrict(c, rest)[q] = c[q]
  BY <1>1 DEF Restrict
<1>3. Restrict(c, rest) \in Updates
  BY <1>2 DEF Updates
<1>4. counts' = [counts EXCEPT ![j] = Restrict(c, rest)]
  BY DEF Done
<1>5. \A q \in rest : c[q] \in RealCount(q)
  BY DEF IInv
<1> HIDE DEF c, rest
<1> QED
  BY <1>2, <1>3, <1>4, <1>5 DEF IInv

-----------------------------------------------------------------------------
(***************************************************************************)
(* The invariant.                                                          *)
(***************************************************************************)
LEMMA InitReal == Init => IInv
<1> SUFFICES ASSUME Init PROVE IInv
  OBVIOUS
<1>1. NoUpdates \in Updates /\ DOMAIN NoUpdates = {}
  <2>1. NoUpdates \in [{} -> 1..Cardinality(Seats)] /\ {} \in SUBSET Performances
    BY DEF NoUpdates
  <2> QED
    BY <2>1 DEF Updates, NoUpdates
<1>2. counts = [j \in Jobs |-> NoUpdates]
  BY DEF Init
<1>3. TypeOK
  <2>1. /\ availableSeats \in [Performances -> Int]
        /\ \A p \in Performances : availableSeats[p] \in OrganiserCounts
    BY DEF Init
  <2>2. \A j \in Jobs : counts[j] \in [DOMAIN counts[j] -> 1..Cardinality(Seats)]
    BY <1>2 DEF NoUpdates
  <2> QED
    BY <2>1, <2>2 DEF Init, Ledger!Init, TypeOK
<1> QED
  BY <1>1, <1>2, <1>3 DEF IInv

\* The seats change as the ledger allows.
LEMMA SeatTypes ==
    ASSUME TypeOK, Ledger!Next
    PROVE  /\ state' \in [Seats -> {"AVAILABLE", "HELD", "OCCUPIED", "GONE"}]
           /\ holder' \in [Seats -> Reservations \cup {NoOne}]
BY DEF TypeOK, Ledger!Next, Ledger!Book, Ledger!Settle, Ledger!Remove

\* Every step keeps the counts that are still to be written real.
LEMMA StepReal == IInv /\ [Next]_vars => IInv'
<1> SUFFICES ASSUME IInv, [Next]_vars PROVE IInv'
  OBVIOUS
<1>1. Cardinality(Seats) \in Nat
  BY FS_CardinalityType
<1>2. ASSUME UNCHANGED counts, TypeOK'
      PROVE  IInv'
  BY <1>2 DEF IInv, RealCount, SeatsOf
<1>3. CASE ChangeSeat
  <2>1. Ledger!Next
    BY <1>3 DEF ChangeSeat, Ledger!Next
  <2>2. changes' \in 0..MaxChanges
    BY <1>3 DEF ChangeSeat, Change, IInv, TypeOK
  <2> QED
    BY <1>2, <1>3, <2>1, <2>2, SeatTypes DEF ChangeSeat, IInv, TypeOK
<1>4. ASSUME NEW p \in Performances, DeletePerformance(p)
      PROVE  IInv'
  <2>1. Ledger!Next
    BY <1>4 DEF DeletePerformance, Ledger!Next, SeatsOf
  <2>2. changes' \in 0..MaxChanges
    BY <1>4 DEF DeletePerformance, Change, IInv, TypeOK
  <2> QED
    BY <1>2, <1>4, <2>1, <2>2, SeatTypes DEF DeletePerformance, IInv, TypeOK
<1>5. ASSUME NEW p \in Performances, NEW count \in OrganiserCounts,
             EditPerformance(p, count)
      PROVE  IInv'
  <2>1. changes' \in 0..MaxChanges
    BY <1>5 DEF EditPerformance, Change, IInv, TypeOK
  <2>2. CountsOK'
    BY <1>5 DEF EditPerformance, IInv, TypeOK, CountsOK, RealCount, SeatsOf
  <2> QED
    BY <1>2, <1>5, <2>1, <2>2 DEF EditPerformance, IInv, TypeOK, CountsOK, RealCount
<1>6. ASSUME counts' \in [Jobs -> Updates],
             \A j \in Jobs : \A q \in DOMAIN counts'[j] : counts'[j][q] \in RealCount(q),
             UNCHANGED <<state, holder, exists, changes>>,
             CountsOK',
             faults' \in 0..MaxFaults
      PROVE  IInv'
  <2>1. ASSUME NEW j \in Jobs
        PROVE  counts'[j] \in [DOMAIN counts'[j] -> 1..Cardinality(Seats)]
    <3>1. PICK D \in SUBSET Performances : counts'[j] \in [D -> 1..Cardinality(Seats)]
      BY <1>6 DEF Updates
    <3> QED
      BY <3>1
  <2> QED
    BY <1>6, <2>1 DEF IInv, TypeOK, RealCount, SeatsOf, CountsOK
<1>7. ASSUME NEW j \in Jobs, Read(j)
      PROVE  IInv'
  <2>1. counts' = [counts EXCEPT ![j] = Groups]
    BY <1>7 DEF Read
  <2>2. /\ counts' \in [Jobs -> Updates]
        /\ \A i \in Jobs : \A q \in DOMAIN counts'[i] : counts'[i][q] \in RealCount(q)
    BY <2>1, GroupsAreReal DEF IInv
  <2> QED
    BY <1>6, <1>7, <2>2 DEF Read, IInv, TypeOK, CountsOK, RealCount, SeatsOf
<1>8. ASSUME NEW j \in Jobs, NEW p \in Performances, Write(j, p)
      PROVE  IInv'
  <2>1. counts[j][p] \in 1..Cardinality(SeatsOf(p)) /\ counts[j][p] \in Int
    BY <1>1, <1>8 DEF Write, IInv, TypeOK, RealCount
  <2>2. CountsOK'
    BY <1>8, <2>1 DEF Write, IInv, TypeOK, CountsOK, RealCount, SeatsOf
  <2> QED
    BY <1>6, <1>8, <2>2, DoneLeavesReal DEF Write, IInv, TypeOK
<1>9. ASSUME NEW j \in Jobs, NEW p \in Performances, WriteFails(j, p)
      PROVE  IInv'
  <2>1. faults' \in 0..MaxFaults
    BY <1>9 DEF WriteFails, IInv, TypeOK
  <2> QED
    BY <1>6, <1>9, <2>1, DoneLeavesReal DEF WriteFails, IInv, TypeOK, CountsOK, RealCount, SeatsOf
<1>10. CASE UNCHANGED vars
  BY <1>10 DEF vars, IInv, TypeOK, RealCount, SeatsOf
<1> QED
  BY <1>3, <1>4, <1>5, <1>7, <1>8, <1>9, <1>10 DEF Next

\* So they are real in every state.
LEMMA RealHolds == Spec => []IInv
BY InitReal, StepReal, PTL DEF Spec

\* Every variable keeps its type: a count is one that an organiser may send or
\* one that the seats of its performance can have, from one to all of them.
THEOREM TypeCorrect == Spec => []TypeOK
<1>1. IInv => TypeOK
  BY DEF IInv
<1> QED
  BY <1>1, RealHolds, PTL

\* However many runs overlap and however late their updates arrive, the job
\* writes only counts the performance's seats can have, never 0, and never to
\* a deleted performance.
THEOREM OnlyRealCounts == Spec => RunsWriteRealCounts
<1> DEFINE Writes(p) ==
              availableSeats'[p] # availableSeats[p] =>
                 /\ p \in exists
                 /\ \/ availableSeats'[p] \in 1..Cardinality(SeatsOf(p))
                    \/ \E count \in OrganiserCounts : EditPerformance(p, count)
<1>1. ASSUME IInv, [Next]_vars, NEW p \in Performances
      PROVE  Writes(p)
  <2>1. ASSUME NEW q \in Performances, NEW count \in OrganiserCounts,
               EditPerformance(q, count)
        PROVE  Writes(p)
    <3>1. q \in exists /\ availableSeats' = [availableSeats EXCEPT ![q] = count]
      BY <2>1 DEF EditPerformance
    <3>2. p # q => availableSeats'[p] = availableSeats[p]
      BY <1>1, <3>1 DEF IInv, TypeOK
    <3> QED
      BY <2>1, <3>1, <3>2
  <2>2. ASSUME NEW j \in Jobs, NEW q \in Performances, Write(j, q)
        PROVE  Writes(p)
    <3>1. counts[j][q] \in RealCount(q)
      BY <1>1, <2>2 DEF Write, IInv
    <3>2. \/ UNCHANGED availableSeats
          \/ q \in exists /\ availableSeats' = [availableSeats EXCEPT ![q] = counts[j][q]]
      BY <2>2 DEF Write
    <3>3. p # q => availableSeats'[p] = availableSeats[p]
      BY <1>1, <3>2 DEF IInv, TypeOK
    <3>4. p = q => availableSeats'[p] \in {availableSeats[p], counts[j][q]}
      BY <1>1, <3>2 DEF IInv, TypeOK
    <3> QED
      BY <3>1, <3>2, <3>3, <3>4 DEF RealCount
  <2>3. CASE UNCHANGED availableSeats
    BY <2>3
  <2> QED
    BY <1>1, <2>1, <2>2, <2>3
       DEF Next, ChangeSeat, DeletePerformance, Read, WriteFails, vars
<1>2. IInv /\ [Next]_vars => [\A p \in Performances : Writes(p)]_vars
  BY <1>1
<1> QED
  BY <1>2, RealHolds, PTL DEF Spec, RunsWriteRealCounts
=============================================================================
