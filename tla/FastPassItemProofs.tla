------------------------- MODULE FastPassItemProofs -------------------------
(***************************************************************************)
(* Where the item of every request is, for any seats, requests, processes  *)
(* and handlers: the types of FastPass; what holds of every behaviour      *)
(* without an error, that an accepted request is kept, a rejected one      *)
(* leaves nothing behind and a hold has an owner; and that an error costs  *)
(* one accepted reservation at most.                                       *)
(***************************************************************************)
EXTENDS FastPassProofs

-----------------------------------------------------------------------------
(***************************************************************************)
(* Places.  A request is in at most one place of its process: in its       *)
(* buffer once, or behind one command of one of its pipelines.             *)
(***************************************************************************)
Rider(p, k, i) == wire[p][k].batch[i]

InBuffer ==
    \A p \in Procs : \A i \in DOMAIN buffer[p] :
        /\ phase[buffer[p][i]] = "buffered" /\ HomeOf[buffer[p][i]] = p
        /\ \A j \in DOMAIN buffer[p] : buffer[p][i] = buffer[p][j] => i = j

OnWire ==
    \A p \in Procs : \A k \in DOMAIN wire[p] : \A i \in wire[p][k].cmds :
        /\ phase[Rider(p, k, i)] = "piped" /\ HomeOf[Rider(p, k, i)] = p
        /\ \A l \in DOMAIN wire[p] : \A j \in wire[p][l].cmds :
              Rider(p, k, i) = Rider(p, l, j) => k = l /\ i = j

\* A pipeline of scripts serves its whole batch.
ScriptsWhole ==
    \A p \in Procs : \A k \in DOMAIN wire[p] :
        wire[p][k].kind = "script" => wire[p][k].cmds = DOMAIN wire[p][k].batch

\* The other variables, and the last result where the next await relies on it.
LocalTypes ==
    /\ cache \in [Seats -> Intake!CacheStates]
    /\ lock \in [Seats -> Requests \cup {NoReq}]
    /\ phase \in [Requests -> Intake!Phases]
    /\ saw \in [Requests -> {"none", "OK", "FAIL", "MISS", "ERR", "HELD",
                             "OCCUPIED", "accepted", "rejected"}]
    /\ reply \in [Requests -> {"none", "accepted", "rejected", "lost"}]
    /\ faults \in 0..MaxFaults
    /\ \A r \in Requests :
          /\ phase[r] = "mark" => saw[r] \in {"HELD", "OCCUPIED"}
          /\ phase[r] = "release" => saw[r] \in {"accepted", "rejected"}

Places == InBuffer /\ OnWire /\ ScriptsWhole /\ LocalTypes
PlaceInv == OnTheWay /\ Places

-----------------------------------------------------------------------------
(***************************************************************************)
(* Records.  As long as nothing failed, how far a request got says whether *)
(* there is an item or a row of it.                                        *)
(***************************************************************************)
OnRecord == {r \in Requests : Queued(r) \/ InHand(r) \/ HasRow(r) \/ r \in dropped}

PhaseRecord(r) ==
    /\ phase[r] \in {"new", "buffered"} => saw[r] = "none"
    /\ phase[r] \in {"new", "buffered", "lock", "read", "mark", "enqueue"} => r \notin OnRecord
    /\ phase[r] = "hold" => r \in OnRecord
    /\ phase[r] = "release" => (r \in OnRecord <=> saw[r] = "accepted")
    /\ phase[r] = "done" => (r \in OnRecord <=> reply[r] = "accepted")
    /\ phase[r] # "done" => reply[r] = "none"
    /\ r \in OnRecord => phase[r] = "hold" \/ saw[r] \in {"OK", "accepted"}

\* A script that has not run gave no result; what is pushed got OK.
WireRecord(p, k, i) ==
    /\ wire[p][k].kind = "script" =>
          /\ Rider(p, k, i) \notin OnRecord
          /\ i >= wire[p][k].next => saw[Rider(p, k, i)] = "none"
    /\ wire[p][k].kind = "push" =>
          /\ saw[Rider(p, k, i)] = "OK"
          /\ Rider(p, k, i) \in OnRecord <=> i < wire[p][k].next

Records ==
    /\ \A r \in Requests : PhaseRecord(r)
    /\ \A p \in Procs : \A k \in DOMAIN wire[p] : \A i \in wire[p][k].cmds :
          WireRecord(p, k, i)

\* A hold belongs to a request with a record or about to be pushed, or to
\* nobody because the seat is taken or gone.
Accounted(s) ==
    \/ Taken(s)
    \/ \E r \in Requests : /\ SeatOf[r] = s
                           /\ r \in OnRecord \/ (phase[r] = "piped" /\ saw[r] = "OK")

Holds ==
    /\ \A s \in Seats : cache[s] = "HELD" => Accounted(s)
    /\ \A r \in Requests : phase[r] = "mark" /\ saw[r] = "HELD" => Taken(SeatOf[r])
    /\ \A s \in Seats : <<s, "HELD">> \in warming => Taken(s)

-----------------------------------------------------------------------------
(***************************************************************************)
(* What each step does to the pipelines: which one is where afterwards.    *)
(***************************************************************************)
\* The pipelines of a process hold requests.
LEMMA WireTypes ==
    ASSUME OnTheWay, NEW p \in Procs, NEW k \in DOMAIN wire[p]
    PROVE  /\ wire[p] \in Seq(Piped) /\ Len(wire[p]) \in Nat
           /\ DOMAIN wire[p] = 1..Len(wire[p]) /\ k \in Nat /\ k >= 1
           /\ wire[p][k] \in Piped
           /\ wire[p][k].kind \in {"script", "push"}
           /\ wire[p][k].next \in Nat
           /\ wire[p][k].batch \in Seq(Requests)
           /\ wire[p][k].cmds \subseteq DOMAIN wire[p][k].batch
           /\ \A i \in DOMAIN wire[p][k].batch :
                 i \in Nat /\ i >= 1 /\ Rider(p, k, i) \in Requests
<1>1. wire[p] \in Seq(Piped)
  BY DEF OnTheWay
<1>2. Len(wire[p]) \in Nat /\ DOMAIN wire[p] = 1..Len(wire[p])
  BY <1>1, LenProperties
<1>3. wire[p][k] \in Piped
  BY <1>1, <1>2, ElementOfSeq
<1>4. wire[p][k].batch \in Seq(Requests)
  BY <1>3 DEF Piped, Intake!Pipeline
<1>5. \A i \in DOMAIN wire[p][k].batch : i \in Nat /\ i >= 1 /\ wire[p][k].batch[i] \in Requests
  BY <1>4, ElementOfSeq, LenProperties
<1> QED
  BY <1>1, <1>2, <1>3, <1>4, <1>5 DEF Piped, Intake!Pipeline, Rider

\* A new pipeline is the last of its process.
LEMMA AppendedWire ==
    ASSUME OnTheWay, NEW p \in Procs, NEW c,
           wire' = [wire EXCEPT ![p] = Append(@, c)],
           NEW q \in Procs, NEW k \in DOMAIN wire'[q]
    PROVE  \/ k \in DOMAIN wire[q] /\ wire'[q][k] = wire[q][k]
           \/ q = p /\ k = Len(wire[p]) + 1 /\ wire'[q][k] = c
<1>1. wire[p] \in Seq(Piped)
  BY DEF OnTheWay
<1>2. wire'[q] = IF q = p THEN Append(wire[p], c) ELSE wire[q]
  BY DEF OnTheWay
<1> QED
  BY <1>1, <1>2

\* An answer changes the position of one pipeline.
Answers(p, k, i) == wire' = [wire EXCEPT ![p][k].next = i + 1]
Advances(p, k, i, q, l) ==
    /\ l \in DOMAIN wire[q]
    /\ wire'[q][l].kind = wire[q][l].kind
    /\ wire'[q][l].batch = wire[q][l].batch
    /\ wire'[q][l].cmds = wire[q][l].cmds
    /\ wire'[q][l].next = IF q = p /\ l = k THEN i + 1 ELSE wire[q][l].next

\* The other pipelines, and the batch and commands of this one, stay.
LEMMA AnsweredWire ==
    ASSUME OnTheWay, NEW p \in Procs, NEW k \in DOMAIN wire[p],
           NEW i \in wire[p][k].cmds, Answers(p, k, i),
           NEW q \in Procs, NEW l \in DOMAIN wire'[q]
    PROVE  Advances(p, k, i, q, l)
<1> USE DEF Answers, Advances
<1>1. wire[q] \in Seq(Piped) /\ wire[p] \in Seq(Piped) /\ wire[p][k] \in Piped
  BY WireTypes DEF OnTheWay
<1>2. wire' = [wire EXCEPT ![p] = [wire[p] EXCEPT ![k] =
                                     [wire[p][k] EXCEPT !.next = i + 1]]]
  BY DEF OnTheWay
<1>3. l \in DOMAIN wire[q]
  <2>1. DOMAIN wire'[q] = DOMAIN wire[q]
    BY <1>1, <1>2 DEF OnTheWay
  <2> QED
    BY <2>1
<1>4. wire'[q][l] = IF q = p /\ l = k THEN [wire[p][k] EXCEPT !.next = i + 1]
                                      ELSE wire[q][l]
  BY <1>1, <1>2, <1>3 DEF OnTheWay
<1>5. CASE q = p /\ l = k
  <2>1. wire'[q][l] = [wire[p][k] EXCEPT !.next = i + 1]
    BY <1>4, <1>5
  <2> QED
    BY <1>1, <1>3, <1>5, <2>1 DEF Piped, Intake!Pipeline
<1>6. CASE ~(q = p /\ l = k)
  BY <1>3, <1>4, <1>6
<1> QED
  BY <1>5, <1>6

\* The oldest pipeline of p is handled, and more follows from it.
Handles(p, more) == /\ wire[p] # <<>> /\ more \in Seq(Piped)
                    /\ wire' = [wire EXCEPT ![p] = Tail(@) \o more]

\* The others move up, and what follows comes last.
MovesUp(p, more, q, k) ==
    \/ q # p /\ wire'[q] = wire[q]
    \/ q = p /\ k + 1 \in DOMAIN wire[p] /\ wire'[q][k] = wire[p][k + 1]
    \/ q = p /\ \E m \in DOMAIN more : /\ k = Len(wire[p]) - 1 + m
                                       /\ wire'[q][k] = more[m]

\* When the oldest pipeline of a process goes, the others move up, and the new
\* ones come last.
LEMMA HandledWire ==
    ASSUME OnTheWay, NEW p \in Procs, NEW more, Handles(p, more),
           NEW q \in Procs, NEW k \in DOMAIN wire'[q]
    PROVE  MovesUp(p, more, q, k)
<1> DEFINE rest == Tail(wire[p])
           n == Len(rest)
<1> USE DEF Handles, MovesUp
<1>1. wire[p] \in Seq(Piped) /\ rest \in Seq(Piped)
  BY HeadTailOfWire DEF OnTheWay
<1>2. n \in Nat /\ DOMAIN rest = 1..n /\ n = Len(wire[p]) - 1
  BY <1>1, LenProperties, HeadTailProperties
<1>3. ASSUME NEW l \in 1..n
      PROVE  l + 1 \in DOMAIN wire[p] /\ rest[l] = wire[p][l + 1]
  BY <1>1, <1>2, HeadTailProperties, LenProperties
<1>4. /\ DOMAIN (rest \o more) = 1..(n + Len(more))
      /\ \A i \in 1..(n + Len(more)) :
            (rest \o more)[i] = IF i <= n THEN rest[i] ELSE more[i - n]
  BY <1>1, ConcatProperties, LenProperties
<1>5. DOMAIN more = 1..Len(more) /\ Len(more) \in Nat
  BY LenProperties
<1>6. CASE q # p
  BY <1>6 DEF OnTheWay
<1>7. CASE q = p
  <2>1. wire'[q] = rest \o more
    BY <1>7 DEF OnTheWay
  <2> HIDE DEF rest, n
  <2>2. k \in 1..(n + Len(more)) /\ wire'[q][k] = (IF k <= n THEN rest[k] ELSE more[k - n])
    BY <1>4, <2>1
  <2>3. CASE k <= n
    BY <1>2, <1>3, <1>7, <2>2, <2>3
  <2>4. CASE ~(k <= n)
    <3>1. k - n \in DOMAIN more /\ k = n + (k - n)
      BY <1>2, <1>5, <2>2, <2>4
    <3> QED
      BY <1>2, <1>7, <2>2, <2>4, <3>1
  <2> QED
    BY <2>3, <2>4
<1> QED
  BY <1>6, <1>7

\* The oldest pipeline is the first.
LEMMA OldestFirst ==
    ASSUME OnTheWay, NEW p \in Procs, wire[p] # <<>>
    PROVE  1 \in DOMAIN wire[p] /\ Head(wire[p]) = wire[p][1]
<1>1. wire[p] \in Seq(Piped)
  BY DEF OnTheWay
<1> QED
  BY <1>1, EmptySeq, LenProperties, HeadTailProperties

-----------------------------------------------------------------------------
(***************************************************************************)
(* The invariant of places, one lemma per group of actions.                *)
(***************************************************************************)
\* The bound on errors is kept.
LEMMA FaultCounted == faults \in 0..MaxFaults /\ Intake!Fault => faults' \in 0..MaxFaults
BY FastPassAssumption DEF Intake!Fault

\* Requests on the slow path, new and finished ones are nowhere.
LEMMA NobodyMoves ==
    ASSUME PlaceInv, UNCHANGED <<buffer, wire>>,
           \A r \in Requests : phase[r] \in {"buffered", "piped"} => phase'[r] = phase[r]
    PROVE  InBuffer' /\ OnWire' /\ ScriptsWhole'
<1>1. InBuffer'
  <2> SUFFICES ASSUME NEW p \in Procs, NEW i \in DOMAIN buffer[p]
               PROVE  phase'[buffer[p][i]] = phase[buffer[p][i]]
    BY DEF InBuffer, PlaceInv, Places
  <2>1. buffer[p][i] \in Requests
    BY ElementOfSeq, LenProperties DEF PlaceInv, OnTheWay
  <2> QED
    BY <2>1 DEF PlaceInv, Places, InBuffer
<1>2. OnWire'
  <2> SUFFICES ASSUME NEW p \in Procs, NEW k \in DOMAIN wire[p], NEW i \in wire[p][k].cmds
               PROVE  phase'[Rider(p, k, i)] = phase[Rider(p, k, i)]
    BY DEF OnWire, PlaceInv, Places, Rider
  <2>1. Rider(p, k, i) \in Requests
    BY WireTypes DEF PlaceInv
  <2> QED
    BY <2>1 DEF PlaceInv, Places, OnWire
<1>3. ScriptsWhole'
  BY DEF ScriptsWhole, PlaceInv, Places
<1> QED
  BY <1>1, <1>2, <1>3

\* A batch of requests that are nowhere else becomes a pipeline.
LEMMA SendBatchPlaces ==
    ASSUME PlaceInv, NEW p \in Procs, NEW batch \in Seq(Requests),
           \A i \in DOMAIN batch :
              /\ phase[batch[i]] \in {"new", "buffered"} /\ HomeOf[batch[i]] = p
              /\ \A j \in DOMAIN batch : batch[i] = batch[j] => i = j,
           Intake!SendBatch(p, batch)
    PROVE  Places'
<1> DEFINE c == Intake!ScriptsFor(batch)
           n == Len(wire[p]) + 1
<1>1. /\ buffer' = [buffer EXCEPT ![p] = <<>>]
      /\ wire' = [wire EXCEPT ![p] = Append(@, c)]
      /\ phase' = Intake!Moved(ToSet(batch), "piped")
      /\ UNCHANGED <<cache, queue, lock, saw, reply, faults>>
  BY DEF Intake!SendBatch, Intake!redis, Intake!ToSet, ToSet
<1>2. c.kind = "script" /\ c.batch = batch /\ c.cmds = DOMAIN batch
  BY DEF Intake!ScriptsFor
<1> HIDE DEF c
<1>3. \A r \in Requests : phase'[r] = IF r \in ToSet(batch) THEN "piped" ELSE phase[r]
  BY <1>1 DEF Intake!Moved
<1>4. ASSUME NEW r \in ToSet(batch)
      PROVE  r \in Requests /\ phase[r] \in {"new", "buffered"} /\ HomeOf[r] = p
  BY BatchOfRequests DEF ToSet, PlaceInv
<1>5. InBuffer'
  <2> SUFFICES ASSUME NEW q \in Procs, NEW i \in DOMAIN buffer'[q]
               PROVE  /\ phase'[buffer'[q][i]] = "buffered" /\ HomeOf[buffer'[q][i]] = q
                      /\ \A j \in DOMAIN buffer'[q] :
                            buffer'[q][i] = buffer'[q][j] => i = j
    BY DEF InBuffer
  <2>1. buffer'[q] = IF q = p THEN <<>> ELSE buffer[q]
    BY <1>1 DEF PlaceInv, OnTheWay
  <2>2. q # p /\ buffer'[q] = buffer[q]
    BY <2>1
  <2>3. buffer[q][i] \in Requests
    BY <2>2, ElementOfSeq, LenProperties DEF PlaceInv, OnTheWay
  <2>4. phase[buffer[q][i]] = "buffered" /\ HomeOf[buffer[q][i]] = q
    BY <2>2 DEF PlaceInv, Places, InBuffer
  <2> QED
    BY <1>3, <1>4, <2>2, <2>3, <2>4 DEF PlaceInv, Places, InBuffer
<1>6. ASSUME NEW q \in Procs, NEW k \in DOMAIN wire'[q]
      PROVE  \/ k \in DOMAIN wire[q] /\ wire'[q][k] = wire[q][k]
             \/ q = p /\ k = n /\ wire'[q][k] = c
  BY <1>1, <1>6, AppendedWire DEF PlaceInv
<1>7. ASSUME NEW q \in Procs, NEW k \in DOMAIN wire[q], NEW i \in wire[q][k].cmds
      PROVE  /\ Rider(q, k, i) \notin ToSet(batch)
             /\ phase'[Rider(q, k, i)] = "piped"
  <2>1. phase[Rider(q, k, i)] = "piped" /\ Rider(q, k, i) \in Requests
    BY WireTypes DEF PlaceInv, Places, OnWire
  <2> QED
    BY <1>3, <1>4, <2>1
<1>8. OnWire'
  <2> SUFFICES ASSUME NEW q \in Procs, NEW k \in DOMAIN wire'[q], NEW i \in wire'[q][k].cmds
               PROVE  /\ phase'[wire'[q][k].batch[i]] = "piped"
                      /\ HomeOf[wire'[q][k].batch[i]] = q
                      /\ \A l \in DOMAIN wire'[q] : \A j \in wire'[q][l].cmds :
                            wire'[q][k].batch[i] = wire'[q][l].batch[j] => k = l /\ i = j
    BY DEF OnWire, Rider
  <2>1. \A j \in DOMAIN batch : batch[j] \in ToSet(batch)
    BY DEF ToSet
  <2>2. CASE k \in DOMAIN wire[q] /\ wire'[q][k] = wire[q][k]
    <3>1. /\ phase'[wire'[q][k].batch[i]] = "piped"
          /\ HomeOf[wire'[q][k].batch[i]] = q
          /\ wire'[q][k].batch[i] \notin ToSet(batch)
      BY <1>7, <2>2 DEF PlaceInv, Places, OnWire, Rider
    <3>2. ASSUME NEW l \in DOMAIN wire'[q], NEW j \in wire'[q][l].cmds,
                 wire'[q][k].batch[i] = wire'[q][l].batch[j]
          PROVE  k = l /\ i = j
      <4>1. ~(q = p /\ l = n /\ wire'[q][l] = c)
        BY <1>2, <2>1, <3>1, <3>2
      <4>2. l \in DOMAIN wire[q] /\ wire'[q][l] = wire[q][l]
        BY <1>6, <4>1
      <4> QED
        BY <2>2, <3>2, <4>2 DEF PlaceInv, Places, OnWire, Rider
    <3> QED
      BY <3>1, <3>2
  <2>3. CASE q = p /\ k = n /\ wire'[q][k] = c
    <3>1. i \in DOMAIN batch /\ wire'[q][k].batch[i] = batch[i] /\ batch[i] \in Requests
      BY <1>2, <1>4, <2>1, <2>3
    <3>2. phase'[batch[i]] = "piped" /\ HomeOf[batch[i]] = q
      BY <1>3, <1>4, <2>1, <2>3, <3>1
    <3>3. ASSUME NEW l \in DOMAIN wire'[q], NEW j \in wire'[q][l].cmds,
                 wire'[q][k].batch[i] = wire'[q][l].batch[j]
          PROVE  k = l /\ i = j
      <4>1. ASSUME l \in DOMAIN wire[q], wire'[q][l] = wire[q][l]
            PROVE  FALSE
        <5>1. j \in wire[q][l].cmds /\ Rider(q, l, j) = batch[i]
          BY <3>1, <3>3, <4>1 DEF Rider
        <5>2. Rider(q, l, j) \notin ToSet(batch)
          BY <1>7, <4>1, <5>1
        <5> QED
          BY <2>1, <3>1, <5>1, <5>2
      <4>2. l = n /\ wire'[q][l] = c
        BY <1>6, <4>1
      <4> QED
        BY <1>2, <2>3, <3>1, <3>3, <4>2
    <3> QED
      BY <3>1, <3>2, <3>3
  <2> QED
    BY <1>6, <2>2, <2>3
<1>9. ScriptsWhole'
  <2> SUFFICES ASSUME NEW q \in Procs, NEW k \in DOMAIN wire'[q],
                      wire'[q][k].kind = "script"
               PROVE  wire'[q][k].cmds = DOMAIN wire'[q][k].batch
    BY DEF ScriptsWhole
  <2> QED
    BY <1>2, <1>6 DEF ScriptsWhole, PlaceInv, Places
<1>10. LocalTypes'
  <2>1. phase' \in [Requests -> Intake!Phases]
    BY <1>1 DEF Intake!Moved, Intake!Phases, PlaceInv, Places, LocalTypes
  <2>2. \A r \in Requests : phase'[r] \in {"mark", "release"} => phase'[r] = phase[r]
    BY <1>3
  <2> QED
    BY <1>1, <2>1, <2>2 DEF PlaceInv, Places, LocalTypes
<1> QED
  BY <1>5, <1>8, <1>9, <1>10 DEF Places

\* reserveSeat: a new request joins the buffer, or the batch that leaves it.
LEMMA SubmitPlaces ==
    ASSUME PlaceInv, NEW r \in Requests, Intake!Submit(r)
    PROVE  Places'
<1> DEFINE p == HomeOf[r]
           batch == Append(buffer[p], r)
<1>1. p \in Procs /\ buffer[p] \in Seq(Requests) /\ batch \in Seq(Requests)
  <2>1. HomeOf[r] \in Procs
    BY FastPassAssumption
  <2>2. buffer[HomeOf[r]] \in Seq(Requests)
    BY <2>1 DEF PlaceInv, OnTheWay
  <2> QED
    BY <2>1, <2>2, AppendProperties
<1>2. /\ DOMAIN batch = 1..(Len(buffer[p]) + 1) /\ DOMAIN buffer[p] = 1..Len(buffer[p])
      /\ \A i \in DOMAIN batch : batch[i] = IF i \in DOMAIN buffer[p] THEN buffer[p][i] ELSE r
  BY <1>1, AppendProperties, LenProperties
<1>3. phase[r] = "new"
  BY DEF Intake!Submit
<1>4. ASSUME NEW i \in DOMAIN batch
      PROVE  /\ phase[batch[i]] \in {"new", "buffered"} /\ HomeOf[batch[i]] = p
             /\ phase[batch[i]] = "new" => batch[i] = r /\ i = Len(buffer[p]) + 1
             /\ i \in DOMAIN buffer[p] => batch[i] = buffer[p][i] /\ phase[batch[i]] = "buffered"
  BY <1>1, <1>2, <1>3, <1>4 DEF PlaceInv, Places, InBuffer
<1>5. ASSUME NEW i \in DOMAIN batch, NEW j \in DOMAIN batch, batch[i] = batch[j]
      PROVE  i = j
  <2>1. CASE phase[batch[i]] = "new"
    BY <1>4, <1>5, <2>1
  <2>2. CASE phase[batch[i]] # "new"
    <3>1. i \in DOMAIN buffer[p] /\ j \in DOMAIN buffer[p]
      BY <1>2, <1>3, <1>5, <2>2
    <3> QED
      BY <1>1, <1>4, <1>5, <3>1 DEF PlaceInv, Places, InBuffer
  <2> QED
    BY <2>1, <2>2
<1>6. CASE Intake!SendBatch(p, batch)
  <2> HIDE DEF batch
  <2> QED
    BY <1>1, <1>4, <1>5, <1>6, SendBatchPlaces
<1>7. CASE /\ buffer' = [buffer EXCEPT ![p] = batch]
           /\ phase' = [phase EXCEPT ![r] = "buffered"]
           /\ UNCHANGED <<cache, queue, lock, wire, saw, reply, faults>>
  <2>1. phase' = [phase EXCEPT ![r] = "buffered"] /\ phase \in [Requests -> Intake!Phases]
    BY <1>7 DEF PlaceInv, Places, LocalTypes
  <2>2. InBuffer'
    <3> SUFFICES ASSUME NEW q \in Procs, NEW i \in DOMAIN buffer'[q]
                 PROVE  /\ phase'[buffer'[q][i]] = "buffered" /\ HomeOf[buffer'[q][i]] = q
                        /\ \A j \in DOMAIN buffer'[q] :
                              buffer'[q][i] = buffer'[q][j] => i = j
      BY DEF InBuffer
    <3>1. buffer'[q] = IF q = p THEN batch ELSE buffer[q]
      BY <1>7 DEF PlaceInv, OnTheWay
    <3> HIDE DEF batch
    <3>2. CASE q = p
      <4>1. batch[i] \in Requests
        BY <1>1, <3>1, <3>2, ElementOfSeq, LenProperties
      <4>2. phase'[batch[i]] = "buffered"
        BY <1>4, <2>1, <3>1, <3>2, <4>1 DEF Intake!Phases
      <4> QED
        BY <1>4, <1>5, <3>1, <3>2, <4>2
    <3>3. CASE q # p
      <4>1. buffer[q][i] \in Requests
        BY <3>1, <3>3, ElementOfSeq, LenProperties DEF PlaceInv, OnTheWay
      <4>2. /\ phase[buffer[q][i]] = "buffered" /\ HomeOf[buffer[q][i]] = q
            /\ \A j \in DOMAIN buffer[q] : buffer[q][i] = buffer[q][j] => i = j
        BY <3>1, <3>3 DEF PlaceInv, Places, InBuffer
      <4>3. phase'[buffer[q][i]] = "buffered"
        BY <1>3, <2>1, <4>1, <4>2
      <4> QED
        BY <3>1, <3>3, <4>2, <4>3
    <3> QED
      BY <3>2, <3>3
  <2>3. OnWire' /\ ScriptsWhole'
    <3>1. ScriptsWhole'
      BY <1>7 DEF ScriptsWhole, PlaceInv, Places
    <3>2. ASSUME NEW q \in Procs, NEW k \in DOMAIN wire[q], NEW i \in wire[q][k].cmds
          PROVE  phase'[Rider(q, k, i)] = phase[Rider(q, k, i)]
      <4>1. Rider(q, k, i) \in Requests /\ phase[Rider(q, k, i)] = "piped"
        BY WireTypes DEF PlaceInv, Places, OnWire
      <4> QED
        BY <1>3, <2>1, <4>1
    <3> QED
      BY <1>7, <3>1, <3>2 DEF OnWire, PlaceInv, Places, Rider
  <2>4. LocalTypes'
    BY <1>7, <2>1 DEF PlaceInv, Places, LocalTypes, Intake!Phases
  <2> QED
    BY <2>2, <2>3, <2>4 DEF Places
<1> QED
  BY <1>6, <1>7 DEF Intake!Submit, Intake!redis

\* The timer: the buffer becomes the batch.
LEMMA FlushPlaces ==
    ASSUME PlaceInv, NEW p \in Procs, Intake!Flush(p)
    PROVE  Places'
<1>1. buffer[p] \in Seq(Requests)
  BY DEF PlaceInv, OnTheWay
<1>2. \A i \in DOMAIN buffer[p] :
         /\ phase[buffer[p][i]] \in {"new", "buffered"} /\ HomeOf[buffer[p][i]] = p
         /\ \A j \in DOMAIN buffer[p] : buffer[p][i] = buffer[p][j] => i = j
  BY DEF PlaceInv, Places, InBuffer
<1>3. Intake!SendBatch(p, buffer[p])
  BY DEF Intake!Flush
<1> QED
  BY <1>1, <1>2, <1>3, SendBatchPlaces

\* An answer moves no request.
LEMMA CommandPlaces ==
    ASSUME PlaceInv, NEW p \in Procs, NEW k \in DOMAIN wire[p],
           NEW i \in wire[p][k].cmds, NEW result \in {"OK", "FAIL", "MISS", "ERR"},
           wire' = wire \/ wire' = [wire EXCEPT ![p][k].next = i + 1],
           saw' = saw \/ saw' = [saw EXCEPT ![Rider(p, k, i)] = result],
           \/ UNCHANGED cache
           \/ Intake!Execute(wire[p][k].kind, Rider(p, k, i)),
           faults' \in 0..MaxFaults, UNCHANGED <<lock, buffer, phase, reply>>
    PROVE  Places'
<1>1. Rider(p, k, i) \in Requests /\ phase[Rider(p, k, i)] = "piped"
  BY WireTypes DEF PlaceInv, Places, OnWire
<1>2. /\ DOMAIN wire' = DOMAIN wire
      /\ \A q \in Procs : \A l \in DOMAIN wire'[q] :
            /\ l \in DOMAIN wire[q]
            /\ wire'[q][l].kind = wire[q][l].kind
            /\ wire'[q][l].batch = wire[q][l].batch
            /\ wire'[q][l].cmds = wire[q][l].cmds
  <2>1. CASE wire' = wire
    BY <2>1
  <2>2. CASE wire' = [wire EXCEPT ![p][k].next = i + 1]
    <3>1. OnTheWay
      BY DEF PlaceInv
    <3>2. DOMAIN wire' = DOMAIN wire
      BY <2>2
    <3>3. \A q \in Procs : \A l \in DOMAIN wire'[q] : Advances(p, k, i, q, l)
      BY <2>2, <3>1, AnsweredWire DEF Answers
    <3> QED
      BY <3>2, <3>3 DEF Advances
  <2> QED
    BY <2>1, <2>2
<1>3. InBuffer'
  BY DEF PlaceInv, Places, InBuffer
<1>4. OnWire'
  BY <1>2 DEF PlaceInv, Places, OnWire, Rider
<1>5. ScriptsWhole'
  BY <1>2 DEF PlaceInv, Places, ScriptsWhole
<1>6. LocalTypes'
  <2>1. cache' \in [Seats -> Intake!CacheStates]
    BY <1>1 DEF Intake!Execute, Intake!ScriptLeaves, Intake!CacheStates, PlaceInv,
                Places, LocalTypes
  <2>2. /\ saw' \in [Requests -> {"none", "OK", "FAIL", "MISS", "ERR", "HELD",
                                  "OCCUPIED", "accepted", "rejected"}]
        /\ \A r \in Requests : phase[r] \in {"mark", "release"} => saw'[r] = saw[r]
    BY <1>1 DEF PlaceInv, Places, LocalTypes
  <2> QED
    BY <2>1, <2>2 DEF PlaceInv, Places, LocalTypes
<1> QED
  BY <1>3, <1>4, <1>5, <1>6 DEF Places

\* Where a pipeline of q was before that, and that it was there or is new.
Orig(p, q, k) == IF q # p THEN k ELSE IF k < Len(wire[p]) THEN k + 1 ELSE 1

ComesFrom(p, more, q, k) ==
    /\ k \in Nat /\ k >= 1 /\ Orig(p, q, k) \in DOMAIN wire[q]
    /\ \/ /\ wire'[q][k] = wire[q][Orig(p, q, k)]
          /\ q = p => Orig(p, q, k) # 1 /\ k < Len(wire[p])
       \/ /\ q = p /\ Orig(p, q, k) = 1 /\ k = Len(wire[p])
          /\ 1 \in DOMAIN more /\ wire'[q][k] = more[1]

\* Every pipeline after that is an old one or the new one.
LEMMA OrigOfPipeline ==
    ASSUME OnTheWay, NEW p \in Procs, NEW more, Handles(p, more),
           \A m \in DOMAIN more : m = 1,
           NEW q \in Procs, NEW k \in DOMAIN wire'[q]
    PROVE  ComesFrom(p, more, q, k)
<1>1. /\ Len(wire[p]) \in Nat /\ Len(wire[p]) >= 1 /\ DOMAIN wire[p] = 1..Len(wire[p])
      /\ 1 \in DOMAIN wire[p]
  BY WireTypes, OldestFirst DEF Handles
<1>2. CASE q # p /\ wire'[q] = wire[q]
  BY <1>2, WireTypes DEF Orig, ComesFrom
<1>3. CASE q = p /\ k + 1 \in DOMAIN wire[p] /\ wire'[q][k] = wire[p][k + 1]
  <2>1. wire'[p] = Tail(wire[p]) \o more /\ Tail(wire[p]) \in Seq(Piped)
    BY HeadTailOfWire DEF OnTheWay, Handles
  <2>2. Tail(wire[p]) \o more \in Seq(Piped)
    BY <2>1, ConcatProperties DEF Handles
  <2>3. k \in Nat /\ k >= 1
    BY <1>3, <2>1, <2>2, LenProperties
  <2>4. k < Len(wire[p])
    BY <1>1, <1>3, <2>3
  <2> QED
    BY <1>1, <1>3, <2>3, <2>4 DEF Orig, ComesFrom
<1>4. ASSUME q = p, NEW m \in DOMAIN more, k = Len(wire[p]) - 1 + m, wire'[q][k] = more[m]
      PROVE  /\ k \in Nat /\ k >= 1 /\ q = p /\ Orig(p, q, k) = 1 /\ k = Len(wire[p])
             /\ 1 \in DOMAIN more /\ wire'[q][k] = more[1]
  <2>1. m = 1
    BY <1>4
  <2>2. k = Len(wire[p])
    BY <1>1, <1>4, <2>1
  <2>3. Orig(p, q, k) = 1
    BY <1>1, <1>4, <2>2 DEF Orig
  <2> QED
    BY <1>1, <1>4, <2>1, <2>2, <2>3
<1>5. MovesUp(p, more, q, k)
  BY HandledWire
<1>6. CASE q = p /\ \E m \in DOMAIN more : /\ k = Len(wire[p]) - 1 + m
                                           /\ wire'[q][k] = more[m]
  <2>1. PICK m \in DOMAIN more : k = Len(wire[p]) - 1 + m /\ wire'[q][k] = more[m]
    BY <1>6
  <2>2. /\ k \in Nat /\ k >= 1 /\ q = p /\ Orig(p, q, k) = 1 /\ k = Len(wire[p])
        /\ 1 \in DOMAIN more /\ wire'[q][k] = more[1]
    BY <1>4, <1>6, <2>1
  <2> QED
    BY <1>1, <2>2 DEF ComesFrom
<1> QED
  BY <1>2, <1>3, <1>5, <1>6 DEF MovesUp

\* A request is behind one command only.
LEMMA OnePlace ==
    ASSUME PlaceInv, NEW p \in Procs,
           NEW k \in DOMAIN wire[p], NEW i \in wire[p][k].cmds,
           NEW l \in DOMAIN wire[p], NEW j \in wire[p][l].cmds,
           Rider(p, k, i) = Rider(p, l, j)
    PROVE  k = l /\ i = j
BY DEF PlaceInv, Places, OnWire

\* Whoever the oldest pipeline served leaves it, some of them for a push.
LEMMA HandledPlaces ==
    ASSUME PlaceInv, NEW p \in Procs, NEW more, Handles(p, more),
           \A m \in DOMAIN more :
              /\ m = 1 /\ more[m].kind = "push"
              /\ more[m].batch = wire[p][1].batch /\ more[m].cmds \subseteq wire[p][1].cmds
              /\ \A i \in more[m].cmds : phase'[more[m].batch[i]] = "piped",
           \A r \in Requests :
              \/ phase'[r] = phase[r]
              \/ r \in Intake!Served(wire[p][1]) /\ phase'[r] \in {"lock", "done"},
           phase' \in [Requests -> Intake!Phases],
           reply' \in [Requests -> {"none", "accepted", "rejected", "lost"}],
           faults' \in 0..MaxFaults, UNCHANGED <<cache, lock, buffer, saw>>
    PROVE  Places'
<1>1. OnTheWay /\ 1 \in DOMAIN wire[p]
  BY OldestFirst DEF PlaceInv, Handles
<1>2. ASSUME NEW q \in Procs, NEW k \in DOMAIN wire'[q]
      PROVE  /\ k \in Nat /\ k >= 1 /\ Orig(p, q, k) \in DOMAIN wire[q]
             /\ wire'[q][k].batch = wire[q][Orig(p, q, k)].batch
             /\ wire'[q][k].cmds \subseteq wire[q][Orig(p, q, k)].cmds
             /\ \/ /\ wire'[q][k] = wire[q][Orig(p, q, k)]
                   /\ q = p => Orig(p, q, k) # 1 /\ k < Len(wire[p])
                \/ /\ q = p /\ Orig(p, q, k) = 1 /\ k = Len(wire[p])
                   /\ wire'[q][k].kind = "push"
                   /\ \A i \in wire'[q][k].cmds : phase'[wire'[q][k].batch[i]] = "piped"
  <2>1. \A m \in DOMAIN more : m = 1
    OBVIOUS
  <2>2. ComesFrom(p, more, q, k)
    BY <1>1, <2>1, OrigOfPipeline
  <2> QED
    BY <2>2 DEF ComesFrom
<1>3. ASSUME NEW q \in Procs, NEW k \in DOMAIN wire'[q], NEW l \in DOMAIN wire'[q],
             Orig(p, q, k) = Orig(p, q, l)
      PROVE  k = l
  <2>1. Len(wire[p]) \in Nat
    BY <1>1, WireTypes
  <2> QED
    BY <1>2, <1>3, <2>1 DEF Orig
<1>4. ASSUME NEW q \in Procs, NEW k \in DOMAIN wire'[q], NEW i \in wire'[q][k].cmds
      PROVE  /\ i \in wire[q][Orig(p, q, k)].cmds
             /\ wire'[q][k].batch[i] = Rider(q, Orig(p, q, k), i)
             /\ phase'[wire'[q][k].batch[i]] = "piped"
  <2> DEFINE o == Orig(p, q, k)
  <2>1. /\ o \in DOMAIN wire[q] /\ i \in wire[q][o].cmds
        /\ wire'[q][k].batch[i] = Rider(q, o, i)
    BY <1>2, <1>4 DEF Rider
  <2> HIDE DEF o
  <2>2. ASSUME ~(q = p /\ o = 1)
        PROVE  phase'[wire'[q][k].batch[i]] = "piped"
    <3>1. /\ Rider(q, o, i) \in Requests /\ phase[Rider(q, o, i)] = "piped"
          /\ HomeOf[Rider(q, o, i)] = q
      BY <1>1, <2>1, WireTypes DEF PlaceInv, Places, OnWire
    <3>2. Rider(q, o, i) \notin Intake!Served(wire[p][1])
      <4> SUFFICES ASSUME NEW j \in wire[p][1].cmds, Rider(q, o, i) = Rider(p, 1, j)
                   PROVE  FALSE
        BY DEF Intake!Served, Rider
      <4>1. HomeOf[Rider(p, 1, j)] = p
        BY <1>1 DEF PlaceInv, Places, OnWire
      <4>2. q = p
        BY <3>1, <4>1
      <4> QED
        BY <1>1, <2>1, <2>2, <4>2 DEF PlaceInv, Places, OnWire
    <3> QED
      BY <2>1, <3>1, <3>2
  <2>3. ASSUME q = p /\ o = 1
        PROVE  phase'[wire'[q][k].batch[i]] = "piped"
    BY <1>2, <1>4, <2>3 DEF o
  <2>4. phase'[wire'[q][k].batch[i]] = "piped"
    BY <2>2, <2>3
  <2> QED
    BY <2>1, <2>4 DEF o
<1>5. InBuffer'
  <2> SUFFICES ASSUME NEW q \in Procs, NEW i \in DOMAIN buffer[q]
               PROVE  phase'[buffer[q][i]] = phase[buffer[q][i]]
    BY DEF InBuffer, PlaceInv, Places
  <2>1. buffer[q][i] \in Requests /\ phase[buffer[q][i]] = "buffered"
    BY ElementOfSeq, LenProperties DEF PlaceInv, OnTheWay, Places, InBuffer
  <2>2. \A r \in Intake!Served(wire[p][1]) : phase[r] = "piped"
    BY <1>1 DEF Intake!Served, PlaceInv, Places, OnWire, Rider
  <2> QED
    BY <2>1, <2>2
<1>6. OnWire'
  <2> SUFFICES ASSUME NEW q \in Procs, NEW k \in DOMAIN wire'[q], NEW i \in wire'[q][k].cmds
               PROVE  /\ phase'[wire'[q][k].batch[i]] = "piped"
                      /\ HomeOf[wire'[q][k].batch[i]] = q
                      /\ \A l \in DOMAIN wire'[q] : \A j \in wire'[q][l].cmds :
                            wire'[q][k].batch[i] = wire'[q][l].batch[j] => k = l /\ i = j
    BY DEF OnWire, Rider
  <2>1. /\ Orig(p, q, k) \in DOMAIN wire[q]
        /\ i \in wire[q][Orig(p, q, k)].cmds
        /\ wire'[q][k].batch[i] = Rider(q, Orig(p, q, k), i)
        /\ phase'[wire'[q][k].batch[i]] = "piped"
    BY <1>2, <1>4
  <2>2. ASSUME NEW l \in DOMAIN wire'[q], NEW j \in wire'[q][l].cmds,
               wire'[q][k].batch[i] = wire'[q][l].batch[j]
        PROVE  k = l /\ i = j
    <3>1. /\ Orig(p, q, l) \in DOMAIN wire[q]
          /\ j \in wire[q][Orig(p, q, l)].cmds
          /\ wire'[q][l].batch[j] = Rider(q, Orig(p, q, l), j)
      BY <1>2, <1>4
    <3>2. Rider(q, Orig(p, q, k), i) = Rider(q, Orig(p, q, l), j)
      BY <2>1, <2>2, <3>1
    <3>3. Orig(p, q, k) = Orig(p, q, l) /\ i = j
      BY <2>1, <3>1, <3>2, OnePlace
    <3> QED
      BY <1>3, <3>3
  <2> QED
    BY <2>1, <2>2 DEF PlaceInv, Places, OnWire
<1>7. ScriptsWhole'
  <2> SUFFICES ASSUME NEW q \in Procs, NEW k \in DOMAIN wire'[q],
                      wire'[q][k].kind = "script"
               PROVE  wire'[q][k].cmds = DOMAIN wire'[q][k].batch
    BY DEF ScriptsWhole
  <2>1. Orig(p, q, k) \in DOMAIN wire[q] /\ wire'[q][k] = wire[q][Orig(p, q, k)]
    BY <1>2
  <2> QED
    BY <2>1 DEF PlaceInv, Places, ScriptsWhole
<1>8. LocalTypes'
  BY DEF PlaceInv, Places, LocalTypes
<1> QED
  BY <1>5, <1>6, <1>7, <1>8 DEF Places

\* flushQueue with the results of the scripts: who got OK goes to the push.
LEMMA HandleScriptsPlaces ==
    ASSUME PlaceInv, NEW p \in Procs, Intake!HandleScripts(p)
    PROVE  Places'
<1> DEFINE c == wire[p][1]
           won == {i \in DOMAIN c.batch : saw[c.batch[i]] = "OK"}
           more == IF won = {} THEN <<>> ELSE <<Intake!PushesFor(c.batch, won)>>
<1>1. OnTheWay /\ wire[p] # <<>> /\ 1 \in DOMAIN wire[p] /\ Head(wire[p]) = c
  BY OldestFirst DEF Intake!HandleScripts, Intake!Complete, PlaceInv
<1>2. c.kind = "script"
  BY <1>1 DEF Intake!HandleScripts, Intake!Complete
<1>3. /\ c.cmds = DOMAIN c.batch /\ c.batch \in Seq(Requests) /\ DOMAIN c.batch \subseteq Nat
      /\ \A i \in DOMAIN c.batch : c.batch[i] \in Requests
  BY <1>1, <1>2, WireTypes DEF PlaceInv, Places, ScriptsWhole, Rider
<1>4. /\ wire' = [wire EXCEPT ![p] = Tail(@) \o more]
      /\ UNCHANGED <<cache, lock, buffer, saw, faults>>
  BY <1>1 DEF Intake!HandleScripts, Intake!redis
<1>5. /\ phase' = [r \in Requests |->
            CASE r \in {q \in ToSet(c.batch) : saw[q] = "MISS"} -> "lock"
              [] r \in {q \in ToSet(c.batch) : saw[q] \notin {"OK", "MISS"}} -> "done"
              [] OTHER -> phase[r]]
      /\ reply' = [r \in Requests |->
            IF r \in {q \in ToSet(c.batch) : saw[q] \notin {"OK", "MISS"}}
            THEN Intake!Settled(r, "rejected") ELSE reply[r]]
  BY <1>1 DEF Intake!HandleScripts, Intake!ToSet, ToSet
<1> HIDE DEF c
<1>6. Intake!PushesFor(c.batch, won) \in Piped
  BY <1>3 DEF Intake!PushesFor, Piped, Intake!Pipeline
<1>7. Handles(p, more)
  BY <1>1, <1>4, <1>6 DEF Handles
<1>8. \A r \in Requests :
         \/ phase'[r] = phase[r]
         \/ r \in Intake!Served(c) /\ phase'[r] \in {"lock", "done"}
  BY <1>3, <1>5 DEF Intake!Served, ToSet
<1>9. \A m \in DOMAIN more :
         /\ m = 1 /\ more[m].kind = "push"
         /\ more[m].batch = c.batch /\ more[m].cmds = won
  BY DEF Intake!PushesFor
<1>10. ASSUME NEW i \in won
       PROVE  phase'[c.batch[i]] = "piped" /\ i \in c.cmds
  <2>1. c.batch[i] \in Requests /\ saw[c.batch[i]] = "OK" /\ i \in c.cmds
    BY <1>3
  <2>2. phase[c.batch[i]] = "piped"
    BY <1>1, <2>1 DEF c, PlaceInv, Places, OnWire, Rider
  <2> QED
    BY <1>5, <2>1, <2>2
<1>11. phase' \in [Requests -> Intake!Phases]
  BY <1>5 DEF Intake!Phases, PlaceInv, Places, LocalTypes
<1>12. reply' \in [Requests -> {"none", "accepted", "rejected", "lost"}]
  BY <1>5 DEF Intake!Settled, PlaceInv, Places, LocalTypes
<1>13. faults' \in 0..MaxFaults
  BY <1>4 DEF PlaceInv, Places, LocalTypes
<1> HIDE DEF more, won
<1>14. \A m \in DOMAIN more :
          /\ m = 1 /\ more[m].kind = "push"
          /\ more[m].batch = wire[p][1].batch /\ more[m].cmds \subseteq wire[p][1].cmds
          /\ \A i \in more[m].cmds : phase'[more[m].batch[i]] = "piped"
  BY <1>9, <1>10 DEF c
<1> QED
  BY <1>4, <1>7, <1>8, <1>11, <1>12, <1>13, <1>14, HandledPlaces DEF c

\* flushQueue with the results of the pushes, or a pipeline rejected as a
\* whole: everybody it served is done.
LEMMA HandlePushesPlaces ==
    ASSUME PlaceInv, NEW p \in Procs, Intake!HandlePushes(p) \/ Intake!ExecRejected(p)
    PROVE  Places'
<1> DEFINE c == wire[p][1]
           more == <<>>
<1>1. OnTheWay /\ wire[p] # <<>> /\ Head(wire[p]) = c
  BY OldestFirst DEF Intake!HandlePushes, Intake!ExecRejected, Intake!Complete, PlaceInv
<1>2. /\ wire' = [wire EXCEPT ![p] = Tail(@)]
      /\ phase' = Intake!Moved(Intake!Served(c), "done")
      /\ faults' = faults \/ Intake!Fault
      /\ UNCHANGED <<cache, lock, buffer, saw>>
  BY <1>1 DEF Intake!HandlePushes, Intake!ExecRejected, Intake!redis
<1>3. faults' \in 0..MaxFaults
  BY <1>2, FaultCounted DEF PlaceInv, Places, LocalTypes
<1>4. reply' \in [Requests -> {"none", "accepted", "rejected", "lost"}]
  BY DEF Intake!HandlePushes, Intake!ExecRejected, Intake!Settled, PlaceInv, Places,
         LocalTypes
<1>5. wire' = [wire EXCEPT ![p] = Tail(@) \o more]
  BY <1>1, <1>2, HeadTailOfWire, ConcatEmptySeq
<1>6. Handles(p, more) /\ DOMAIN more = {}
  BY <1>1, <1>5 DEF Handles
<1>7. phase' \in [Requests -> Intake!Phases]
  BY <1>2 DEF Intake!Moved, Intake!Phases, PlaceInv, Places, LocalTypes
<1>8. \A r \in Requests :
         \/ phase'[r] = phase[r]
         \/ r \in Intake!Served(c) /\ phase'[r] \in {"lock", "done"}
  BY <1>2 DEF Intake!Moved
<1> HIDE DEF more
<1>9. \A m \in DOMAIN more :
         /\ m = 1 /\ more[m].kind = "push"
         /\ more[m].batch = wire[p][1].batch /\ more[m].cmds \subseteq wire[p][1].cmds
         /\ \A i \in more[m].cmds : phase'[more[m].batch[i]] = "piped"
  BY <1>6
<1> QED
  BY <1>2, <1>3, <1>4, <1>6, <1>7, <1>8, <1>9, HandledPlaces

\* The slow path moves nobody who is in a buffer or behind a command.
LEMMA SlowPlaces ==
    ASSUME PlaceInv, NEW r \in Requests,
           \/ Intake!SlowStep(r) \/ Intake!AcquireFault(r) \/ Intake!SlowFault(r)
           \/ Intake!SlowResend(r) \/ Intake!ReleaseFault(r)
    PROVE  Places'
<1>1. UNCHANGED <<buffer, wire>>
  BY DEF Intake!SlowStep, Intake!Acquire, Intake!LockBusy, Intake!ReadAvailable,
         Intake!ReadTaken, Intake!ReadNothing, Intake!Mark, Intake!Enqueue, Intake!Hold,
         Intake!Release, Intake!AcquireFault, Intake!SlowFault, Intake!SlowResend,
         Intake!TakesEffect, Intake!Protected, Intake!ReleaseFault, Intake!Finish,
         Intake!Leaves, Intake!local
<1>2. /\ phase[r] \in {"lock", "read", "mark", "enqueue", "hold", "release"}
      /\ \/ phase' = phase
         \/ \E to \in {"read", "mark", "enqueue", "hold", "release", "done"} :
               phase' = [phase EXCEPT ![r] = to]
  BY DEF Intake!SlowStep, Intake!Acquire, Intake!LockBusy, Intake!ReadAvailable,
         Intake!ReadTaken, Intake!ReadNothing, Intake!Mark, Intake!Enqueue, Intake!Hold,
         Intake!Release, Intake!AcquireFault, Intake!SlowFault, Intake!SlowResend,
         Intake!TakesEffect, Intake!Protected, Intake!ReleaseFault, Intake!Finish,
         Intake!Leaves, Intake!local
<1>3. \A q \in Requests : phase[q] \in {"buffered", "piped"} => phase'[q] = phase[q]
  BY <1>2 DEF PlaceInv, Places, LocalTypes
<1>4. LocalTypes'
  <2> USE DEF PlaceInv, Places, LocalTypes
  <2>1. phase' \in [Requests -> Intake!Phases]
    BY <1>2 DEF Intake!Phases
  <2>2. CASE Intake!Acquire(r) \/ Intake!LockBusy(r) \/ Intake!ReadAvailable(r)
             \/ Intake!Enqueue(r)
    BY <2>1, <2>2 DEF Intake!Acquire, Intake!LockBusy, Intake!ReadAvailable,
                      Intake!Enqueue, Intake!Settled, Intake!redis
  <2>3. CASE Intake!ReadTaken(r)
    BY <2>1, <2>3 DEF Intake!ReadTaken, Intake!redis
  <2>4. CASE Intake!ReadNothing(r) \/ Intake!Mark(r) \/ Intake!Hold(r)
    BY <2>1, <2>4 DEF Intake!ReadNothing, Intake!Mark, Intake!Hold, Intake!Leaves,
                      Intake!WriteStatus, Intake!WriteHeld, Intake!CacheStates,
                      Intake!redis
  <2>5. CASE Intake!Release(r) \/ Intake!ReleaseFault(r)
    <3>1. faults' \in 0..MaxFaults
      BY <2>5, FaultCounted DEF Intake!Release, Intake!ReleaseFault
    <3>2. lock' \in [Seats -> Requests \cup {NoReq}]
      BY <2>5 DEF Intake!Release, Intake!ReleaseFault, Intake!FreeLock
    <3>3. reply' \in [Requests -> {"none", "accepted", "rejected", "lost"}]
      BY <2>5 DEF Intake!Release, Intake!ReleaseFault, Intake!Finish, Intake!Settled
    <3>4. UNCHANGED <<cache, saw>> /\ \A q \in Requests : phase'[q] \in {"done", phase[q]}
      BY <2>5 DEF Intake!Release, Intake!ReleaseFault, Intake!Finish
    <3> QED
      BY <2>1, <3>1, <3>2, <3>3, <3>4
  <2>6. CASE Intake!SlowFault(r)
    <3>1. faults' \in 0..MaxFaults
      BY <2>6, FaultCounted DEF Intake!SlowFault
    <3>2. cache' \in [Seats -> Intake!CacheStates] /\ UNCHANGED <<lock, reply>>
      BY <2>6 DEF Intake!SlowFault, Intake!TakesEffect, Intake!Leaves,
                  Intake!WriteStatus, Intake!WriteHeld, Intake!CacheStates, Intake!redis
    <3>3. saw' = [saw EXCEPT ![r] = "rejected"] /\ phase' = [phase EXCEPT ![r] = "release"]
      BY <2>6 DEF Intake!SlowFault, Intake!Leaves
    <3> QED
      BY <2>1, <3>1, <3>2, <3>3
  <2>7. CASE Intake!AcquireFault(r)
    <3>1. faults' \in 0..MaxFaults
      BY <2>7, FaultCounted DEF Intake!AcquireFault
    <3>2. /\ lock' \in [Seats -> Requests \cup {NoReq}] /\ UNCHANGED <<cache, saw>>
          /\ phase' = [phase EXCEPT ![r] = "done"]
          /\ reply' = [reply EXCEPT ![r] = Intake!Settled(r, "rejected")]
      BY <2>7 DEF Intake!AcquireFault
    <3>3. reply' \in [Requests -> {"none", "accepted", "rejected", "lost"}]
      BY <3>2 DEF Intake!Settled
    <3> QED
      BY <2>1, <3>1, <3>2, <3>3
  <2>8. CASE Intake!SlowResend(r)
    <3>1. faults' \in 0..MaxFaults
      BY <2>8, FaultCounted DEF Intake!SlowResend
    <3>2. /\ cache' \in [Seats -> Intake!CacheStates]
          /\ lock' \in [Seats -> Requests \cup {NoReq}]
      BY <2>8 DEF Intake!SlowResend, Intake!TakesEffect, Intake!WriteStatus,
                  Intake!WriteHeld, Intake!FreeLock, Intake!CacheStates
    <3> QED
      BY <2>8, <3>1, <3>2 DEF Intake!SlowResend, Intake!local
  <2> QED
    BY <2>2, <2>3, <2>4, <2>5, <2>6, <2>7, <2>8 DEF Intake!SlowStep
<1> QED
  BY <1>1, <1>3, <1>4, NobodyMoves DEF Places

\* The end of a process empties its own places only.
LEMMA CrashPlaces ==
    ASSUME PlaceInv, NEW p \in Procs, Intake!Crash(p)
    PROVE  Places'
<1> USE DEF PlaceInv, Places
<1>1. \A q \in Procs : /\ buffer'[q] = (IF q = p THEN <<>> ELSE buffer[q])
                      /\ wire'[q] = (IF q = p THEN <<>> ELSE wire[q])
  BY DEF Intake!Crash, OnTheWay
<1>2. \A r \in Requests : HomeOf[r] # p => phase'[r] = phase[r]
  BY DEF Intake!Crash, Intake!Moved
<1>3. InBuffer'
  <2> SUFFICES ASSUME NEW q \in Procs, q # p, NEW i \in DOMAIN buffer[q]
               PROVE  phase'[buffer[q][i]] = phase[buffer[q][i]]
    BY <1>1 DEF InBuffer
  <2>1. buffer[q][i] \in Requests /\ HomeOf[buffer[q][i]] = q
    BY ElementOfSeq, LenProperties DEF OnTheWay, InBuffer
  <2> QED
    BY <1>2, <2>1
<1>4. OnWire'
  <2> SUFFICES ASSUME NEW q \in Procs, q # p, NEW k \in DOMAIN wire[q],
                      NEW i \in wire[q][k].cmds
               PROVE  phase'[Rider(q, k, i)] = phase[Rider(q, k, i)]
    BY <1>1 DEF OnWire, Rider
  <2>1. Rider(q, k, i) \in Requests /\ HomeOf[Rider(q, k, i)] = q
    BY WireTypes DEF OnWire
  <2> QED
    BY <1>2, <2>1
<1>5. ScriptsWhole'
  BY <1>1 DEF ScriptsWhole
<1>6. LocalTypes'
  <2>1. phase' \in [Requests -> Intake!Phases]
    BY DEF Intake!Crash, Intake!Moved, Intake!Phases, LocalTypes
  <2>2. reply' \in [Requests -> {"none", "accepted", "rejected", "lost"}]
    BY DEF Intake!Crash, Intake!Settled, LocalTypes
  <2>3. \A r \in Requests : phase'[r] \in {"mark", "release"} => phase'[r] = phase[r]
    BY DEF Intake!Crash, Intake!Moved
  <2> QED
    BY <2>1, <2>2, <2>3, FaultCounted DEF Intake!Crash, Intake!redis, LocalTypes
<1> QED
  BY <1>3, <1>4, <1>5, <1>6

\* Everything a process does for its requests, and all that may befall it.
LEMMA IntakePlaces ==
    ASSUME PlaceInv, NEW p \in Procs, Intake!Serve(p) \/ Intake!Disturb(p)
    PROVE  Places'
<1>1. ASSUME NEW r \in Requests, Intake!Submit(r)
      PROVE  Places'
  BY <1>1, SubmitPlaces
<1>2. CASE Intake!Flush(p)
  BY <1>2, FlushPlaces
<1>3. CASE Intake!RunCommand(p)
  <2>0. PICK k \in DOMAIN wire[p] : \E i \in wire[p][k].cmds :
           /\ Intake!Answered(p, k, i, Intake!Execute(wire[p][k].kind, Rider(p, k, i)),
                              Intake!ResultOf(wire[p][k].kind, Rider(p, k, i)))
           /\ UNCHANGED faults
    BY <1>3 DEF Intake!RunCommand, Rider
  <2>1. PICK i \in wire[p][k].cmds :
           /\ Intake!Answered(p, k, i, Intake!Execute(wire[p][k].kind, Rider(p, k, i)),
                              Intake!ResultOf(wire[p][k].kind, Rider(p, k, i)))
           /\ UNCHANGED faults
    BY <2>0
  <2> DEFINE result == Intake!ResultOf(wire[p][k].kind, Rider(p, k, i))
  <2>2. result \in {"OK", "FAIL", "MISS", "ERR"}
    BY DEF Intake!ResultOf, Intake!ScriptResult
  <2>3. /\ Intake!Execute(wire[p][k].kind, Rider(p, k, i))
        /\ wire' = [wire EXCEPT ![p][k].next = i + 1]
        /\ saw' = [saw EXCEPT ![Rider(p, k, i)] = result]
        /\ UNCHANGED <<lock, buffer, phase, reply>>
    BY <2>1 DEF Intake!Answered, Intake!Execute, Rider
  <2>4. faults' \in 0..MaxFaults
    BY <2>1 DEF PlaceInv, Places, LocalTypes
  <2> HIDE DEF result
  <2> QED
    BY <2>2, <2>3, <2>4, CommandPlaces
<1>4. CASE Intake!CommandFails(p)
  <2>0. PICK k \in DOMAIN wire[p] : \E i \in wire[p][k].cmds :
           \/ Intake!Answered(p, k, i, UNCHANGED Intake!redis, "ERR")
           \/ Intake!Answered(p, k, i, Intake!Execute(wire[p][k].kind, Rider(p, k, i)), "ERR")
           \/ Intake!Execute(wire[p][k].kind, Rider(p, k, i)) /\ UNCHANGED Intake!local
    BY <1>4 DEF Intake!CommandFails, Rider
  <2>1. PICK i \in wire[p][k].cmds :
           \/ Intake!Answered(p, k, i, UNCHANGED Intake!redis, "ERR")
           \/ Intake!Answered(p, k, i, Intake!Execute(wire[p][k].kind, Rider(p, k, i)), "ERR")
           \/ Intake!Execute(wire[p][k].kind, Rider(p, k, i)) /\ UNCHANGED Intake!local
    BY <2>0
  <2>2. /\ wire' = wire \/ wire' = [wire EXCEPT ![p][k].next = i + 1]
        /\ saw' = saw \/ saw' = [saw EXCEPT ![Rider(p, k, i)] = "ERR"]
        /\ UNCHANGED cache \/ Intake!Execute(wire[p][k].kind, Rider(p, k, i))
        /\ UNCHANGED <<lock, buffer, phase, reply>>
    BY <2>1 DEF Intake!Answered, Intake!Execute, Intake!redis, Intake!local, Rider
  <2>3. faults' \in 0..MaxFaults
    BY <1>4, FaultCounted DEF Intake!CommandFails, PlaceInv, Places, LocalTypes
  <2> QED
    BY <2>2, <2>3, CommandPlaces
<1>5. CASE Intake!HandleScripts(p) \/ Intake!HandlePushes(p) \/ Intake!ExecRejected(p)
  BY <1>5, HandleScriptsPlaces, HandlePushesPlaces
<1>6. ASSUME NEW r \in Requests,
             \/ Intake!SlowStep(r) \/ Intake!AcquireFault(r) \/ Intake!SlowFault(r)
             \/ Intake!SlowResend(r) \/ Intake!ReleaseFault(r)
      PROVE  Places'
  BY <1>6, SlowPlaces
<1> QED
  BY <1>1, <1>2, <1>3, <1>4, <1>5, <1>6 DEF Intake!Serve, Intake!Disturb

\* The steps of the whole system that leave the requests where they are.
LEMMA RestPlaces ==
    ASSUME PlaceInv, UNCHANGED <<buffer, wire, phase, saw, reply>>,
           faults' = faults \/ Intake!Fault,
           cache' \in [Seats -> Intake!CacheStates],
           lock' \in [Seats -> Requests \cup {NoReq}]
    PROVE  Places'
<1>1. faults' \in 0..MaxFaults
  BY FaultCounted DEF PlaceInv, Places, LocalTypes
<1>2. LocalTypes'
  BY <1>1 DEF PlaceInv, Places, LocalTypes
<1> QED
  BY <1>2, NobodyMoves DEF Places

\* The places, for every step of the system.
LEMMA StepPlaces == PlaceInv /\ [Next]_vars => PlaceInv'
<1> SUFFICES ASSUME PlaceInv, [Next]_vars PROVE Places'
  BY StepOnTheWay DEF PlaceInv
<1>1. cache \in [Seats -> Intake!CacheStates] /\ lock \in [Seats -> Requests \cup {NoReq}]
  BY DEF PlaceInv, Places, LocalTypes
<1>2. ASSUME NEW p \in Procs, Serve(p) \/ Disturb(p)
      PROVE  Places'
  BY <1>2, IntakePlaces DEF Serve, Disturb
<1>3. ASSUME NEW p \in Procs, Work(p) \/ WorkerErrs(p)
      PROVE  Places'
  <2>1. /\ UNCHANGED <<buffer, wire, phase, saw, reply, cache, lock>>
        /\ faults' = faults \/ Intake!Fault
    BY <1>3 DEF Work, Pop, WorkerFind, WorkerProceeds, WorkerCommits, WorkerRefuses,
                WorkerLoses, WorkerErrs, intake
  <2> QED
    BY <1>1, <2>1, RestPlaces
<1>4. ASSUME NEW p \in Procs, Crash(p)
      PROVE  Places'
  BY <1>4, CrashPlaces DEF Crash
<1>5. ASSUME NEW h \in Handlers,
             \/ \E r \in Requests, op \in {"confirm", "cancel"} : SettleFind(h, r, op)
             \/ SettleProceeds(h) \/ SettleEnds(h) \/ SettleErrs(h)
             \/ \E s \in Seats : UnholdFails(h, s)
      PROVE  Places'
  <2>1. /\ UNCHANGED <<buffer, wire, phase, saw, reply, lock>>
        /\ cache' \in [Seats -> Intake!CacheStates]
        /\ faults' = faults \/ Intake!Fault
    BY <1>1, <1>5 DEF SettleFind, SettleProceeds, SettleEnds, SettleErrs, UnholdFails,
                      Intake!CacheStates, intake
  <2> QED
    BY <1>1, <2>1, RestPlaces
<1>6. ASSUME NEW h \in Handlers, NEW s \in Seats, Unhold(h, s)
      PROVE  Places'
  <2>1. /\ UNCHANGED <<buffer, wire, phase, saw, reply, faults, lock>>
        /\ cache' \in [Seats -> Intake!CacheStates]
    BY <1>1, <1>6 DEF Unhold, Intake!CacheStates
  <2> QED
    BY <1>1, <2>1, RestPlaces
<1>7. ASSUME NEW s \in Seats,
             \/ Expire(s) \/ WarmRead(s)
             \/ \E status \in Intake!CacheStates : WarmSet(s, status)
      PROVE  Places'
  <2>1. /\ UNCHANGED <<buffer, wire, phase, saw, reply>>
        /\ faults' = faults \/ Intake!Fault
        /\ cache' \in [Seats -> Intake!CacheStates]
        /\ lock' \in [Seats -> Requests \cup {NoReq}]
    BY <1>1, <1>7 DEF Expire, Intake!Expire, Intake!KeyExpire, Intake!LockExpire,
                      Intake!local, WarmRead, WarmSet, WarmLeaves, Intake!CacheStates,
                      intake
  <2> QED
    BY <2>1, RestPlaces
<1>8. CASE UNCHANGED vars \/ \E p \in Performances : DeletePerformance(p)
  <2>1. UNCHANGED <<buffer, wire, phase, saw, reply, faults, cache, lock>>
    BY <1>8 DEF DeletePerformance, vars, intake
  <2> QED
    BY <1>1, <2>1, RestPlaces
<1> QED
  BY <1>2, <1>3, <1>4, <1>5, <1>6, <1>7, <1>8 DEF Next

\* At the start nobody is anywhere.
LEMMA InitPlaces == Init => PlaceInv
<1> SUFFICES ASSUME Init PROVE Places
  BY InitOnTheWay DEF PlaceInv
<1>1. InBuffer /\ OnWire /\ ScriptsWhole
  BY DEF Init, Intake!Init, InBuffer, OnWire, ScriptsWhole
<1>2. LocalTypes
  <2>1. cache \in [Seats -> Intake!CacheStates]
    BY FastPassAssumption DEF Init, Intake!Init, Intake!CacheStates
  <2>2. faults \in 0..MaxFaults
    BY FastPassAssumption DEF Init, Intake!Init
  <2>3. /\ lock \in [Seats -> Requests \cup {NoReq}]
        /\ phase = [r \in Requests |-> "new"] /\ saw = [r \in Requests |-> "none"]
        /\ reply = [r \in Requests |-> "none"]
    BY DEF Init, Intake!Init
  <2> QED
    BY <2>1, <2>2, <2>3 DEF LocalTypes, Intake!Phases
<1> QED
  BY <1>1, <1>2 DEF Places

-----------------------------------------------------------------------------
(***************************************************************************)
(* All that is true of the tables, the places and the drops at once.       *)
(***************************************************************************)
BaseInv == PlaceInv /\ TablesInOrder /\ DropInv

\* Whatever getSeats is about to cache is a status a seat can have, and a
\* cancellation of a handler frees a seat.
PendingSets ==
    /\ warming \subseteq Seats \X Intake!CacheStates
    /\ unholding \subseteq Handlers \X Seats

\* Every step leaves it so.
LEMMA StepPendingSets ==
    ASSUME PendingSets, TablesInOrder, [Next]_vars
    PROVE  PendingSets'
<1>1. ASSUME UNCHANGED extra
      PROVE  PendingSets'
  BY <1>1 DEF extra, PendingSets
<1>2. ASSUME NEW p \in Procs,
             Serve(p) \/ Work(p) \/ Disturb(p) \/ WorkerErrs(p) \/ Crash(p)
      PROVE  PendingSets'
  <2>1. UNCHANGED extra
    BY <1>2 DEF Serve, Disturb, Work, Pop, WorkerFind, WorkerProceeds, WorkerCommits,
                WorkerRefuses, WorkerLoses, WorkerErrs, Crash
  <2> QED
    BY <1>1, <2>1
<1>3. ASSUME NEW h \in Handlers,
             \/ \E r \in Requests, op \in {"confirm", "cancel"} : SettleFind(h, r, op)
             \/ SettleEnds(h) \/ SettleErrs(h)
      PROVE  PendingSets'
  <2>1. UNCHANGED extra
    BY <1>3 DEF SettleFind, SettleEnds, SettleErrs
  <2> QED
    BY <1>1, <2>1
<1>4. ASSUME NEW h \in Handlers, SettleProceeds(h)
      PROVE  PendingSets'
  <2>1. tx[h].op = "cancel" => SeatOf[tx[h].res] \in Seats
    BY FastPassAssumption DEF TablesInOrder
  <2> QED
    BY <1>4, <2>1 DEF SettleProceeds, PendingSets
<1>5. ASSUME NEW h \in Handlers, NEW s \in Seats, Unhold(h, s) \/ UnholdFails(h, s)
      PROVE  PendingSets'
  BY <1>5 DEF Unhold, UnholdFails, PendingSets
<1>6. ASSUME NEW s \in Seats, WarmRead(s)
      PROVE  PendingSets'
  BY <1>6 DEF WarmRead, PendingSets, Intake!CacheStates, TablesInOrder, Store!TypeOK,
              Store!SeatStates
<1>7. ASSUME NEW s \in Seats,
             Expire(s) \/ \E status \in Intake!CacheStates : WarmSet(s, status)
      PROVE  PendingSets'
  BY <1>7 DEF Expire, WarmSet, extra, PendingSets
<1>8. CASE UNCHANGED vars \/ \E p \in Performances : DeletePerformance(p)
  BY <1>1, <1>8 DEF vars, DeletePerformance
<1> QED
  BY <1>2, <1>3, <1>4, <1>5, <1>6, <1>7, <1>8 DEF Next

\* What holds of every behaviour, with errors and without.
LEMMA BaseHolds == Spec => [](BaseInv /\ PendingSets)
<1>1. Init => PendingSets
  BY DEF Init, PendingSets
<1>2. PlaceInv /\ StoreProofs!IInv /\ DropInv => BaseInv
  BY InOrder DEF BaseInv
<1>3. PendingSets /\ BaseInv /\ [Next]_vars => PendingSets'
  BY StepPendingSets DEF BaseInv
<1> QED
  BY <1>1, <1>2, <1>3, InitPlaces, StepPlaces, TablesHold, DropsHold, PTL DEF Spec

\* Every variable of the whole system keeps its type.
THEOREM TypesHold == Spec => []TypeOK
<1>1. BaseInv /\ PendingSets => TypeOK
  <2> SUFFICES ASSUME BaseInv, PendingSets PROVE TypeOK
    OBVIOUS
  <2> USE DEF BaseInv, PlaceInv, Places
  <2>1. \A c \in Seq(Piped) : c \in Seq(Intake!Pipeline)
    BY ElementOfSeq, SeqDef DEF Piped
  <2>2. wire \in [Procs -> Seq(Intake!Pipeline)]
    BY <2>1 DEF OnTheWay
  <2>3. Intake!TypeOK
    BY <2>2 DEF Intake!TypeOK, OnTheWay, LocalTypes
  <2> QED
    BY <2>3 DEF TypeOK, TablesInOrder, OnTheWay, DropInv, PendingSets
<1> QED
  BY <1>1, BaseHolds, PTL

-----------------------------------------------------------------------------
(***************************************************************************)
(* Records: what the steps do to them.                                     *)
(***************************************************************************)
\* An item that is pushed is on record, and nothing else changes.
LEMMA PushedOnRecord ==
    ASSUME queue \in Seq(Requests), NEW r \in Requests, queue' = Append(queue, r),
           UNCHANGED <<inHand, resStatus, dropped>>
    PROVE  OnRecord' = OnRecord \cup {r}
<1>1. /\ DOMAIN queue' = 1..(Len(queue) + 1) /\ DOMAIN queue = 1..Len(queue)
      /\ Len(queue) \in Nat
      /\ \A i \in DOMAIN queue' : queue'[i] = IF i \in DOMAIN queue THEN queue[i] ELSE r
  BY AppendProperties, LenProperties
<1>2. \A q \in Requests : Queued(q)' <=> (Queued(q) \/ q = r)
  BY <1>1 DEF Queued
<1> QED
  BY <1>2 DEF OnRecord, InHand, HasRow

\* The queue passes an item to the hand of a worker.
LEMMA PoppedOnRecord ==
    ASSUME BaseInv, NEW p \in Procs, Pop(p)
    PROVE  OnRecord' = OnRecord
<1>1. queue \in Seq(Requests) /\ queue # <<>> /\ inHand[p] = NoReq
  BY DEF BaseInv, PlaceInv, OnTheWay, Pop
<1>2. /\ DOMAIN queue = 1..Len(queue) /\ Len(queue) \in Nat
      /\ DOMAIN Tail(queue) = 1..(Len(queue) - 1) /\ Head(queue) = queue[1]
      /\ 1 \in DOMAIN queue
      /\ \A i \in DOMAIN Tail(queue) : Tail(queue)[i] = queue[i + 1]
  BY <1>1, HeadTailProperties, LenProperties, EmptySeq
<1>3. \A q \in Requests : Queued(q) <=> (Queued(q)' \/ q = Head(queue))
  <2>1. queue' = Tail(queue)
    BY DEF Pop
  <2>2. ASSUME NEW q \in Requests, NEW i \in DOMAIN queue, queue[i] = q, i # 1
        PROVE  i - 1 \in DOMAIN Tail(queue) /\ Tail(queue)[i - 1] = q
    BY <1>2, <2>2
  <2>3. \A i \in DOMAIN Tail(queue) : i + 1 \in DOMAIN queue
    BY <1>2
  <2> QED
    BY <1>2, <2>1, <2>2, <2>3 DEF Queued
<1>4. \A q \in Requests : InHand(q)' <=> (InHand(q) \/ q = Head(queue))
  <2>1. \A c \in Procs : inHand'[c] = IF c = p THEN Head(queue) ELSE inHand[c]
    BY DEF Pop, BaseInv, PlaceInv, OnTheWay
  <2> QED
    BY <1>1, <2>1, FastPassAssumption DEF InHand
<1> QED
  BY <1>3, <1>4 DEF OnRecord, HasRow, Pop, store

\* A worker that commits or gives up leaves a row or a log line.
LEMMA WorkedOnRecord ==
    ASSUME BaseInv, NEW p \in Procs, Work(p)
    PROVE  OnRecord' = OnRecord
<1>1. /\ inHand \in [Procs -> Requests \cup {NoReq}]
      /\ resStatus \in [Requests -> Store!RowStates]
  BY DEF BaseInv, PlaceInv, OnTheWay, TablesInOrder, Store!TypeOK
<1>2. ASSUME UNCHANGED <<queue, inHand, resStatus, dropped>>
      PROVE  OnRecord' = OnRecord
  BY <1>2 DEF OnRecord, Queued, InHand, HasRow
<1>3. CASE Pop(p)
  BY <1>3, PoppedOnRecord
<1>4. CASE WorkerFind(p) \/ WorkerProceeds(p)
  <2>1. UNCHANGED <<queue, inHand, resStatus, dropped>>
    BY <1>4 DEF WorkerFind, WorkerProceeds, Store!PersistFind, Store!PersistUpdate,
                Store!PersistCreate, intake, work
  <2> QED
    BY <1>2, <2>1
<1>5. ASSUME inHand[p] \in Requests, inHand' = [inHand EXCEPT ![p] = NoReq], UNCHANGED queue,
             \/ dropped' = dropped \cup {inHand[p]} /\ UNCHANGED resStatus
             \/ UNCHANGED dropped /\ resStatus' = [resStatus EXCEPT ![inHand[p]] = "PENDING"]
      PROVE  OnRecord' = OnRecord
  <2>1. \A q \in Requests : InHand(q) <=> (InHand(q)' \/ q = inHand[p])
    BY <1>1, <1>5, FastPassAssumption DEF InHand
  <2>2. \A q \in Requests : (HasRow(q)' \/ q \in dropped')
                              <=> (HasRow(q) \/ q \in dropped \/ q = inHand[p])
    BY <1>1, <1>5 DEF HasRow
  <2> QED
    BY <1>5, <2>1, <2>2 DEF OnRecord, Queued
<1>6. CASE WorkerCommits(p)
  <2>1. tx[p].res = inHand[p] /\ inHand[p] \in Requests
    BY <1>6 DEF WorkerCommits, Store!PersistCommit, Store!Persists, Store!Idle, BaseInv,
                DropInv, WorksOnHand
  <2> QED
    BY <1>5, <1>6, <2>1 DEF WorkerCommits, Store!PersistCommit, intake
<1>7. CASE WorkerRefuses(p)
  BY <1>1, <1>5, <1>7 DEF WorkerRefuses, GivesUp, intake, store
<1>8. CASE WorkerLoses(p)
  <2>1. inHand[p] \in Requests
    BY <1>8, LosesToSomebody DEF BaseInv, DropInv
  <2>2. UNCHANGED <<queue, resStatus>>
    BY <1>8 DEF WorkerLoses, Store!PersistCollide, Store!PersistDuplicate,
                Store!DeadlockVictim, intake
  <2> QED
    BY <1>5, <1>8, <2>1, <2>2 DEF WorkerLoses, GivesUp
<1> QED
  BY <1>3, <1>4, <1>6, <1>7, <1>8 DEF Work

\* Who settles a reservation settles one that has a row.
LEMMA SettledOnRecord ==
    ASSUME BaseInv, NEW h \in Handlers,
           \/ \E r \in Requests, op \in {"confirm", "cancel"} : SettleFind(h, r, op)
           \/ SettleProceeds(h) \/ SettleEnds(h)
    PROVE  OnRecord' = OnRecord
<1>1. UNCHANGED <<queue, inHand, dropped>>
  BY DEF SettleFind, SettleProceeds, SettleEnds, intake, work
<1>2. \A r \in Requests : HasRow(r)' <=> HasRow(r)
  <2>1. CASE Store!SettleCommit(h)
    <3>1. tx[h].res \in Requests /\ HasRow(tx[h].res)
      BY <2>1 DEF Store!SettleCommit, Store!Settles, BaseInv, TablesInOrder
    <3> QED
      BY <2>1, <3>1 DEF Store!SettleCommit, Store!RowOutcome, HasRow, BaseInv,
                        TablesInOrder, Store!TypeOK
  <2>2. CASE UNCHANGED resStatus
    BY <2>2 DEF HasRow
  <2> QED
    BY <2>1, <2>2 DEF SettleFind, SettleProceeds, SettleEnds, Store!SettleFind,
                      Store!SettleFirst, Store!SettleSecond, Store!DeadlockVictim
<1> QED
  BY <1>1, <1>2 DEF OnRecord, Queued, InHand

\* Steps that touch neither phases, results, replies nor pipelines.
LEMMA RestRecords ==
    ASSUME Records, OnRecord' = OnRecord, UNCHANGED <<wire, phase, saw, reply>>
    PROVE  Records'
BY DEF Records, PhaseRecord, WireRecord, Rider

\* A new pipeline serves requests without a record or result.
LEMMA SendBatchRecords ==
    ASSUME PlaceInv, Records, NEW p \in Procs, NEW batch \in Seq(Requests),
           \A i \in DOMAIN batch : phase[batch[i]] \in {"new", "buffered"},
           Intake!SendBatch(p, batch), OnRecord' = OnRecord
    PROVE  Records'
<1> DEFINE c == Intake!ScriptsFor(batch)
<1>1. /\ wire' = [wire EXCEPT ![p] = Append(@, c)]
      /\ phase' = Intake!Moved(ToSet(batch), "piped") /\ UNCHANGED <<saw, reply>>
  BY DEF Intake!SendBatch, Intake!ToSet, ToSet
<1>2. c.kind = "script" /\ c.batch = batch /\ c.cmds = DOMAIN batch /\ c.next = 1
  BY DEF Intake!ScriptsFor
<1> HIDE DEF c
<1>3. \A i \in DOMAIN batch : batch[i] \in Requests
  BY ElementOfSeq, LenProperties
<1>4. ASSUME NEW r \in Requests
      PROVE  PhaseRecord(r)'
  <2>1. phase'[r] = IF r \in ToSet(batch) THEN "piped" ELSE phase[r]
    BY <1>1 DEF Intake!Moved
  <2>2. r \in ToSet(batch) => phase[r] \in {"new", "buffered"}
    BY DEF ToSet
  <2>3. PhaseRecord(r)
    BY DEF Records
  <2> QED
    BY <1>1, <2>1, <2>2, <2>3 DEF PhaseRecord
<1>5. ASSUME NEW q \in Procs, NEW k \in DOMAIN wire'[q], NEW i \in wire'[q][k].cmds
      PROVE  WireRecord(q, k, i)'
  <2>1. \/ k \in DOMAIN wire[q] /\ wire'[q][k] = wire[q][k]
        \/ q = p /\ k = Len(wire[p]) + 1 /\ wire'[q][k] = c
    BY <1>1, AppendedWire DEF PlaceInv
  <2>2. CASE k \in DOMAIN wire[q] /\ wire'[q][k] = wire[q][k]
    BY <1>1, <2>2 DEF Records, WireRecord, Rider
  <2>3. CASE wire'[q][k] = c
    <3>1. i \in DOMAIN batch /\ batch[i] \in Requests
      BY <1>2, <1>3, <2>3
    <3>2. batch[i] \notin OnRecord /\ saw[batch[i]] = "none"
      BY <3>1 DEF Records, PhaseRecord
    <3> QED
      BY <1>1, <1>2, <2>3, <3>2 DEF WireRecord, Rider
  <2> QED
    BY <2>1, <2>2, <2>3
<1> QED
  BY <1>4, <1>5 DEF Records

\* reserveSeat.
LEMMA SubmitRecords ==
    ASSUME PlaceInv, Records, NEW r \in Requests, Intake!Submit(r), OnRecord' = OnRecord
    PROVE  Records'
<1> DEFINE p == HomeOf[r]
           batch == Append(buffer[p], r)
<1>1. p \in Procs /\ buffer[p] \in Seq(Requests) /\ batch \in Seq(Requests)
  <2>1. HomeOf[r] \in Procs
    BY FastPassAssumption
  <2>2. buffer[HomeOf[r]] \in Seq(Requests)
    BY <2>1 DEF PlaceInv, OnTheWay
  <2> QED
    BY <2>1, <2>2, AppendProperties
<1>2. \A i \in DOMAIN batch :
          (i \in DOMAIN buffer[p] /\ batch[i] = buffer[p][i]) \/ batch[i] = r
  BY <1>1, AppendProperties, LenProperties
<1>3. phase[r] = "new"
  BY DEF Intake!Submit
<1>4. \A i \in DOMAIN batch : phase[batch[i]] \in {"new", "buffered"}
  BY <1>1, <1>2, <1>3 DEF PlaceInv, Places, InBuffer
<1>5. CASE Intake!SendBatch(p, batch)
  <2> HIDE DEF batch
  <2> QED
    BY <1>1, <1>4, <1>5, SendBatchRecords
<1>6. CASE phase' = [phase EXCEPT ![r] = "buffered"] /\ UNCHANGED <<wire, saw, reply>>
  <2>1. \A q \in Requests : phase'[q] = IF q = r THEN "buffered" ELSE phase[q]
    BY <1>6 DEF PlaceInv, Places, LocalTypes
  <2> QED
    BY <1>3, <1>6, <2>1 DEF Records, PhaseRecord, WireRecord, Rider
<1> QED
  BY <1>5, <1>6 DEF Intake!Submit, Intake!redis

\* Redis runs the command of a request: its script gives a result, its push
\* puts it on record.
LEMMA CommandRecords ==
    ASSUME PlaceInv, Records, NEW p \in Procs, NEW k \in DOMAIN wire[p],
           NEW i \in wire[p][k].cmds, Intake!Upcoming(p, k, i),
           Answers(p, k, i),
           saw' = [saw EXCEPT ![Rider(p, k, i)] =
                      Intake!ResultOf(wire[p][k].kind, Rider(p, k, i))],
           OnRecord' = IF wire[p][k].kind = "push" THEN OnRecord \cup {Rider(p, k, i)}
                                                   ELSE OnRecord,
           UNCHANGED <<phase, reply>>
    PROVE  Records'
<1> DEFINE r == Rider(p, k, i)
           c == wire[p][k]
<1>1. OnTheWay /\ r \in Requests /\ phase[r] = "piped"
  BY WireTypes DEF PlaceInv, Places, OnWire
<1>2. /\ c.kind \in {"script", "push"} /\ i \in Nat /\ i >= c.next /\ c.next \in Nat
      /\ \A j \in c.cmds : j \in Nat /\ (j >= c.next => i <= j)
  BY <1>1, WireTypes DEF Intake!Upcoming, Intake!NotRun
<1>3. \A q \in Requests : q # r => saw'[q] = saw[q] /\ (q \in OnRecord' <=> q \in OnRecord)
  BY DEF PlaceInv, Places, LocalTypes
<1>4. ASSUME NEW q \in Requests
      PROVE  PhaseRecord(q)'
  <2>1. PhaseRecord(q)
    BY DEF Records
  <2>2. CASE q # r
    BY <1>3, <2>1, <2>2 DEF PhaseRecord
  <2>3. CASE q = r /\ c.kind = "push"
    <3>1. saw'[r] = "OK"
      BY <1>1, <2>3 DEF Intake!ResultOf, PlaceInv, Places, LocalTypes
    <3> QED
      BY <1>1, <2>1, <2>3, <3>1 DEF PhaseRecord
  <2>4. CASE q = r /\ c.kind = "script"
    <3>1. r \notin OnRecord'
      BY <2>4 DEF Records, WireRecord
    <3> QED
      BY <1>1, <2>1, <2>4, <3>1 DEF PhaseRecord
  <2> QED
    BY <1>2, <2>2, <2>3, <2>4
<1>5. ASSUME NEW q \in Procs, NEW l \in DOMAIN wire'[q], NEW j \in wire'[q][l].cmds
      PROVE  WireRecord(q, l, j)'
  <2>1. /\ l \in DOMAIN wire[q] /\ j \in wire[q][l].cmds
        /\ wire'[q][l].kind = wire[q][l].kind /\ wire'[q][l].batch[j] = Rider(q, l, j)
        /\ wire'[q][l].next = IF q = p /\ l = k THEN i + 1 ELSE wire[q][l].next
    <3>1. Advances(p, k, i, q, l)
      BY <1>1, AnsweredWire
    <3> QED
      BY <1>5, <3>1 DEF Advances, Rider
  <2>2. Rider(q, l, j) \in Requests /\ HomeOf[Rider(q, l, j)] = q /\ HomeOf[r] = p
    BY <1>1, <2>1, WireTypes DEF PlaceInv, Places, OnWire
  <2>3. WireRecord(q, l, j)
    BY <2>1 DEF Records
  <2>4. CASE ~(q = p /\ l = k)
    <3>1. Rider(q, l, j) # r
      BY <2>1, <2>2, <2>4, OnePlace
    <3> QED
      BY <1>3, <2>1, <2>2, <2>3, <2>4, <3>1 DEF WireRecord, Rider
  <2>5. CASE q = p /\ l = k /\ j # i
    <3>1. Rider(q, l, j) # r
      BY <2>1, <2>5, OnePlace
    <3>2. (j >= i + 1 => j >= c.next) /\ (j < c.next <=> j < i + 1)
      BY <1>2, <2>1, <2>5
    <3>3. wire'[q][l].next = i + 1 /\ wire[q][l] = c
      BY <2>1, <2>5
    <3> QED
      BY <1>3, <2>1, <2>2, <2>3, <3>1, <3>2, <3>3 DEF WireRecord, Rider
  <2>6. CASE q = p /\ l = k /\ j = i
    <3>1. ~(i >= i + 1) /\ i < i + 1
      BY <1>2
    <3>2. wire'[q][l].batch[j] = r /\ wire'[q][l].kind = c.kind /\ wire'[q][l].next = i + 1
      BY <2>1, <2>6
    <3>3. CASE c.kind = "script"
      <4>1. r \notin OnRecord'
        BY <2>3, <2>6, <3>3 DEF WireRecord
      <4> QED
        BY <2>6, <3>1, <3>2, <3>3, <4>1 DEF WireRecord, Rider
    <3>4. CASE c.kind = "push"
      <4>1. r \in OnRecord' /\ saw'[r] = "OK"
        BY <1>1, <3>4 DEF Intake!ResultOf, PlaceInv, Places, LocalTypes
      <4> QED
        BY <2>6, <3>1, <3>2, <3>4, <4>1 DEF WireRecord, Rider
    <3> QED
      BY <1>2, <3>3, <3>4
  <2> QED
    BY <2>4, <2>5, <2>6
<1> QED
  BY <1>4, <1>5 DEF Records

\* The pipelines after one was handled, if the next one starts from requests
\* that got OK and have no record.
LEMMA HandledRecords ==
    ASSUME PlaceInv, Records, NEW p \in Procs, NEW more, Handles(p, more),
           \A m \in DOMAIN more :
              /\ m = 1 /\ more[m].kind = "push"
              /\ \A i \in more[m].cmds :
                    /\ saw[more[m].batch[i]] = "OK" /\ more[m].batch[i] \notin OnRecord
                    /\ ~(i < more[m].next),
           UNCHANGED saw, OnRecord' = OnRecord,
           \A r \in Requests : PhaseRecord(r)'
    PROVE  Records'
<1> SUFFICES ASSUME NEW q \in Procs, NEW k \in DOMAIN wire'[q], NEW i \in wire'[q][k].cmds
             PROVE  WireRecord(q, k, i)'
  BY DEF Records
<1>1. ComesFrom(p, more, q, k)
  <2>1. OnTheWay /\ \A m \in DOMAIN more : m = 1
    BY DEF PlaceInv
  <2> QED
    BY <2>1, OrigOfPipeline
<1>2. CASE wire'[q][k] = wire[q][Orig(p, q, k)]
  <2>1. Orig(p, q, k) \in DOMAIN wire[q]
    BY <1>1 DEF ComesFrom
  <2>2. WireRecord(q, Orig(p, q, k), i)
    BY <1>2, <2>1 DEF Records
  <2> QED
    BY <1>2, <2>2 DEF WireRecord, Rider
<1>3. CASE 1 \in DOMAIN more /\ wire'[q][k] = more[1]
  BY <1>3 DEF WireRecord, Rider
<1> QED
  BY <1>1, <1>2, <1>3 DEF ComesFrom

\* The results of the scripts: who is refused has no record.
LEMMA HandleScriptsRecords ==
    ASSUME PlaceInv, Records, NEW p \in Procs, Intake!HandleScripts(p), OnRecord' = OnRecord
    PROVE  Records'
<1> DEFINE c == wire[p][1]
           won == {i \in DOMAIN c.batch : saw[c.batch[i]] = "OK"}
           more == IF won = {} THEN <<>> ELSE <<Intake!PushesFor(c.batch, won)>>
<1>1. OnTheWay /\ wire[p] # <<>> /\ 1 \in DOMAIN wire[p] /\ Head(wire[p]) = c
  BY OldestFirst DEF Intake!HandleScripts, Intake!Complete, PlaceInv
<1>2. c.kind = "script"
  BY <1>1 DEF Intake!HandleScripts, Intake!Complete
<1>3. /\ c.cmds = DOMAIN c.batch
      /\ \A i \in DOMAIN c.batch :
            i \in Nat /\ i >= 1 /\ c.batch[i] \in Requests /\ c.batch[i] = Rider(p, 1, i)
  BY <1>1, <1>2, WireTypes DEF PlaceInv, Places, ScriptsWhole, Rider
<1>4. ASSUME NEW i \in DOMAIN c.batch
      PROVE  /\ phase[c.batch[i]] = "piped" /\ reply[c.batch[i]] = "none"
             /\ c.batch[i] \notin OnRecord
  <2>1. WireRecord(p, 1, i) /\ PhaseRecord(c.batch[i])
    BY <1>1, <1>3 DEF Records
  <2>2. phase[c.batch[i]] = "piped"
    BY <1>1, <1>3 DEF PlaceInv, Places, OnWire
  <2> QED
    BY <1>2, <1>3, <2>1, <2>2 DEF WireRecord, PhaseRecord
<1>5. wire' = [wire EXCEPT ![p] = Tail(@) \o more] /\ UNCHANGED saw
  BY <1>1 DEF Intake!HandleScripts
<1>6. /\ phase' = [r \in Requests |->
            CASE r \in {q \in ToSet(c.batch) : saw[q] = "MISS"} -> "lock"
              [] r \in {q \in ToSet(c.batch) : saw[q] \notin {"OK", "MISS"}} -> "done"
              [] OTHER -> phase[r]]
      /\ reply' = [r \in Requests |->
            IF r \in {q \in ToSet(c.batch) : saw[q] \notin {"OK", "MISS"}}
            THEN Intake!Settled(r, "rejected") ELSE reply[r]]
  BY <1>1 DEF Intake!HandleScripts, Intake!ToSet, ToSet
<1> HIDE DEF c
<1>7. Intake!PushesFor(c.batch, won) \in Piped
  <2>1. c.batch \in Seq(Requests)
    BY <1>1, WireTypes DEF c
  <2> QED
    BY <1>3, <2>1 DEF Intake!PushesFor, Piped, Intake!Pipeline
<1>8. Handles(p, more)
  BY <1>1, <1>5, <1>7 DEF Handles
<1>9. \A m \in DOMAIN more :
         /\ m = 1 /\ more[m].kind = "push"
         /\ \A i \in more[m].cmds :
               /\ saw[more[m].batch[i]] = "OK" /\ more[m].batch[i] \notin OnRecord
               /\ ~(i < more[m].next)
  BY <1>3, <1>4 DEF Intake!PushesFor
<1>10. ASSUME NEW r \in Requests
       PROVE  PhaseRecord(r)'
  <2>1. PhaseRecord(r)
    BY DEF Records
  <2>2. CASE r \in ToSet(c.batch)
    <3>1. phase[r] = "piped" /\ reply[r] = "none" /\ r \notin OnRecord
      BY <1>4, <2>2 DEF ToSet
    <3>2. \/ phase'[r] = "lock" /\ reply'[r] = "none"
          \/ phase'[r] = "done" /\ reply'[r] = "rejected"
          \/ phase'[r] = "piped" /\ reply'[r] = "none"
      BY <1>6, <3>1 DEF Intake!Settled
    <3> QED
      BY <3>1, <3>2 DEF PhaseRecord
  <2>3. CASE r \notin ToSet(c.batch)
    <3>1. phase'[r] = phase[r] /\ reply'[r] = reply[r]
      BY <1>6, <2>3
    <3> QED
      BY <1>5, <2>1, <3>1 DEF PhaseRecord
  <2> QED
    BY <2>2, <2>3
<1> HIDE DEF more, won
<1> QED
  BY <1>5, <1>8, <1>9, <1>10, HandledRecords

\* The results of the pushes: whoever is accepted is on record.
LEMMA HandlePushesRecords ==
    ASSUME PlaceInv, Records, NEW p \in Procs, Intake!HandlePushes(p), OnRecord' = OnRecord
    PROVE  Records'
<1> DEFINE c == wire[p][1]
           more == <<>>
<1>1. OnTheWay /\ wire[p] # <<>> /\ 1 \in DOMAIN wire[p] /\ Head(wire[p]) = c
  BY OldestFirst DEF Intake!HandlePushes, Intake!Complete, PlaceInv
<1>2. /\ c.kind = "push" /\ Intake!NotRun(c) = {}
      /\ wire' = [wire EXCEPT ![p] = Tail(@)] /\ UNCHANGED saw
      /\ phase' = Intake!Moved(Intake!Served(c), "done")
      /\ reply' = [r \in Requests |->
            IF r \in Intake!Served(c)
            THEN Intake!Settled(r, IF saw[r] = "OK" THEN "accepted" ELSE "rejected")
            ELSE reply[r]]
  BY <1>1 DEF Intake!HandlePushes, Intake!Complete
<1>3. ASSUME NEW r \in Intake!Served(c)
      PROVE  r \in OnRecord /\ saw[r] = "OK" /\ phase[r] = "piped"
  <2>1. PICK i \in c.cmds : r = Rider(p, 1, i)
    BY DEF Intake!Served, Rider
  <2>2. WireRecord(p, 1, i) /\ phase[r] = "piped"
    BY <1>1, <2>1 DEF Records, PlaceInv, Places, OnWire
  <2>3. i < c.next
    <3>1. i \in Nat /\ c.next \in Nat /\ ~(i >= c.next)
      BY <1>1, <1>2, WireTypes DEF Intake!NotRun
    <3> QED
      BY <3>1
  <2> QED
    BY <1>2, <2>1, <2>2, <2>3 DEF WireRecord
<1>4. wire' = [wire EXCEPT ![p] = Tail(@) \o more]
  BY <1>1, <1>2, HeadTailOfWire, ConcatEmptySeq
<1>5. Handles(p, more) /\ DOMAIN more = {}
  BY <1>1, <1>4 DEF Handles
<1>6. ASSUME NEW r \in Requests
      PROVE  PhaseRecord(r)'
  <2>1. PhaseRecord(r)
    BY DEF Records
  <2>2. CASE r \in Intake!Served(c)
    <3>1. r \in OnRecord /\ saw[r] = "OK" /\ reply[r] = "none"
      BY <1>3, <2>1, <2>2 DEF PhaseRecord
    <3>2. phase'[r] = "done" /\ reply'[r] = "accepted"
      BY <1>2, <2>2, <3>1 DEF Intake!Moved, Intake!Settled
    <3> QED
      BY <1>2, <3>1, <3>2 DEF PhaseRecord
  <2>3. CASE r \notin Intake!Served(c)
    <3>1. phase'[r] = phase[r] /\ reply'[r] = reply[r]
      BY <1>2, <2>3 DEF Intake!Moved
    <3> QED
      BY <1>2, <2>1, <3>1 DEF PhaseRecord
  <2> QED
    BY <2>2, <2>3
<1> HIDE DEF more
<1>7. \A m \in DOMAIN more :
         /\ m = 1 /\ more[m].kind = "push"
         /\ \A i \in more[m].cmds :
               /\ saw[more[m].batch[i]] = "OK" /\ more[m].batch[i] \notin OnRecord
               /\ ~(i < more[m].next)
  BY <1>5
<1> QED
  BY <1>2, <1>5, <1>6, <1>7, HandledRecords

\* The slow path puts its request on record before it accepts it, and after
\* that it does not reject it.
LEMMA SlowRecords ==
    ASSUME PlaceInv, Records, NEW r \in Requests, Intake!SlowStep(r),
           OnRecord' = IF Intake!Enqueue(r) THEN OnRecord \cup {r} ELSE OnRecord
    PROVE  Records'
<1> USE DEF PlaceInv, Places, LocalTypes
<1>1. phase[r] \in {"lock", "read", "mark", "enqueue", "hold", "release"}
  BY DEF Intake!SlowStep, Intake!Acquire, Intake!LockBusy, Intake!ReadAvailable,
         Intake!ReadTaken, Intake!ReadNothing, Intake!Mark, Intake!Enqueue, Intake!Hold,
         Intake!Release, Intake!Finish
<1>2. PhaseRecord(r) /\ reply[r] = "none"
  BY <1>1 DEF Records, PhaseRecord
<1>3. /\ UNCHANGED wire
      /\ \A q \in Requests \ {r} :
            /\ phase'[q] = phase[q] /\ saw'[q] = saw[q] /\ reply'[q] = reply[q]
            /\ q \in OnRecord' <=> q \in OnRecord
  BY DEF Intake!SlowStep, Intake!Acquire, Intake!LockBusy, Intake!ReadAvailable,
         Intake!ReadTaken, Intake!ReadNothing, Intake!Mark, Intake!Enqueue, Intake!Hold,
         Intake!Release, Intake!Finish, Intake!Leaves
<1>4. PhaseRecord(r)'
  <2>1. CASE Intake!Acquire(r)
    BY <1>2, <2>1 DEF Intake!Acquire, Intake!Enqueue, PhaseRecord
  <2>2. CASE Intake!LockBusy(r)
    BY <1>2, <2>2 DEF Intake!LockBusy, Intake!Enqueue, Intake!Settled, PhaseRecord
  <2>3. CASE Intake!ReadAvailable(r) \/ Intake!ReadTaken(r)
    BY <1>2, <2>3 DEF Intake!ReadAvailable, Intake!ReadTaken, Intake!Enqueue, PhaseRecord
  <2>4. CASE Intake!ReadNothing(r) \/ Intake!Mark(r) \/ Intake!Hold(r)
    BY <1>2, <2>4 DEF Intake!ReadNothing, Intake!Mark, Intake!Hold, Intake!Leaves,
                      Intake!Enqueue, PhaseRecord
  <2>5. CASE Intake!Enqueue(r)
    BY <1>2, <2>5 DEF Intake!Enqueue, PhaseRecord
  <2>6. CASE Intake!Release(r)
    BY <1>2, <2>6 DEF Intake!Release, Intake!Finish, Intake!Settled, Intake!Enqueue,
                      PhaseRecord
  <2> QED
    BY <2>1, <2>2, <2>3, <2>4, <2>5, <2>6 DEF Intake!SlowStep
<1>5. ASSUME NEW q \in Requests
      PROVE  PhaseRecord(q)'
  <2>1. CASE q = r
    BY <1>4, <2>1
  <2>2. CASE q # r
    BY <1>3, <2>2 DEF Records, PhaseRecord
  <2> QED
    BY <2>1, <2>2
<1>6. ASSUME NEW p \in Procs, NEW k \in DOMAIN wire[p], NEW i \in wire[p][k].cmds
      PROVE  WireRecord(p, k, i)'
  <2>1. Rider(p, k, i) \in Requests \ {r}
    BY <1>1, WireTypes DEF OnWire
  <2>2. WireRecord(p, k, i)
    BY DEF Records
  <2> QED
    BY <1>3, <2>1, <2>2 DEF WireRecord, Rider
<1> QED
  BY <1>3, <1>5, <1>6 DEF Records

\* What a process does for its requests.
LEMMA ServeRecords ==
    ASSUME PlaceInv, Records, NEW p \in Procs, Serve(p)
    PROVE  Records'
<1>1. UNCHANGED <<inHand, resStatus, dropped>>
  BY DEF Serve, store, work
<1>2. ASSUME UNCHANGED queue
      PROVE  OnRecord' = OnRecord
  BY <1>1, <1>2 DEF OnRecord, Queued, InHand, HasRow
<1>3. ASSUME NEW r \in Requests, Intake!PushItem(r)
      PROVE  OnRecord' = OnRecord \cup {r}
  BY <1>1, <1>3, PushedOnRecord DEF Intake!PushItem, PlaceInv, OnTheWay
<1>4. ASSUME NEW r \in Requests, Intake!Submit(r)
      PROVE  Records'
  <2>1. UNCHANGED queue
    BY <1>4 DEF Intake!Submit, Intake!SendBatch, Intake!redis
  <2> QED
    BY <1>2, <1>4, <2>1, SubmitRecords
<1>5. CASE Intake!Flush(p)
  <2>1. Intake!SendBatch(p, buffer[p]) /\ UNCHANGED queue
    BY <1>5 DEF Intake!Flush, Intake!SendBatch, Intake!redis
  <2>2. /\ buffer[p] \in Seq(Requests)
        /\ \A i \in DOMAIN buffer[p] : phase[buffer[p][i]] \in {"new", "buffered"}
    BY DEF PlaceInv, Places, OnTheWay, InBuffer
  <2> QED
    BY <1>2, <2>1, <2>2, SendBatchRecords
<1>6. CASE Intake!RunCommand(p)
  <2>1. PICK k \in DOMAIN wire[p] : \E i \in wire[p][k].cmds :
           /\ Intake!Upcoming(p, k, i)
           /\ Intake!Answered(p, k, i, Intake!Execute(wire[p][k].kind, Rider(p, k, i)),
                              Intake!ResultOf(wire[p][k].kind, Rider(p, k, i)))
    BY <1>6 DEF Intake!RunCommand, Rider
  <2>2. PICK i \in wire[p][k].cmds :
           /\ Intake!Upcoming(p, k, i)
           /\ Intake!Answered(p, k, i, Intake!Execute(wire[p][k].kind, Rider(p, k, i)),
                              Intake!ResultOf(wire[p][k].kind, Rider(p, k, i)))
    BY <2>1
  <2>3. /\ Intake!Execute(wire[p][k].kind, Rider(p, k, i)) /\ Answers(p, k, i)
        /\ saw' = [saw EXCEPT ![Rider(p, k, i)] =
                      Intake!ResultOf(wire[p][k].kind, Rider(p, k, i))]
        /\ UNCHANGED <<phase, reply>>
    BY <2>2 DEF Intake!Answered, Answers, Rider
  <2>4. Rider(p, k, i) \in Requests /\ wire[p][k].kind \in {"script", "push"}
    BY WireTypes DEF PlaceInv
  <2>5. OnRecord' = IF wire[p][k].kind = "push" THEN OnRecord \cup {Rider(p, k, i)}
                                                ELSE OnRecord
    BY <1>2, <1>3, <2>3, <2>4 DEF Intake!Execute, Intake!PushItem
  <2> QED
    BY <2>2, <2>3, <2>5, CommandRecords
<1>7. CASE Intake!HandleScripts(p) \/ Intake!HandlePushes(p)
  <2>1. UNCHANGED queue
    BY <1>7 DEF Intake!HandleScripts, Intake!HandlePushes, Intake!redis
  <2> QED
    BY <1>2, <1>7, <2>1, HandleScriptsRecords, HandlePushesRecords
<1>8. ASSUME NEW r \in Requests, Intake!SlowStep(r)
      PROVE  Records'
  <2>1. CASE Intake!Enqueue(r)
    <3>1. OnRecord' = OnRecord \cup {r}
      BY <1>3, <2>1 DEF Intake!Enqueue
    <3> QED
      BY <1>8, <2>1, <3>1, SlowRecords
  <2>2. CASE ~Intake!Enqueue(r)
    <3>1. UNCHANGED queue
      BY <1>8, <2>2 DEF Intake!SlowStep, Intake!Acquire, Intake!LockBusy,
                        Intake!ReadAvailable, Intake!ReadTaken, Intake!ReadNothing,
                        Intake!Mark, Intake!Hold, Intake!Release, Intake!Finish,
                        Intake!redis
    <3> QED
      BY <1>2, <1>8, <2>2, <3>1, SlowRecords
  <2> QED
    BY <2>1, <2>2
<1> QED
  BY <1>4, <1>5, <1>6, <1>7, <1>8 DEF Serve, Intake!Serve

\* As long as nothing fails, the records are in order.
LEMMA StepRecords ==
    ASSUME BaseInv, faults = 0 => Records, [Next]_vars, faults' = 0
    PROVE  Records'
<1>1. faults = 0 /\ Records /\ ~Intake!Fault
  BY FaultsGrow DEF Intake!Fault, BaseInv, DropInv
<1>2. ASSUME UNCHANGED <<queue, inHand, resStatus, dropped>>
      PROVE  OnRecord' = OnRecord
  BY <1>2 DEF OnRecord, Queued, InHand, HasRow
<1>3. ASSUME NEW p \in Procs, Serve(p)
      PROVE  Records'
  BY <1>1, <1>3, ServeRecords DEF BaseInv
<1>4. ASSUME NEW p \in Procs, Disturb(p) \/ WorkerErrs(p) \/ Crash(p)
      PROVE  FALSE
  BY <1>1, <1>4 DEF Disturb, Intake!Disturb, Intake!CommandFails, Intake!ExecRejected,
                    Intake!AcquireFault, Intake!SlowFault, Intake!SlowResend,
                    Intake!ReleaseFault, WorkerErrs, Crash, Intake!Crash
<1>5. ASSUME NEW p \in Procs, Work(p)
      PROVE  Records'
  <2>1. UNCHANGED <<wire, phase, saw, reply>>
    BY <1>5 DEF Work, Pop, WorkerFind, WorkerProceeds, WorkerCommits, WorkerRefuses,
                WorkerLoses, intake
  <2> QED
    BY <1>1, <1>5, <2>1, WorkedOnRecord, RestRecords
<1>6. ASSUME NEW h \in Handlers,
             \/ \E r \in Requests, op \in {"confirm", "cancel"} : SettleFind(h, r, op)
             \/ SettleProceeds(h) \/ SettleEnds(h)
      PROVE  Records'
  <2>1. UNCHANGED <<wire, phase, saw, reply>>
    BY <1>6 DEF SettleFind, SettleProceeds, SettleEnds, intake
  <2>2. OnRecord' = OnRecord
    BY <1>6, SettledOnRecord
  <2> QED
    BY <1>1, <2>1, <2>2, RestRecords
<1>7. ASSUME NEW h \in Handlers, SettleErrs(h) \/ \E s \in Seats : UnholdFails(h, s)
      PROVE  FALSE
  BY <1>1, <1>7 DEF SettleErrs, UnholdFails
<1>8. ASSUME NEW s \in Seats,
             \/ \E h \in Handlers : Unhold(h, s)
             \/ Expire(s) \/ WarmRead(s)
             \/ \E status \in Intake!CacheStates : WarmSet(s, status)
      PROVE  Records'
  <2>1. UNCHANGED <<wire, phase, saw, reply, queue, inHand, resStatus, dropped>>
    BY <1>8 DEF Unhold, Expire, Intake!Expire, Intake!KeyExpire, Intake!LockExpire,
                Intake!local, WarmRead, WarmSet, store, intake, work
  <2> QED
    BY <1>1, <1>2, <2>1, RestRecords
<1>9. CASE UNCHANGED vars \/ \E p \in Performances : DeletePerformance(p)
  <2>1. UNCHANGED <<wire, phase, saw, reply, queue, inHand, resStatus, dropped>>
    BY <1>9 DEF DeletePerformance, Store!DeletePerformance, vars, store, intake, work
  <2> QED
    BY <1>1, <1>2, <2>1, RestRecords
<1> QED
  BY <1>3, <1>4, <1>5, <1>6, <1>7, <1>8, <1>9 DEF Next

\* Nothing is on record at the start, and the records stay in order until the
\* first error.
LEMMA RecordsHold == Spec => [](faults = 0 => Records)
<1>1. Init => Records
  <2> SUFFICES ASSUME Init
               PROVE  Records
    OBVIOUS
  <2>1. \A r \in Requests : ~Queued(r)
    BY DEF Init, Intake!Init, Queued
  <2>2. \A r \in Requests : ~InHand(r) /\ ~HasRow(r)
    BY FastPassAssumption DEF Init, Store!Init, InHand, HasRow
  <2>3. OnRecord = {}
    BY <2>1, <2>2 DEF OnRecord, Init
  <2>4. \A p \in Procs : DOMAIN wire[p] = {}
    BY DEF Init, Intake!Init
  <2>5. \A r \in Requests : PhaseRecord(r)
    BY <2>3 DEF PhaseRecord, Init, Intake!Init
  <2> QED
    BY <2>4, <2>5 DEF Records
<1>2. BaseInv /\ (faults = 0 => Records) /\ [Next]_vars => (faults = 0 => Records)'
  BY StepRecords
<1> QED
  BY <1>1, <1>2, BaseHolds, PTL DEF Spec

\* Whoever is told 409 is not booked later, whatever the cache held, however
\* the pipelines, the slow path and the workers interleave, whoever cancels,
\* whatever expires or is deleted: as long as no error occurred, an item of a
\* rejected request is nowhere.
THEOREM NoTraceOfRejected == Spec => []RejectedLeavesNoTrace
<1>1. (faults = 0 => Records) => RejectedLeavesNoTrace
  <2> SUFFICES ASSUME Records, NEW r \in Requests, reply[r] = "rejected"
               PROVE  ~Queued(r) /\ ~InHand(r) /\ ~HasRow(r)
    BY DEF RejectedLeavesNoTrace
  <2> QED
    BY DEF Records, PhaseRecord, OnRecord
<1> QED
  BY <1>1, RecordsHold, PTL

-----------------------------------------------------------------------------
(***************************************************************************)
(* What is on record stays on record, and where holds come from.           *)
(***************************************************************************)
\* A process that serves its requests takes nothing off the queue.
LEMMA ServeQueue ==
    ASSUME OnTheWay, NEW p \in Procs, Serve(p) \/ Disturb(p)
    PROVE  UNCHANGED queue \/ \E r \in Requests : Intake!PushItem(r)
<1>1. ASSUME NEW k \in DOMAIN wire[p], NEW i \in wire[p][k].cmds,
             Intake!Execute(wire[p][k].kind, wire[p][k].batch[i])
      PROVE  UNCHANGED queue \/ \E r \in Requests : Intake!PushItem(r)
  <2>1. wire[p][k].batch[i] \in Requests
    BY WireTypes DEF Rider
  <2> QED
    BY <1>1, <2>1 DEF Intake!Execute, Intake!PushItem
<1>2. ASSUME Intake!RunCommand(p) \/ Intake!CommandFails(p)
      PROVE  UNCHANGED queue \/ \E r \in Requests : Intake!PushItem(r)
  BY <1>1, <1>2 DEF Intake!RunCommand, Intake!CommandFails, Intake!Answered, Intake!redis
<1>3. ASSUME NEW r \in Requests,
             \/ Intake!Submit(r) \/ Intake!SlowStep(r) \/ Intake!AcquireFault(r)
             \/ Intake!SlowFault(r) \/ Intake!SlowResend(r) \/ Intake!ReleaseFault(r)
      PROVE  UNCHANGED queue \/ Intake!PushItem(r)
  BY <1>3 DEF Intake!Submit, Intake!SendBatch, Intake!SlowStep, Intake!Acquire,
              Intake!LockBusy, Intake!ReadAvailable, Intake!ReadTaken, Intake!ReadNothing,
              Intake!Mark, Intake!Enqueue, Intake!Hold, Intake!Release, Intake!Finish,
              Intake!AcquireFault, Intake!SlowFault, Intake!SlowResend,
              Intake!TakesEffect, Intake!ReleaseFault, Intake!redis
<1>4. CASE Intake!Flush(p) \/ Intake!HandleScripts(p) \/ Intake!HandlePushes(p)
           \/ Intake!ExecRejected(p)
  BY <1>4 DEF Intake!Flush, Intake!SendBatch, Intake!HandleScripts, Intake!HandlePushes,
              Intake!ExecRejected, Intake!redis
<1> QED
  BY <1>2, <1>3, <1>4 DEF Serve, Disturb, Intake!Serve, Intake!Disturb

\* No step, not even an error or the end of a process, takes the last trace of
\* an item: it is queued, in hand, stored, or written to the log.
LEMMA RecordsStay ==
    ASSUME BaseInv, [Next]_vars
    PROVE  OnRecord \subseteq OnRecord'
<1>1. ASSUME UNCHANGED <<queue, inHand, resStatus, dropped>>
      PROVE  OnRecord' = OnRecord
  BY <1>1 DEF OnRecord, Queued, InHand, HasRow
<1>2. ASSUME NEW p \in Procs, Serve(p) \/ Disturb(p)
      PROVE  OnRecord \subseteq OnRecord'
  <2>1. UNCHANGED <<inHand, resStatus, dropped>>
    BY <1>2 DEF Serve, Disturb, store, work
  <2>2. ASSUME NEW r \in Requests, Intake!PushItem(r)
        PROVE  OnRecord' = OnRecord \cup {r}
    BY <2>1, <2>2, PushedOnRecord DEF Intake!PushItem, BaseInv, PlaceInv, OnTheWay
  <2> QED
    BY <1>1, <1>2, <2>1, <2>2, ServeQueue DEF BaseInv, PlaceInv
<1>3. ASSUME NEW p \in Procs, Work(p)
      PROVE  OnRecord \subseteq OnRecord'
  BY <1>3, WorkedOnRecord
<1>4. ASSUME NEW p \in Procs, WorkerErrs(p) \/ Crash(p)
      PROVE  OnRecord \subseteq OnRecord'
  <2>1. UNCHANGED <<queue, resStatus>>
    BY <1>4 DEF WorkerErrs, Crash, Intake!Crash, Store!Abort, Intake!redis, store
  <2>2. UNCHANGED work \/ GivesUp(p)
    BY <1>4 DEF WorkerErrs, Crash
  <2>3. ASSUME NEW q \in Requests, InHand(q), GivesUp(p)
        PROVE  InHand(q)' \/ q \in dropped'
    BY <2>3 DEF InHand, GivesUp, BaseInv, PlaceInv, OnTheWay
  <2>4. dropped \subseteq dropped' /\ \A q \in Requests : InHand(q) => InHand(q)' \/ q \in dropped'
    BY <2>2, <2>3 DEF GivesUp, work, InHand
  <2> QED
    BY <2>1, <2>4 DEF OnRecord, Queued, HasRow
<1>5. ASSUME NEW h \in Handlers,
             \/ \E r \in Requests, op \in {"confirm", "cancel"} : SettleFind(h, r, op)
             \/ SettleProceeds(h) \/ SettleEnds(h)
      PROVE  OnRecord \subseteq OnRecord'
  BY <1>5, SettledOnRecord
<1>6. ASSUME NEW h \in Handlers,
             SettleErrs(h) \/ \E s \in Seats : Unhold(h, s) \/ UnholdFails(h, s)
      PROVE  OnRecord \subseteq OnRecord'
  BY <1>1, <1>6 DEF SettleErrs, Store!Abort, Unhold, UnholdFails, store, work
<1>7. ASSUME NEW s \in Seats,
             \/ Expire(s) \/ WarmRead(s)
             \/ \E status \in Intake!CacheStates : WarmSet(s, status)
      PROVE  OnRecord \subseteq OnRecord'
  BY <1>1, <1>7 DEF Expire, Intake!Expire, Intake!KeyExpire, Intake!LockExpire, WarmRead,
                    WarmSet, store, intake, work
<1>8. CASE UNCHANGED vars \/ \E p \in Performances : DeletePerformance(p)
  BY <1>1, <1>8 DEF DeletePerformance, Store!DeletePerformance, vars, store, intake, work
<1> QED
  BY <1>2, <1>3, <1>4, <1>5, <1>6, <1>7, <1>8 DEF Next

\* A winner on its way is pushed before it is done, and nothing takes its OK.
LEMMA WinnersStay ==
    ASSUME PlaceInv, Records, Records', NEW p \in Procs, Serve(p),
           NEW r \in Requests, phase[r] = "piped", saw[r] = "OK"
    PROVE  r \in OnRecord' \/ (phase'[r] = "piped" /\ saw'[r] = "OK")
<1> USE DEF PlaceInv, Places, LocalTypes
<1>1. PhaseRecord(r) /\ PhaseRecord(r)' /\ reply[r] = "none"
  BY DEF Records, PhaseRecord
<1>2. CASE Intake!RunCommand(p)
  <2>1. PICK k \in DOMAIN wire[p] : \E i \in wire[p][k].cmds :
           /\ Intake!Upcoming(p, k, i)
           /\ saw' = [saw EXCEPT ![Rider(p, k, i)] =
                         Intake!ResultOf(wire[p][k].kind, Rider(p, k, i))]
           /\ UNCHANGED phase
    BY <1>2 DEF Intake!RunCommand, Intake!Answered, Rider
  <2>2. PICK i \in wire[p][k].cmds :
           /\ Intake!Upcoming(p, k, i)
           /\ saw' = [saw EXCEPT ![Rider(p, k, i)] =
                         Intake!ResultOf(wire[p][k].kind, Rider(p, k, i))]
           /\ UNCHANGED phase
    BY <2>1
  <2>3. i >= wire[p][k].next /\ WireRecord(p, k, i) /\ wire[p][k].kind \in {"script", "push"}
    BY <2>2, WireTypes DEF Intake!Upcoming, Intake!NotRun, Records
  <2>4. CASE r = Rider(p, k, i)
    <3>1. wire[p][k].kind = "push"
      BY <2>3, <2>4 DEF WireRecord
    <3> QED
      BY <2>2, <2>4, <3>1 DEF Intake!ResultOf
  <2> QED
    BY <2>2, <2>4
<1>3. CASE Intake!HandleScripts(p)
  BY <1>3 DEF Intake!HandleScripts
<1>4. CASE Intake!HandlePushes(p)
  <2>1. \/ phase'[r] = "done" /\ reply'[r] = "accepted"
        \/ phase'[r] = "piped" /\ saw'[r] = "OK"
    BY <1>1, <1>4 DEF Intake!HandlePushes, Intake!Moved, Intake!Settled
  <2> QED
    BY <1>1, <2>1 DEF PhaseRecord
<1>5. ASSUME NEW q \in Requests, Intake!SlowStep(q)
      PROVE  phase'[r] = "piped" /\ saw'[r] = "OK"
  BY <1>5 DEF Intake!SlowStep, Intake!Acquire, Intake!LockBusy, Intake!ReadAvailable,
              Intake!ReadTaken, Intake!ReadNothing, Intake!Mark, Intake!Enqueue,
              Intake!Hold, Intake!Release, Intake!Finish, Intake!Leaves
<1>6. ASSUME NEW q \in Requests, Intake!Submit(q)
      PROVE  phase'[r] = "piped" /\ saw'[r] = "OK"
  BY <1>6 DEF Intake!Submit, Intake!SendBatch, Intake!Moved
<1>7. CASE Intake!Flush(p)
  BY <1>7 DEF Intake!Flush, Intake!SendBatch, Intake!Moved
<1> QED
  BY <1>2, <1>3, <1>4, <1>5, <1>6, <1>7 DEF Serve, Intake!Serve

\* A script that wins, a slow path that holds and one that marks what it read
\* are the ways of a process to a HELD key.
LEMMA ServeHolds ==
    ASSUME PlaceInv, Records, Holds, NEW p \in Procs, Serve(p), OnRecord \subseteq OnRecord',
           NEW s \in Seats, cache'[s] = "HELD", cache[s] # "HELD"
    PROVE  Accounted(s)'
<1> USE DEF PlaceInv, Places, LocalTypes
<1>1. \A r \in Requests : SeatOf[r] \in Seats
  BY FastPassAssumption
<1>2. ASSUME NEW r \in Requests, SeatOf[r] = s, phase'[r] = "piped", saw'[r] = "OK"
      PROVE  Accounted(s)'
  BY <1>2 DEF Accounted
<1>3. CASE Intake!RunCommand(p)
  <2>1. PICK k \in DOMAIN wire[p] : \E i \in wire[p][k].cmds :
           /\ Intake!Execute(wire[p][k].kind, Rider(p, k, i))
           /\ saw' = [saw EXCEPT ![Rider(p, k, i)] =
                         Intake!ResultOf(wire[p][k].kind, Rider(p, k, i))]
           /\ UNCHANGED phase
    BY <1>3 DEF Intake!RunCommand, Intake!Answered, Rider
  <2>2. PICK i \in wire[p][k].cmds :
           /\ Intake!Execute(wire[p][k].kind, Rider(p, k, i))
           /\ saw' = [saw EXCEPT ![Rider(p, k, i)] =
                         Intake!ResultOf(wire[p][k].kind, Rider(p, k, i))]
           /\ UNCHANGED phase
    BY <2>1
  <2> DEFINE r == Rider(p, k, i)
  <2>3. r \in Requests /\ phase[r] = "piped"
    BY WireTypes DEF OnWire
  <2>4. /\ wire[p][k].kind = "script" /\ SeatOf[r] = s /\ cache[s] = "AVAILABLE"
    BY <1>1, <2>2, <2>3 DEF Intake!Execute, Intake!ScriptLeaves
  <2>5. saw'[r] = "OK"
    BY <2>2, <2>3, <2>4 DEF Intake!ResultOf, Intake!ScriptResult
  <2> QED
    BY <1>2, <2>2, <2>3, <2>4, <2>5
<1>4. ASSUME NEW r \in Requests, Intake!SlowStep(r)
      PROVE  Accounted(s)'
  <2>1. SeatOf[r] = s /\ ((Intake!Mark(r) /\ saw[r] = "HELD") \/ Intake!Hold(r))
    BY <1>1, <1>4 DEF Intake!SlowStep, Intake!Acquire, Intake!LockBusy,
                      Intake!ReadAvailable, Intake!ReadTaken, Intake!ReadNothing,
                      Intake!Mark, Intake!WriteStatus, Intake!Enqueue, Intake!Hold,
                      Intake!WriteHeld, Intake!Release, Intake!Finish, Intake!redis
  <2>2. CASE Intake!Mark(r) /\ saw[r] = "HELD"
    <3>1. Taken(s)
      BY <2>1, <2>2 DEF Intake!Mark, Holds
    <3> QED
      BY <3>1 DEF Taken, HasRow, Serve, store, Accounted
  <2>3. CASE Intake!Hold(r)
    <3>1. r \in OnRecord
      BY <2>3 DEF Intake!Hold, Records, PhaseRecord
    <3> QED
      BY <2>1, <3>1 DEF Accounted
  <2> QED
    BY <2>1, <2>2, <2>3
<1>5. ASSUME NEW q \in Requests,
             \/ Intake!Submit(q) \/ Intake!Flush(p)
             \/ Intake!HandleScripts(p) \/ Intake!HandlePushes(p)
      PROVE  FALSE
  BY <1>5 DEF Intake!Submit, Intake!Flush, Intake!SendBatch, Intake!HandleScripts,
              Intake!HandlePushes, Intake!redis
<1>6. CASE Intake!Flush(p) \/ Intake!HandleScripts(p) \/ Intake!HandlePushes(p)
  BY <1>6 DEF Intake!Flush, Intake!SendBatch, Intake!HandleScripts, Intake!HandlePushes,
              Intake!redis
<1> QED
  BY <1>3, <1>4, <1>5, <1>6 DEF Serve, Intake!Serve

\* Who is about to mark its seat read its status.
LEMMA MarkersRead ==
    ASSUME PlaceInv, NEW p \in Procs, Serve(p), NEW r \in Requests, phase'[r] = "mark"
    PROVE  \/ phase[r] = "mark" /\ saw'[r] = saw[r]
           \/ seatStatus[SeatOf[r]] \in {"HELD", "OCCUPIED"}
<1> USE DEF PlaceInv, Places, LocalTypes
<1>1. CASE Intake!RunCommand(p)
  <2>1. PICK k \in DOMAIN wire[p] : \E i \in wire[p][k].cmds :
           /\ UNCHANGED phase
           /\ saw' = [saw EXCEPT ![Rider(p, k, i)] =
                         Intake!ResultOf(wire[p][k].kind, Rider(p, k, i))]
    BY <1>1 DEF Intake!RunCommand, Intake!Answered, Rider
  <2>2. PICK i \in wire[p][k].cmds :
           /\ UNCHANGED phase
           /\ saw' = [saw EXCEPT ![Rider(p, k, i)] =
                         Intake!ResultOf(wire[p][k].kind, Rider(p, k, i))]
    BY <2>1
  <2>3. phase[Rider(p, k, i)] = "piped"
    BY DEF OnWire
  <2>4. r # Rider(p, k, i)
    BY <2>2, <2>3
  <2> QED
    BY <2>2, <2>4
<1>2. CASE Intake!HandleScripts(p) \/ Intake!HandlePushes(p)
  <2>1. CASE Intake!HandleScripts(p)
    <3> DEFINE batch == Intake!ToSet(Head(wire[p]).batch)
               missed == {q \in batch : saw[q] = "MISS"}
               refused == {q \in batch : saw[q] \notin {"OK", "MISS"}}
    <3>1. /\ UNCHANGED saw
          /\ phase' = [q \in Requests |-> CASE q \in missed -> "lock"
                                            [] q \in refused -> "done"
                                            [] OTHER -> phase[q]]
      BY <2>1 DEF Intake!HandleScripts
    <3> HIDE DEF missed, refused
    <3>2. phase'[r] \in {"lock", "done", phase[r]}
      BY <3>1
    <3> QED
      BY <3>1, <3>2
  <2>2. CASE Intake!HandlePushes(p)
    BY <2>2 DEF Intake!HandlePushes, Intake!Moved
  <2> QED
    BY <1>2, <2>1, <2>2
<1>3. ASSUME NEW q \in Requests, Intake!SlowStep(q)
      PROVE  \/ phase[r] = "mark" /\ saw'[r] = saw[r]
             \/ seatStatus[SeatOf[r]] \in {"HELD", "OCCUPIED"}
  BY <1>3 DEF Intake!SlowStep, Intake!Acquire, Intake!LockBusy, Intake!ReadAvailable,
              Intake!ReadTaken, Intake!ReadNothing, Intake!Mark, Intake!Enqueue,
              Intake!Hold, Intake!Release, Intake!Finish, Intake!Leaves
<1>4. ASSUME NEW q \in Requests, Intake!Submit(q)
      PROVE  phase[r] = "mark" /\ saw'[r] = saw[r]
  BY <1>4 DEF Intake!Submit, Intake!SendBatch, Intake!Moved
<1>5. CASE Intake!Flush(p)
  BY <1>5 DEF Intake!Flush, Intake!SendBatch, Intake!Moved
<1> QED
  BY <1>1, <1>2, <1>3, <1>4, <1>5 DEF Serve, Intake!Serve

\* Without an error, only a serving process moves a request, and the cache has
\* few other writers.
LEMMA QuietSteps ==
    ASSUME PlaceInv, faults \in Nat, faults' = 0, [Next]_vars, ~\E p \in Procs : Serve(p)
    PROVE  /\ UNCHANGED <<wire, phase, saw, reply>>
           /\ UNCHANGED cache \/ \E s \in Seats :
                 \/ Expire(s)
                 \/ \E h \in Handlers : Unhold(h, s)
                 \/ \E status \in Intake!CacheStates : WarmSet(s, status)
<1>1. ~Intake!Fault
  BY DEF Intake!Fault
<1>2. ASSUME NEW p \in Procs, Disturb(p) \/ WorkerErrs(p) \/ Crash(p)
      PROVE  FALSE
  BY <1>1, <1>2 DEF Disturb, Intake!Disturb, Intake!CommandFails, Intake!ExecRejected,
                    Intake!AcquireFault, Intake!SlowFault, Intake!SlowResend,
                    Intake!ReleaseFault, WorkerErrs, Crash, Intake!Crash
<1>3. ASSUME NEW p \in Procs, Work(p)
      PROVE  UNCHANGED <<cache, wire, phase, saw, reply>>
  BY <1>3 DEF Work, Pop, WorkerFind, WorkerProceeds, WorkerCommits, WorkerRefuses,
              WorkerLoses, intake
<1>4. ASSUME NEW h \in Handlers,
             \/ \E r \in Requests, op \in {"confirm", "cancel"} : SettleFind(h, r, op)
             \/ SettleProceeds(h) \/ SettleEnds(h)
      PROVE  UNCHANGED <<cache, wire, phase, saw, reply>>
  BY <1>4 DEF SettleFind, SettleProceeds, SettleEnds, intake
<1>5. ASSUME NEW h \in Handlers, SettleErrs(h) \/ \E s \in Seats : UnholdFails(h, s)
      PROVE  FALSE
  BY <1>1, <1>5 DEF SettleErrs, UnholdFails
<1>6. ASSUME NEW s \in Seats,
             \/ \E h \in Handlers : Unhold(h, s)
             \/ Expire(s)
             \/ \E status \in Intake!CacheStates : WarmSet(s, status)
      PROVE  UNCHANGED <<wire, phase, saw, reply>>
  BY <1>6 DEF Unhold, Expire, Intake!Expire, Intake!KeyExpire, Intake!LockExpire,
              Intake!local, WarmSet
<1>7. CASE UNCHANGED vars
  BY <1>7 DEF vars, intake
<1>8. ASSUME NEW s \in Seats, WarmRead(s)
      PROVE  UNCHANGED <<cache, wire, phase, saw, reply>>
  BY <1>8 DEF WarmRead, intake
<1>9. ASSUME NEW p \in Performances, DeletePerformance(p)
       PROVE  UNCHANGED <<cache, wire, phase, saw, reply>>
  BY <1>9 DEF DeletePerformance, intake
<1> QED
  BY <1>2, <1>3, <1>4, <1>5, <1>6, <1>7, <1>8, <1>9 DEF Next

\* getSeats alone writes what it is about to cache.
LEMMA WarmingSteps ==
    ASSUME [Next]_vars
    PROVE  UNCHANGED warming \/ \E s \in Seats :
              WarmRead(s) \/ \E status \in Intake!CacheStates : WarmSet(s, status)
<1>1. ASSUME NEW p \in Procs,
             \/ Serve(p) \/ Work(p) \/ Disturb(p) \/ WorkerErrs(p) \/ Crash(p)
      PROVE  UNCHANGED warming
  BY <1>1 DEF Serve, Work, Disturb, WorkerErrs, Crash, Pop, WorkerFind, WorkerProceeds,
              WorkerCommits, WorkerRefuses, WorkerLoses, extra
<1>2. ASSUME NEW h \in Handlers,
             \/ \E r \in Requests, op \in {"confirm", "cancel"} : SettleFind(h, r, op)
             \/ SettleProceeds(h) \/ SettleEnds(h) \/ SettleErrs(h)
             \/ \E s \in Seats : Unhold(h, s) \/ UnholdFails(h, s)
      PROVE  UNCHANGED warming
  BY <1>2 DEF SettleFind, SettleProceeds, SettleEnds, SettleErrs, Unhold, UnholdFails, extra
<1>3. ASSUME NEW s \in Seats, Expire(s)
      PROVE  UNCHANGED warming
  BY <1>3 DEF Expire, extra
<1>4. ASSUME NEW p \in Performances, DeletePerformance(p)
      PROVE  UNCHANGED warming
  BY <1>4 DEF DeletePerformance, extra
<1>5. CASE UNCHANGED vars
  BY <1>5 DEF vars, extra
<1> QED
  BY <1>1, <1>2, <1>3, <1>4, <1>5 DEF Next

\* An owner stays one: with a trace, with its OK, or because the seat is taken.
LEMMA OwnersStay ==
    ASSUME BaseInv, Records, Records', [Next]_vars, faults' = 0,
           NEW s \in Seats, Accounted(s)
    PROVE  Accounted(s)'
<1>1. Taken(s) => Taken(s)'
  BY TakenStays, StepOfStore DEF BaseInv, PlaceInv, DropInv
<1>2. OnRecord \subseteq OnRecord'
  BY RecordsStay
<1>3. ASSUME NEW r \in Requests, phase[r] = "piped", saw[r] = "OK"
      PROVE  r \in OnRecord' \/ (phase'[r] = "piped" /\ saw'[r] = "OK")
  <2>1. CASE \E p \in Procs : Serve(p)
    BY <1>3, <2>1, WinnersStay DEF BaseInv
  <2>2. CASE ~\E p \in Procs : Serve(p)
    <3>1. UNCHANGED <<wire, phase, saw, reply>>
      BY <2>2, QuietSteps DEF BaseInv, DropInv
    <3> QED
      BY <1>3, <3>1
  <2> QED
    BY <2>1, <2>2
<1> QED
  BY <1>1, <1>2, <1>3 DEF Accounted

\* As long as nothing fails, every hold has an owner.
LEMMA StepHolds ==
    ASSUME BaseInv, PendingSets, Records, Records', Holds, [Next]_vars, faults' = 0
    PROVE  Holds'
<1>1. \A s \in Seats : Taken(s) => Taken(s)'
  BY TakenStays, StepOfStore DEF BaseInv, PlaceInv, DropInv
<1>2. \A s \in Seats : Accounted(s) => Accounted(s)'
  BY OwnersStay
<1>3. OnRecord \subseteq OnRecord'
  BY RecordsStay
<1>4. \A s \in Seats : seatStatus[s] # "AVAILABLE" => Taken(s)
  BY DEF BaseInv, TablesInOrder
<1>5. ASSUME NEW s \in Seats, cache'[s] = "HELD"
      PROVE  Accounted(s)'
  <2>1. cache \in [Seats -> Intake!CacheStates]
    BY DEF BaseInv, PlaceInv, Places, LocalTypes
  <2>2. CASE cache[s] = "HELD"
    BY <1>2, <2>2 DEF Holds
  <2>3. CASE cache[s] # "HELD"
    <3>1. CASE \E p \in Procs : Serve(p)
      BY <1>3, <1>5, <2>3, <3>1, ServeHolds DEF BaseInv
    <3>2. CASE ~\E p \in Procs : Serve(p)
      <4>1. <<s, "HELD">> \in warming
        <5>1. UNCHANGED cache \/ \E t \in Seats :
                 \/ Expire(t)
                 \/ \E h \in Handlers : Unhold(h, t)
                 \/ \E status \in Intake!CacheStates : WarmSet(t, status)
          BY <3>2, QuietSteps DEF BaseInv, DropInv
        <5> QED
          BY <1>5, <2>1, <2>3, <5>1 DEF Expire, Intake!Expire, Intake!KeyExpire,
             Intake!LockExpire, Unhold, WarmSet, WarmLeaves
      <4> QED
        BY <1>1, <4>1 DEF Holds, Accounted
    <3> QED
      BY <3>1, <3>2
  <2> QED
    BY <2>2, <2>3
<1>6. ASSUME NEW r \in Requests, phase'[r] = "mark", saw'[r] = "HELD"
      PROVE  Taken(SeatOf[r])'
  <2>1. SeatOf[r] \in Seats
    BY FastPassAssumption
  <2>2. \/ phase[r] = "mark" /\ saw[r] = "HELD"
        \/ seatStatus[SeatOf[r]] \in {"HELD", "OCCUPIED"}
    <3>1. CASE \E p \in Procs : Serve(p)
      BY <1>6, <3>1, MarkersRead DEF BaseInv
    <3>2. CASE ~\E p \in Procs : Serve(p)
      <4>1. UNCHANGED <<wire, phase, saw, reply>>
        BY <3>2, QuietSteps DEF BaseInv, DropInv
      <4> QED
        BY <1>6, <4>1
    <3> QED
      BY <3>1, <3>2
  <2> QED
    BY <1>1, <1>4, <2>1, <2>2 DEF Holds
<1>7. ASSUME NEW s \in Seats, <<s, "HELD">> \in warming'
      PROVE  Taken(s)'
  <2>1. <<s, "HELD">> \in warming \/ seatStatus[s] = "HELD"
    <3>1. CASE UNCHANGED warming
      BY <1>7, <3>1
    <3>2. ASSUME NEW t \in Seats, WarmRead(t)
          PROVE  <<s, "HELD">> \in warming \/ seatStatus[s] = "HELD"
      <4>1. warming' = warming \cup {<<t, seatStatus[t]>>}
        BY <3>2 DEF WarmRead
      <4> QED
        BY <1>7, <4>1
    <3>3. ASSUME NEW t \in Seats, NEW status \in Intake!CacheStates, WarmSet(t, status)
          PROVE  <<s, "HELD">> \in warming
      <4>1. warming' \subseteq warming
        BY <3>3 DEF WarmSet
      <4> QED
        BY <1>7, <4>1
    <3> QED
      BY <3>1, <3>2, <3>3, WarmingSteps
  <2> QED
    BY <1>1, <1>4, <2>1 DEF Holds
<1> QED
  BY <1>5, <1>6, <1>7 DEF Holds

\* Nothing is recorded, cached as HELD or under way at the start, and the steps
\* keep records and holds in order until the first error.
LEMMA HoldsHold == Spec => [](faults = 0 => Records /\ Holds)
<1>1. Init => Holds
  BY FastPassAssumption DEF Init, Intake!Init, Holds
<1>2. /\ BaseInv /\ PendingSets /\ (faults = 0 => Records) /\ (faults = 0 => Holds)
      /\ [Next]_vars
      => (faults = 0 => Holds)'
  <2> SUFFICES ASSUME BaseInv, PendingSets, faults = 0 => Records, faults = 0 => Holds,
                      [Next]_vars, faults' = 0
               PROVE  Holds'
    OBVIOUS
  <2>1. faults = 0
    BY FaultsGrow DEF BaseInv, DropInv
  <2>2. Records'
    BY StepRecords
  <2> QED
    BY <2>1, <2>2, StepHolds
<1>3. Spec => [](faults = 0 => Holds)
  BY <1>1, <1>2, BaseHolds, RecordsHold, PTL DEF Spec
<1> QED
  BY <1>3, RecordsHold, PTL

\* Who writes the status of a seat.
LEMMA SeatSteps ==
    ASSUME [Next]_vars
    PROVE  \/ UNCHANGED seatStatus
           \/ \E c \in Procs \cup Handlers : Store!PersistCommit(c) \/ Store!SettleCommit(c)
           \/ \E p \in Deletable : Store!DeletePerformance(p)
<1>1. ASSUME NEW p \in Procs, Serve(p) \/ Disturb(p) \/ WorkerErrs(p) \/ Crash(p)
      PROVE  UNCHANGED seatStatus
  BY <1>1 DEF Serve, Disturb, WorkerErrs, Crash, Store!Abort, store
<1>2. ASSUME NEW p \in Procs, Work(p)
      PROVE  UNCHANGED seatStatus \/ Store!PersistCommit(p)
  BY <1>2 DEF Work, Pop, WorkerFind, WorkerProceeds, WorkerCommits, WorkerRefuses,
              WorkerLoses, Store!PersistFind, Store!PersistUpdate, Store!PersistCreate,
              Store!PersistCollide, Store!PersistDuplicate, Store!DeadlockVictim, store
<1>3. ASSUME NEW h \in Handlers,
             \/ \E r \in Requests, op \in {"confirm", "cancel"} : SettleFind(h, r, op)
             \/ SettleProceeds(h) \/ SettleEnds(h) \/ SettleErrs(h)
             \/ \E s \in Seats : Unhold(h, s) \/ UnholdFails(h, s)
      PROVE  UNCHANGED seatStatus \/ Store!SettleCommit(h)
  BY <1>3 DEF SettleFind, SettleProceeds, SettleEnds, SettleErrs, Unhold, UnholdFails,
              Store!SettleFind, Store!SettleFirst, Store!SettleSecond,
              Store!DeadlockVictim, Store!Abort, store
<1>4. ASSUME NEW s \in Seats,
             \/ Expire(s) \/ WarmRead(s)
             \/ \E status \in Intake!CacheStates : WarmSet(s, status)
      PROVE  UNCHANGED seatStatus
  BY <1>4 DEF Expire, WarmRead, WarmSet, store
<1>5. ASSUME NEW p \in Performances, DeletePerformance(p)
      PROVE  p \in Deletable /\ Store!DeletePerformance(p)
  BY <1>5 DEF DeletePerformance
<1>6. CASE UNCHANGED vars
  BY <1>6 DEF vars, store
<1> QED
  BY <1>1, <1>2, <1>3, <1>4, <1>5, <1>6 DEF Next

\* While no performance is deleted, no seat goes.
LEMMA SeatsStay ==
    ASSUME Deletable = {}
    PROVE  Spec => [](\A s \in Seats : seatStatus[s] # "GONE")
<1> DEFINE Stay == \A s \in Seats : seatStatus[s] # "GONE"
<1>1. Init => Stay
  BY DEF Init, Store!Init
<1>2. BaseInv /\ Stay /\ [Next]_vars => Stay'
  <2> SUFFICES ASSUME BaseInv, Stay, [Next]_vars
               PROVE  Stay'
    OBVIOUS
  <2>1. CASE UNCHANGED seatStatus
    BY <2>1
  <2>2. ASSUME NEW c \in Procs \cup Handlers, Store!PersistCommit(c) \/ Store!SettleCommit(c)
        PROVE  Stay'
    BY <2>2 DEF Store!PersistCommit, Store!SettleCommit, Store!SeatOutcome, Store!Persists,
                Store!Settles, BaseInv, TablesInOrder, Store!TypeOK
  <2>3. \/ UNCHANGED seatStatus
        \/ \E c \in Procs \cup Handlers : Store!PersistCommit(c) \/ Store!SettleCommit(c)
    BY SeatSteps
  <2> QED
    BY <2>1, <2>2, <2>3
<1> QED
  BY <1>1, <1>2, BaseHolds, PTL DEF Spec

\* Under a HELD key there is always somebody, whatever cancellations, pipelines,
\* slow paths and getSeats do at the same time: until the first error, a hold
\* has no owner only if the seat itself is gone.
OwnedOrGone ==
    \A s \in Seats : cache[s] = "HELD" /\ faults = 0 =>
        \/ seatStatus[s] = "GONE"
        \/ \E r \in Requests :
              /\ SeatOf[r] = s
              /\ \/ Queued(r) \/ InHand(r) \/ HasRow(r)
                 \/ phase[r] = "piped" /\ saw[r] = "OK"

\* It holds from any cache and under any deletions and cancellations.
THEOREM HoldsOwnedOrGone == Spec => []OwnedOrGone
<1>1. (faults = 0 => Records /\ Holds) /\ BaseInv => OwnedOrGone
  <2> SUFFICES ASSUME Holds, BaseInv, NEW s \in Seats, cache[s] = "HELD", faults = 0
               PROVE  \/ seatStatus[s] = "GONE"
                      \/ \E r \in Requests :
                            /\ SeatOf[r] = s
                            /\ \/ Queued(r) \/ InHand(r) \/ HasRow(r)
                               \/ phase[r] = "piped" /\ saw[r] = "OK"
    BY DEF OwnedOrGone
  <2>1. Accounted(s)
    BY DEF Holds
  <2>2. ASSUME NEW r \in Requests, SeatOf[r] = s, r \in dropped
        PROVE  Taken(s)
    BY <2>2, DroppedForACause DEF BaseInv
  <2> QED
    BY <2>1, <2>2 DEF Accounted, Taken, OnRecord
<1> QED
  BY <1>1, HoldsHold, BaseHolds, PTL

\* If no performance is deleted, a hold without an owner is the trace of an
\* error.
THEOREM NoOrphanHolds ==
    ASSUME Deletable = {}
    PROVE  Spec => []HoldIsAccounted
<1>1. OwnedOrGone /\ (\A s \in Seats : seatStatus[s] # "GONE") => HoldIsAccounted
  BY DEF OwnedOrGone, HoldIsAccounted
<1> QED
  BY <1>1, HoldsOwnedOrGone, SeatsStay, PTL

-----------------------------------------------------------------------------
(***************************************************************************)
(* What becomes of accepted requests.                                      *)
(***************************************************************************)
\* Whoever is told PENDING is queued, in hand or stored until the first error,
\* or lost a seat to somebody else: nothing else swallows an item, from any
\* cache, under any cancellations, expiries and deletions.
KeptOrLost ==
    \A r \in Requests : reply[r] = "accepted" /\ faults = 0 =>
        \/ Queued(r) \/ InHand(r) \/ HasRow(r)
        \/ /\ r \in dropped
           /\ \/ seatStatus[SeatOf[r]] = "GONE"
              \/ \E q \in SameSeat(r) : HasRow(q)

\* It holds from any cache and under any deletions and cancellations.
THEOREM AcceptedKeptOrLost == Spec => []KeptOrLost
<1>1. (faults = 0 => Records) /\ BaseInv => KeptOrLost
  <2> SUFFICES ASSUME Records, BaseInv, faults = 0, NEW r \in Requests, reply[r] = "accepted",
                      ~Queued(r), ~InHand(r), ~HasRow(r)
               PROVE  /\ r \in dropped
                      /\ \/ seatStatus[SeatOf[r]] = "GONE"
                         \/ \E q \in SameSeat(r) : HasRow(q)
    BY DEF KeptOrLost
  <2>1. r \in dropped
    BY DEF Records, PhaseRecord, OnRecord
  <2>2. Taken(SeatOf[r])
    BY <2>1, DroppedForACause DEF BaseInv
  <2> QED
    BY <2>1, <2>2 DEF Taken, SameSeat
<1> QED
  BY <1>1, RecordsHold, BaseHolds, PTL

\* From a warm cache that no cancellation writes, nobody else can have the
\* seat: the row would be of a second winner.  So an accepted reservation is
\* kept, whatever the number of processes and requests and however reservations
\* are confirmed, as long as no performance is deleted.
THEOREM AcceptedStays ==
    ASSUME InitialCache = {"AVAILABLE"}, "key" \notin Expiring, Deletable = {}
    PROVE  Spec /\ [](unholding = {}) => []AcceptedIsKept
<1>1. /\ KeptOrLost /\ (faults = 0 => Records) /\ WarmInv
      /\ \A s \in Seats : seatStatus[s] # "GONE"
      => AcceptedIsKept
  <2> SUFFICES ASSUME KeptOrLost, Records, WarmInv, \A s \in Seats : seatStatus[s] # "GONE",
                      faults = 0, NEW r \in Requests, reply[r] = "accepted"
               PROVE  Queued(r) \/ InHand(r) \/ HasRow(r)
    BY DEF AcceptedIsKept
  <2>1. ASSUME NEW q \in SameSeat(r), HasRow(q)
        PROVE  FALSE
    <3>1. q \in Requests /\ q # r /\ SeatOf[q] = SeatOf[r] /\ q \in OnRecord
      BY <2>1 DEF SameSeat, OnRecord
    <3>2. saw[q] = "OK"
      BY <3>1 DEF Records, PhaseRecord, WarmInv, NoMisses
    <3> QED
      BY <3>1, <3>2 DEF WarmInv, OneWinner, Winner
  <2>2. SeatOf[r] \in Seats
    BY FastPassAssumption
  <2> QED
    BY <2>1, <2>2 DEF KeptOrLost
<1> QED
  BY <1>1, AcceptedKeptOrLost, RecordsHold, WarmHolds, SeatsStay, PTL

-----------------------------------------------------------------------------
(***************************************************************************)
(* What an error costs.  Also under errors an accepted request is on       *)
(* record: its push went through, or its slow path queued it.  From then   *)
(* on only a worker that gives its item up leaves nothing of it but a log  *)
(* line, and it does so for a seat that is taken, or for one error.        *)
(***************************************************************************)
Accepting(r) == \/ reply[r] = "accepted" \/ phase[r] = "hold"
                \/ phase[r] = "release" /\ saw[r] = "accepted"
Pushed(p, k, i) == /\ wire[p][k].kind = "push" /\ i < wire[p][k].next
                   /\ saw[Rider(p, k, i)] = "OK"

Acks ==
    /\ \A r \in Requests : Accepting(r) => r \in OnRecord
    /\ \A p \in Procs : \A k \in DOMAIN wire[p] : \A i \in wire[p][k].cmds :
          Pushed(p, k, i) => Rider(p, k, i) \in OnRecord

\* A step after which nobody new is accepted, and whose pushes are old ones.
LEMMA NobodyNewAcks ==
    ASSUME Acks, OnRecord \subseteq OnRecord',
           \A r \in Requests : Accepting(r)' => Accepting(r) \/ r \in OnRecord',
           \A q \in Procs : \A k \in DOMAIN wire'[q] : \A i \in wire'[q][k].cmds :
              Pushed(q, k, i)' =>
                 \/ Rider(q, k, i)' \in OnRecord'
                 \/ \E l \in DOMAIN wire[q] :
                       /\ i \in wire[q][l].cmds /\ Pushed(q, l, i)
                       /\ Rider(q, k, i)' = Rider(q, l, i)
    PROVE  Acks'
BY DEF Acks

\* Steps that touch neither phases, results, replies nor pipelines.
LEMMA RestAcks ==
    ASSUME Acks, OnRecord \subseteq OnRecord', UNCHANGED <<wire, phase, saw, reply>>
    PROVE  Acks'
BY DEF Acks, Accepting, Pushed, Rider

\* A new pipeline of scripts pushes nobody.
LEMMA SendBatchAcks ==
    ASSUME PlaceInv, Acks, OnRecord \subseteq OnRecord', NEW p \in Procs,
           NEW batch \in Seq(Requests), Intake!SendBatch(p, batch)
    PROVE  Acks'
<1> DEFINE c == Intake!ScriptsFor(batch)
<1>1. wire' = [wire EXCEPT ![p] = Append(@, c)] /\ c.kind = "script" /\ UNCHANGED <<saw, reply>>
  BY DEF Intake!SendBatch, Intake!ScriptsFor
<1> HIDE DEF c
<1>2. \A r \in Requests : Accepting(r)' => Accepting(r)
  BY <1>1 DEF Intake!SendBatch, Intake!Moved, Accepting
<1>3. ASSUME NEW q \in Procs, NEW k \in DOMAIN wire'[q], NEW i \in wire'[q][k].cmds,
             Pushed(q, k, i)'
      PROVE  /\ k \in DOMAIN wire[q] /\ i \in wire[q][k].cmds
             /\ Pushed(q, k, i) /\ Rider(q, k, i)' = Rider(q, k, i)
  <2>1. \/ k \in DOMAIN wire[q] /\ wire'[q][k] = wire[q][k]
        \/ wire'[q][k] = c
    BY <1>1, AppendedWire DEF PlaceInv
  <2> QED
    BY <1>1, <1>3, <2>1 DEF Pushed, Rider
<1> QED
  BY <1>2, <1>3, NobodyNewAcks

\* A push that goes through puts its request on record.
LEMMA CommandAcks ==
    ASSUME PlaceInv, Acks, OnRecord \subseteq OnRecord', NEW p \in Procs,
           NEW k \in DOMAIN wire[p], NEW i \in wire[p][k].cmds,
           Intake!Upcoming(p, k, i), NEW result,
           \/ UNCHANGED <<wire, saw>>
           \/ Answers(p, k, i) /\ saw' = [saw EXCEPT ![Rider(p, k, i)] = result],
           result = "OK" /\ wire[p][k].kind = "push" => Rider(p, k, i) \in OnRecord',
           UNCHANGED <<phase, reply>>
    PROVE  Acks'
<1>1. CASE UNCHANGED <<wire, saw>>
  BY <1>1, RestAcks
<1>2. CASE Answers(p, k, i) /\ saw' = [saw EXCEPT ![Rider(p, k, i)] = result]
  <2> DEFINE r == Rider(p, k, i)
  <2>1. /\ OnTheWay /\ r \in Requests /\ phase[r] = "piped"
        /\ i \in Nat /\ wire[p][k].next \in Nat /\ saw'[r] = result
        /\ \A q \in Requests : q # r => saw'[q] = saw[q]
    BY <1>2, WireTypes DEF PlaceInv, Places, OnWire, LocalTypes
  <2>2. \A q \in Requests : Accepting(q)' => Accepting(q)
    BY <2>1 DEF Accepting
  <2>3. ASSUME NEW q \in Procs, NEW l \in DOMAIN wire'[q], NEW j \in wire'[q][l].cmds,
               Pushed(q, l, j)'
        PROVE  \/ Rider(q, l, j)' \in OnRecord'
               \/ /\ l \in DOMAIN wire[q] /\ j \in wire[q][l].cmds
                  /\ Pushed(q, l, j) /\ Rider(q, l, j)' = Rider(q, l, j)
    <3>1. /\ l \in DOMAIN wire[q] /\ j \in wire[q][l].cmds /\ j \in Nat
          /\ wire'[q][l].kind = wire[q][l].kind /\ Rider(q, l, j)' = Rider(q, l, j)
          /\ wire'[q][l].next = IF q = p /\ l = k THEN i + 1 ELSE wire[q][l].next
      <4>1. Advances(p, k, i, q, l)
        BY <1>2, <2>1, AnsweredWire
      <4> QED
        BY <2>1, <2>3, <4>1, WireTypes DEF Advances, Rider
    <3>2. Rider(q, l, j) \in Requests /\ HomeOf[Rider(q, l, j)] = q /\ HomeOf[r] = p
      BY <2>1, <3>1, WireTypes DEF PlaceInv, Places, OnWire
    <3>3. CASE q = p /\ l = k /\ j = i
      BY <2>1, <2>3, <3>1, <3>3 DEF Pushed
    <3>4. CASE ~(q = p /\ l = k /\ j = i)
      <4>1. Rider(q, l, j) # r
        BY <3>1, <3>2, <3>4, OnePlace
      <4>2. saw[Rider(q, l, j)] = "OK"
        BY <2>1, <2>3, <3>1, <3>2, <4>1 DEF Pushed
      <4>3. CASE ~(q = p /\ l = k)
        BY <2>3, <3>1, <4>2, <4>3 DEF Pushed
      <4>4. CASE q = p /\ l = k
        <5>1. j < i /\ j < wire[p][k].next
          BY <2>1, <2>3, <3>1, <3>4, <4>4 DEF Pushed, Intake!Upcoming, Intake!NotRun
        <5> QED
          BY <2>3, <3>1, <4>2, <4>4, <5>1 DEF Pushed
      <4> QED
        BY <4>3, <4>4
    <3> QED
      BY <3>3, <3>4
  <2> QED
    BY <2>2, <2>3, NobodyNewAcks
<1> QED
  BY <1>1, <1>2

\* When the oldest pipeline was handled, the old pushes moved up, and a new one
\* has not begun.
LEMMA HandledAcks ==
    ASSUME PlaceInv, Acks, OnRecord \subseteq OnRecord', NEW p \in Procs, NEW more,
           Handles(p, more),
           \A m \in DOMAIN more : m = 1 /\ \A i \in more[m].cmds : ~(i < more[m].next),
           UNCHANGED saw,
           \A r \in Requests : Accepting(r)' => Accepting(r) \/ r \in OnRecord'
    PROVE  Acks'
<1>1. ASSUME NEW q \in Procs, NEW k \in DOMAIN wire'[q], NEW i \in wire'[q][k].cmds,
             Pushed(q, k, i)'
      PROVE  \E l \in DOMAIN wire[q] :
                /\ i \in wire[q][l].cmds /\ Pushed(q, l, i)
                /\ Rider(q, k, i)' = Rider(q, l, i)
  <2>1. ComesFrom(p, more, q, k)
    BY OrigOfPipeline DEF PlaceInv
  <2>2. wire'[q][k] # more[1] \/ 1 \notin DOMAIN more
    BY <1>1 DEF Pushed
  <2>3. Orig(p, q, k) \in DOMAIN wire[q] /\ wire'[q][k] = wire[q][Orig(p, q, k)]
    BY <2>1, <2>2 DEF ComesFrom
  <2> QED
    BY <1>1, <2>3 DEF Pushed, Rider
<1> QED
  BY <1>1, NobodyNewAcks

\* The results of the scripts accept nobody.
LEMMA HandleScriptsAcks ==
    ASSUME PlaceInv, Acks, OnRecord \subseteq OnRecord', NEW p \in Procs,
           Intake!HandleScripts(p)
    PROVE  Acks'
<1> DEFINE c == wire[p][1]
           won == {i \in DOMAIN c.batch : saw[c.batch[i]] = "OK"}
           more == IF won = {} THEN <<>> ELSE <<Intake!PushesFor(c.batch, won)>>
<1>1. OnTheWay /\ wire[p] # <<>> /\ 1 \in DOMAIN wire[p] /\ Head(wire[p]) = c
  BY OldestFirst DEF Intake!HandleScripts, Intake!Complete, PlaceInv
<1>2. /\ c.batch \in Seq(Requests)
      /\ \A i \in DOMAIN c.batch : i \in Nat /\ i >= 1
  BY <1>1, WireTypes
<1>3. wire' = [wire EXCEPT ![p] = Tail(@) \o more] /\ UNCHANGED saw
  BY <1>1 DEF Intake!HandleScripts
<1>4. \A r \in Requests : /\ phase'[r] \in {"lock", "done", phase[r]}
                          /\ reply'[r] \in {"rejected", reply[r]}
  BY DEF Intake!HandleScripts, Intake!Settled
<1> HIDE DEF c
<1>5. Intake!PushesFor(c.batch, won) \in Piped
  BY <1>2 DEF Intake!PushesFor, Piped, Intake!Pipeline
<1>6. Handles(p, more)
  BY <1>1, <1>3, <1>5 DEF Handles
<1>7. \A m \in DOMAIN more : m = 1 /\ \A i \in more[m].cmds : ~(i < more[m].next)
  BY <1>2 DEF Intake!PushesFor
<1> HIDE DEF more, won
<1>8. \A r \in Requests : Accepting(r)' => Accepting(r)
  BY <1>3, <1>4 DEF Accepting
<1> QED
  BY <1>3, <1>6, <1>7, <1>8, HandledAcks

\* The results of the pushes accept who was pushed; a pipeline rejected as a
\* whole accepts nobody.
LEMMA HandlePushesAcks ==
    ASSUME PlaceInv, Acks, OnRecord \subseteq OnRecord', NEW p \in Procs,
           Intake!HandlePushes(p) \/ Intake!ExecRejected(p)
    PROVE  Acks'
<1> DEFINE c == wire[p][1]
           more == <<>>
<1>1. OnTheWay /\ wire[p] # <<>> /\ 1 \in DOMAIN wire[p] /\ Head(wire[p]) = c
  BY OldestFirst DEF Intake!HandlePushes, Intake!ExecRejected, Intake!Complete, PlaceInv
<1>2. /\ wire' = [wire EXCEPT ![p] = Tail(@)] /\ UNCHANGED saw
      /\ phase' = Intake!Moved(Intake!Served(c), "done")
  BY <1>1 DEF Intake!HandlePushes, Intake!ExecRejected
<1>3. wire' = [wire EXCEPT ![p] = Tail(@) \o more]
  BY <1>1, <1>2, HeadTailOfWire, ConcatEmptySeq
<1>4. Handles(p, more) /\ DOMAIN more = {}
  BY <1>1, <1>3 DEF Handles
<1>5. ASSUME NEW r \in Requests, reply'[r] = "accepted", reply[r] # "accepted"
      PROVE  r \in OnRecord
  <2>1. /\ c.kind = "push" /\ Intake!NotRun(c) = {}
        /\ r \in Intake!Served(c) /\ saw[r] = "OK"
    BY <1>1, <1>5 DEF Intake!HandlePushes, Intake!ExecRejected, Intake!Complete,
                      Intake!Settled
  <2>2. PICK i \in c.cmds : r = Rider(p, 1, i)
    BY <2>1 DEF Intake!Served, Rider
  <2>3. i \in Nat /\ c.next \in Nat /\ ~(i >= c.next)
    BY <1>1, <2>1, WireTypes DEF Intake!NotRun
  <2>4. Pushed(p, 1, i)
    BY <2>1, <2>2, <2>3 DEF Pushed
  <2> QED
    BY <1>1, <2>2, <2>4 DEF Acks
<1>6. \A r \in Requests : phase'[r] \in {"done", phase[r]}
  BY <1>2 DEF Intake!Moved
<1>7. \A r \in Requests : Accepting(r)' => Accepting(r) \/ r \in OnRecord'
  BY <1>2, <1>5, <1>6 DEF Accepting
<1> HIDE DEF more
<1>8. \A m \in DOMAIN more : m = 1 /\ \A i \in more[m].cmds : ~(i < more[m].next)
  BY <1>4
<1> QED
  BY <1>2, <1>4, <1>7, <1>8, HandledAcks

\* The slow path queues its request before it accepts it, and once it is past
\* the queue it was on record, whatever failed on the way.
LEMMA SlowAcks ==
    ASSUME PlaceInv, Acks, OnRecord \subseteq OnRecord', NEW r \in Requests,
           Intake!Enqueue(r) => r \in OnRecord',
           \/ Intake!SlowStep(r) \/ Intake!AcquireFault(r) \/ Intake!SlowFault(r)
           \/ Intake!SlowResend(r) \/ Intake!ReleaseFault(r)
    PROVE  Acks'
<1> USE DEF PlaceInv, Places, LocalTypes
<1>1. /\ UNCHANGED wire
      /\ phase[r] \in {"lock", "read", "mark", "enqueue", "hold", "release"}
      /\ \A q \in Requests \ {r} :
            phase'[q] = phase[q] /\ saw'[q] = saw[q] /\ reply'[q] = reply[q]
  BY DEF Intake!SlowStep, Intake!Acquire, Intake!LockBusy, Intake!ReadAvailable,
         Intake!ReadTaken, Intake!ReadNothing, Intake!Mark, Intake!Enqueue, Intake!Hold,
         Intake!Release, Intake!AcquireFault, Intake!SlowFault, Intake!SlowResend,
         Intake!TakesEffect, Intake!Protected, Intake!ReleaseFault, Intake!Finish,
         Intake!Leaves, Intake!local
<1>2. Accepting(r)' => Accepting(r) \/ r \in OnRecord'
  <2>1. CASE \/ Intake!Acquire(r) \/ Intake!LockBusy(r) \/ Intake!ReadAvailable(r)
             \/ Intake!ReadTaken(r) \/ Intake!AcquireFault(r)
    BY <2>1 DEF Intake!Acquire, Intake!LockBusy, Intake!ReadAvailable,
                Intake!ReadTaken, Intake!AcquireFault, Intake!Settled, Accepting
  <2>2. CASE Intake!ReadNothing(r) \/ Intake!Mark(r) \/ Intake!SlowFault(r)
    BY <2>2 DEF Intake!ReadNothing, Intake!Mark, Intake!SlowFault, Intake!Leaves, Accepting
  <2>3. CASE Intake!Enqueue(r)
    BY <2>3
  <2>4. CASE Intake!Hold(r)
    BY <2>4 DEF Intake!Hold, Accepting
  <2>5. CASE Intake!Release(r) \/ Intake!ReleaseFault(r)
    BY <2>5 DEF Intake!Release, Intake!ReleaseFault, Intake!Finish, Intake!Settled, Accepting
  <2>6. CASE Intake!SlowResend(r)
    BY <2>6 DEF Intake!SlowResend, Intake!local, Accepting
  <2> QED
    BY <2>1, <2>2, <2>3, <2>4, <2>5, <2>6 DEF Intake!SlowStep
<1>3. \A q \in Requests : Accepting(q)' => Accepting(q) \/ q \in OnRecord'
  BY <1>1, <1>2 DEF Accepting
<1>4. ASSUME NEW p \in Procs, NEW k \in DOMAIN wire[p], NEW i \in wire[p][k].cmds
      PROVE  Pushed(p, k, i)' => Pushed(p, k, i) /\ Rider(p, k, i)' = Rider(p, k, i)
  <2>1. Rider(p, k, i) \in Requests \ {r}
    BY <1>1, WireTypes DEF OnWire
  <2> QED
    BY <1>1, <2>1 DEF Pushed, Rider
<1> QED
  BY <1>1, <1>3, <1>4, NobodyNewAcks

\* All that a process does for its requests, and all that may befall it.
LEMMA IntakeAcks ==
    ASSUME PlaceInv, Acks, OnRecord \subseteq OnRecord', NEW p \in Procs,
           Serve(p) \/ Disturb(p)
    PROVE  Acks'
<1>1. UNCHANGED <<inHand, resStatus, dropped>>
  BY DEF Serve, Disturb, store, work
<1>2. ASSUME NEW r \in Requests, Intake!PushItem(r)
      PROVE  r \in OnRecord'
  BY <1>1, <1>2, PushedOnRecord DEF Intake!PushItem, PlaceInv, OnTheWay
<1>3. ASSUME NEW r \in Requests, Intake!Submit(r)
      PROVE  Acks'
  <2>1. HomeOf[r] \in Procs /\ Append(buffer[HomeOf[r]], r) \in Seq(Requests)
    BY FastPassAssumption, AppendProperties DEF PlaceInv, OnTheWay
  <2>2. CASE Intake!SendBatch(HomeOf[r], Append(buffer[HomeOf[r]], r))
    BY <2>1, <2>2, SendBatchAcks
  <2>3. CASE phase' = [phase EXCEPT ![r] = "buffered"] /\ UNCHANGED <<wire, saw, reply>>
    BY <2>3, NobodyNewAcks DEF Accepting, Pushed, Rider
  <2> QED
    BY <1>3, <2>2, <2>3 DEF Intake!Submit
<1>4. CASE Intake!Flush(p)
  <2>1. buffer[p] \in Seq(Requests)
    BY DEF PlaceInv, OnTheWay
  <2> QED
    BY <1>4, <2>1, SendBatchAcks DEF Intake!Flush
<1>5. CASE Intake!RunCommand(p) \/ Intake!CommandFails(p)
  <2>1. PICK k \in DOMAIN wire[p] : \E i \in wire[p][k].cmds :
           LET c == wire[p][k]
               r == Rider(p, k, i) IN
           /\ Intake!Upcoming(p, k, i)
           /\ \/ Intake!Answered(p, k, i, Intake!Execute(c.kind, r), Intake!ResultOf(c.kind, r))
              \/ Intake!Answered(p, k, i, UNCHANGED Intake!redis, "ERR")
              \/ Intake!Answered(p, k, i, Intake!Execute(c.kind, r), "ERR")
              \/ UNCHANGED Intake!local
    BY <1>5 DEF Intake!RunCommand, Intake!CommandFails, Rider
  <2>2. PICK i \in wire[p][k].cmds :
           LET c == wire[p][k]
               r == Rider(p, k, i) IN
           /\ Intake!Upcoming(p, k, i)
           /\ \/ Intake!Answered(p, k, i, Intake!Execute(c.kind, r), Intake!ResultOf(c.kind, r))
              \/ Intake!Answered(p, k, i, UNCHANGED Intake!redis, "ERR")
              \/ Intake!Answered(p, k, i, Intake!Execute(c.kind, r), "ERR")
              \/ UNCHANGED Intake!local
    BY <2>1
  <2> DEFINE c == wire[p][k]
             r == Rider(p, k, i)
  <2>3. r \in Requests /\ c.kind \in {"script", "push"}
    BY WireTypes DEF PlaceInv
  <2>4. CASE Intake!Answered(p, k, i, Intake!Execute(c.kind, r), Intake!ResultOf(c.kind, r))
    <3>1. c.kind = "push" => r \in OnRecord'
      BY <1>2, <2>3, <2>4 DEF Intake!Answered, Intake!Execute, Intake!PushItem
    <3>2. /\ Answers(p, k, i) /\ UNCHANGED <<phase, reply>>
          /\ saw' = [saw EXCEPT ![r] = Intake!ResultOf(c.kind, r)]
      BY <2>4 DEF Intake!Answered, Answers, Rider
    <3> QED
      BY <2>2, <3>1, <3>2, CommandAcks
  <2>5. ASSUME \/ Intake!Answered(p, k, i, UNCHANGED Intake!redis, "ERR")
               \/ Intake!Answered(p, k, i, Intake!Execute(c.kind, r), "ERR")
        PROVE  Acks'
    <3>1. /\ Answers(p, k, i) /\ UNCHANGED <<phase, reply>>
          /\ saw' = [saw EXCEPT ![r] = "ERR"]
      BY <2>5 DEF Intake!Answered, Answers, Rider
    <3> QED
      BY <2>2, <3>1, CommandAcks
  <2>6. CASE UNCHANGED Intake!local
    BY <2>6, RestAcks DEF Intake!local
  <2> QED
    BY <2>2, <2>4, <2>5, <2>6
<1>6. CASE Intake!HandleScripts(p) \/ Intake!HandlePushes(p) \/ Intake!ExecRejected(p)
  BY <1>6, HandleScriptsAcks, HandlePushesAcks
<1>7. ASSUME NEW r \in Requests,
             \/ Intake!SlowStep(r) \/ Intake!AcquireFault(r) \/ Intake!SlowFault(r)
             \/ Intake!SlowResend(r) \/ Intake!ReleaseFault(r)
      PROVE  Acks'
  <2>1. Intake!Enqueue(r) => r \in OnRecord'
    BY <1>2 DEF Intake!Enqueue
  <2> QED
    BY <1>7, <2>1, SlowAcks
<1> QED
  BY <1>3, <1>4, <1>5, <1>6, <1>7 DEF Serve, Disturb, Intake!Serve, Intake!Disturb

\* The end of a process accepts nobody and takes its pushes along.
LEMMA CrashAcks ==
    ASSUME PlaceInv, Acks, OnRecord \subseteq OnRecord', NEW p \in Procs, Intake!Crash(p)
    PROVE  Acks'
<1>1. \A q \in Procs : wire'[q] = wire[q] \/ wire'[q] = <<>>
  BY DEF Intake!Crash, PlaceInv, OnTheWay
<1>2. \A r \in Requests : Accepting(r)' => Accepting(r)
  BY DEF Intake!Crash, Intake!Moved, Intake!Settled, Accepting
<1>3. UNCHANGED saw
  BY DEF Intake!Crash
<1> QED
  BY <1>1, <1>2, <1>3, NobodyNewAcks DEF Pushed, Rider

\* The whole system.
LEMMA StepAcks ==
    ASSUME BaseInv, Acks, [Next]_vars
    PROVE  Acks'
<1>1. OnRecord \subseteq OnRecord'
  BY RecordsStay
<1>2. ASSUME NEW p \in Procs, Serve(p) \/ Disturb(p)
      PROVE  Acks'
  BY <1>1, <1>2, IntakeAcks DEF BaseInv
<1>3. ASSUME NEW p \in Procs, Crash(p)
      PROVE  Acks'
  BY <1>1, <1>3, CrashAcks DEF Crash, BaseInv
<1>4. ASSUME UNCHANGED <<wire, phase, saw, reply>>
      PROVE  Acks'
  BY <1>1, <1>4, RestAcks
<1>5. ASSUME NEW p \in Procs, Work(p) \/ WorkerErrs(p)
      PROVE  Acks'
  BY <1>4, <1>5 DEF Work, Pop, WorkerFind, WorkerProceeds, WorkerCommits,
                    WorkerRefuses, WorkerLoses, WorkerErrs, intake
<1>6. ASSUME NEW h \in Handlers,
             \/ \E r \in Requests, op \in {"confirm", "cancel"} : SettleFind(h, r, op)
             \/ SettleProceeds(h) \/ SettleEnds(h) \/ SettleErrs(h)
             \/ \E s \in Seats : Unhold(h, s) \/ UnholdFails(h, s)
      PROVE  Acks'
  BY <1>4, <1>6 DEF SettleFind, SettleProceeds, SettleEnds, SettleErrs, Unhold,
                    UnholdFails, intake
<1>7. ASSUME NEW s \in Seats,
             \/ Expire(s) \/ WarmRead(s)
             \/ \E status \in Intake!CacheStates : WarmSet(s, status)
      PROVE  Acks'
  BY <1>4, <1>7 DEF Expire, Intake!Expire, Intake!KeyExpire, Intake!LockExpire,
                    Intake!local, WarmRead, WarmSet, intake
<1>8. CASE UNCHANGED vars \/ \E p \in Performances : DeletePerformance(p)
  BY <1>4, <1>8 DEF DeletePerformance, vars, intake
<1> QED
  BY <1>2, <1>3, <1>5, <1>6, <1>7, <1>8 DEF Next

\* At the start nobody is accepted or pushed.
LEMMA AcksHold == Spec => []Acks
<1>1. Init => Acks
  BY DEF Init, Intake!Init, Acks, Accepting
<1>2. BaseInv /\ Acks /\ [Next]_vars => Acks'
  BY StepAcks
<1> QED
  BY <1>1, <1>2, BaseHolds, PTL DEF Spec

\* Errors, resends, crashes, cancellations, expiries and deletions in any order,
\* from any cache: one error loses at most one accepted reservation.  Whoever
\* was accepted and has nothing left was given up by a worker, and if nobody
\* else has the seat either, that took an error of its own.
THEOREM ErrorsCostOne == Spec => []OneLossPerError
<1>1. Acks /\ BaseInv => OneLossPerError
  <2> SUFFICES ASSUME Acks, DropInv PROVE OneLossPerError
    BY DEF BaseInv
  <2> DEFINE lost == {r \in Requests : LostInVain(r)}
  <2>1. ASSUME NEW r \in Requests, LostInVain(r)
        PROVE  r \in InVain
    <3>1. r \in dropped
      BY <2>1 DEF LostInVain, Acks, Accepting, OnRecord
    <3>2. ~Taken(SeatOf[r])
      BY <2>1 DEF LostInVain, Taken, SameSeat
    <3> QED
      BY <3>1, <3>2 DEF InVain
  <2>2. lost \in SUBSET InVain /\ IsFiniteSet(InVain)
    BY <2>1 DEF DropInv
  <2> HIDE DEF lost
  <2>3. /\ IsFiniteSet(lost) /\ Cardinality(lost) <= Cardinality(InVain)
        /\ Cardinality(InVain) \in Nat
    BY <2>2, FS_Subset, FS_CardinalityType
  <2>4. Cardinality(lost) \in Nat /\ Cardinality(InVain) <= faults /\ faults \in Nat
    BY <2>3, FS_CardinalityType DEF DropInv
  <2>5. Cardinality(lost) <= faults
    BY <2>3, <2>4
  <2> QED
    BY <2>5 DEF lost, OneLossPerError
<1> QED
  BY <1>1, AcksHold, BaseHolds, PTL
=============================================================================
