------------------------------ MODULE Catalog -------------------------------
(***************************************************************************)
(* Events and their performances (EventService, EventRepository,           *)
(* PerformanceService, PerformanceRepository).  Every operation but the    *)
(* creation of an event reads the row to check who owns it and writes in a *)
(* later statement that names the row by id only, so any other request may *)
(* act in between.  The performance and its seats are inserted in one      *)
(* transaction, which locks the event against deletion until it commits.   *)
(* ValidationPipe has no whitelist, so the body of a request reaches the   *)
(* write as it was sent: it may name another owner for an event, another   *)
(* event for a performance, and performances that an event is to take.     *)
(***************************************************************************)
CONSTANTS Users,         \* user ids
          Events,        \* event ids, drawn once each
          Performances,  \* performance ids, drawn once each
          Handlers,      \* requests served at the same time
          NoUser, NoRow  \* neither a user nor an id

VARIABLES members,     \* users that have a row (Accounts), read only
          eventState,  \* whether there is a row for the event
          eventOwner,  \* Event.userId
          perfState,   \* whether there is a row, with its seats
          perfEvent,   \* Performance.eventId
          booked,      \* performances with a reservation on one of their seats
          req          \* the request each handler is serving

catalogVars == <<eventState, eventOwner, perfState, perfEvent, booked, req>>
eventRows == <<eventState, eventOwner>>
perfRows == <<perfState, perfEvent>>

RowStates == {"unborn", "live", "gone"}
EventOps == {"updateEvent", "deleteEvent"}
PerformanceOps == {"updatePerformance", "deletePerformance"}

\* A request past its check: what it writes next, for whom, on which row, and
\* for a creation the id of the new performance.
Request ==
    [op : EventOps, at : {"write"}, user : Users, id : Events, new : {NoRow}]
      \cup [op : {"createPerformance"}, at : {"write", "commit"}, user : Users,
            id : Events, new : Performances]
      \cup [op : PerformanceOps, at : {"write"}, user : Users,
            id : Performances, new : {NoRow}]
Idle == [op |-> "none", at |-> "none", user |-> NoUser, id |-> NoRow, new |-> NoRow]

TypeOK ==
    /\ eventState \in [Events -> RowStates]
    /\ eventOwner \in [Events -> Users \cup {NoUser}]
    /\ perfState \in [Performances -> RowStates]
    /\ perfEvent \in [Performances -> Events \cup {NoRow}]
    /\ booked \subseteq Performances
    /\ req \in [Handlers -> Request \cup {Idle}]

Init ==
    /\ eventState = [e \in Events |-> "unborn"]
    /\ eventOwner = [e \in Events |-> NoUser]
    /\ perfState = [p \in Performances |-> "unborn"]
    /\ perfEvent = [p \in Performances |-> NoRow]
    /\ booked = {}
    /\ req = [h \in Handlers |-> Idle]

Answered(h) == req' = [req EXCEPT ![h] = Idle]

\* Handler h is about to run the write of this operation.
Writes(h, op) == req[h].op = op /\ req[h].at = "write"

-----------------------------------------------------------------------------
(***************************************************************************)
(* The checks.  A request that does not pass is answered with an error and *)
(* leaves no trace.                                                        *)
(***************************************************************************)
Live(p) == perfState[p] = "live"

\* performances: {connect: ...} in the body moves live performances to e.
Takes(e, adopted) ==
    /\ \A p \in adopted : Live(p)
    /\ perfEvent' = [p \in Performances |-> IF p \in adopted THEN e ELSE perfEvent[p]]

CreateEvent(h, u, e) ==
    /\ req[h] = Idle /\ eventState[e] = "unborn"
    /\ eventState' = [eventState EXCEPT ![e] = "live"]
    /\ eventOwner' = [eventOwner EXCEPT ![e] = u]
    /\ \E adopted \in SUBSET Performances : Takes(e, adopted)
    /\ UNCHANGED <<perfState, booked, req>>

OwnEvent(u, e) == eventState[e] = "live" /\ eventOwner[e] = u

OwnPerformance(u, p) ==
    perfState[p] = "live" /\ eventOwner[perfEvent[p]] = u

CheckEvent(h, u, op, e) ==
    /\ req[h] = Idle /\ op \in EventOps
    /\ OwnEvent(u, e)
    /\ req' = [req EXCEPT ![h] = [op |-> op, at |-> "write", user |-> u,
                                  id |-> e, new |-> NoRow]]
    /\ UNCHANGED <<eventRows, perfRows, booked>>

Fresh(p) == perfState[p] = "unborn" /\ \A g \in Handlers : req[g].new # p

CheckCreation(h, u, e, p) ==
    /\ req[h] = Idle
    /\ OwnEvent(u, e) /\ Fresh(p)
    /\ req' = [req EXCEPT ![h] = [op |-> "createPerformance", at |-> "write",
                                  user |-> u, id |-> e, new |-> p]]
    /\ UNCHANGED <<eventRows, perfRows, booked>>

CheckPerformance(h, u, op, p) ==
    /\ req[h] = Idle /\ op \in PerformanceOps
    /\ OwnPerformance(u, p)
    /\ req' = [req EXCEPT ![h] = [op |-> op, at |-> "write", user |-> u,
                                  id |-> p, new |-> NoRow]]
    /\ UNCHANGED <<eventRows, perfRows, booked>>

-----------------------------------------------------------------------------
(***************************************************************************)
(* Events.  A row that is gone by now makes the write fail, and so does a  *)
(* body that names a row which is not there (Abort).                       *)
(***************************************************************************)
UpdateEvent(h) ==
    LET e == req[h].id IN
    /\ Writes(h, "updateEvent")
    /\ eventState[e] = "live"
    /\ \E u \in members : eventOwner' = [eventOwner EXCEPT ![e] = u]
    /\ \E adopted \in SUBSET Performances : Takes(e, adopted)
    /\ Answered(h)
    /\ UNCHANGED <<eventState, perfState, booked>>

UpdateGone(h) ==
    /\ \/ Writes(h, "updateEvent") /\ eventState[req[h].id] # "live"
       \/ Writes(h, "updatePerformance") /\ ~Live(req[h].id)
    /\ Answered(h)
    /\ UNCHANGED <<eventRows, perfRows, booked>>

\* An open transaction that inserted a performance holds the event's row.
Locked(e) == \E g \in Handlers : req[g].at = "commit" /\ req[g].id = e

Childless(e) ==                          \* mutant: the foreign key is missing
    ~Locked(e)
Deletable(e) ==
    /\ ~Locked(e)
    /\ \A p \in Performances : ~(perfState[p] = "live" /\ perfEvent[p] = e)

DeleteEvent(h) ==
    LET e == req[h].id IN
    /\ Writes(h, "deleteEvent")
    /\ Deletable(e)
    /\ eventState' = [eventState EXCEPT ![e] = "gone"]
    /\ eventOwner' = [eventOwner EXCEPT ![e] = NoUser]
    /\ Answered(h)
    /\ UNCHANGED <<perfRows, booked>>

RefusalRetried(h) ==                     \* mutant: the error is not answered
    /\ Writes(h, "deleteEvent")
    /\ ~Locked(req[h].id) /\ ~Deletable(req[h].id)
    /\ UNCHANGED catalogVars
\* ON DELETE RESTRICT, reported once no transaction holds the row.
RefuseDeletion(h) ==
    /\ Writes(h, "deleteEvent")
    /\ ~Locked(req[h].id) /\ ~Deletable(req[h].id)
    /\ Answered(h)
    /\ UNCHANGED <<eventRows, perfRows, booked>>

-----------------------------------------------------------------------------
(***************************************************************************)
(* Performances.                                                           *)
(***************************************************************************)
\* The foreign key finds the event: the performance and its seats are
\* inserted.
InsertPerformance(h) ==
    /\ Writes(h, "createPerformance")
    /\ eventState[req[h].id] = "live"
    /\ req' = [req EXCEPT ![h].at = "commit"]
    /\ UNCHANGED <<eventRows, perfRows, booked>>

\* The event was deleted after the check.
InsertFails(h) ==
    /\ Writes(h, "createPerformance")
    /\ eventState[req[h].id] # "live"
    /\ Answered(h)
    /\ UNCHANGED <<eventRows, perfRows, booked>>

CommitPerformance(h) ==
    /\ req[h].at = "commit"
    /\ perfState' = [perfState EXCEPT ![req[h].new] = "live"]
    /\ perfEvent' = [perfEvent EXCEPT ![req[h].new] = req[h].id]
    /\ Answered(h)
    /\ UNCHANGED <<eventRows, booked>>

\* eventId in the body moves the performance to any event that is there.
Hosts(e) == eventState[e] = "live"

UpdatePerformance(h) ==
    LET p == req[h].id IN
    /\ Writes(h, "updatePerformance")
    /\ Live(p)
    /\ \E e \in Events : Hosts(e) /\ perfEvent' = [perfEvent EXCEPT ![p] = e]
    /\ Answered(h)
    /\ UNCHANGED <<eventRows, perfState, booked>>

\* The seats go with the performance, unless a reservation refers to one.
IgnoreReservations(p) == TRUE            \* mutant: reservations do not hold it
Unbooked(p) == p \notin booked

DeletePerformance(h) ==
    LET p == req[h].id IN
    /\ Writes(h, "deletePerformance")
    /\ \/ /\ Live(p) /\ Unbooked(p)
          /\ perfState' = [perfState EXCEPT ![p] = "gone"]
          /\ perfEvent' = [perfEvent EXCEPT ![p] = NoRow]
       \/ /\ ~(Live(p) /\ Unbooked(p))
          /\ UNCHANGED perfRows
    /\ Answered(h)
    /\ UNCHANGED <<eventRows, booked>>

\* The queue worker stores a reservation for one of the seats.
Book(p) ==
    /\ perfState[p] = "live" /\ p \notin booked
    /\ booked' = booked \cup {p}
    /\ UNCHANGED <<eventRows, perfRows, req>>

\* The database fails a statement, and an open transaction is rolled back.
Abort(h) ==
    /\ req[h] # Idle
    /\ Answered(h)
    /\ UNCHANGED <<eventRows, perfRows, booked>>

-----------------------------------------------------------------------------
\* A request begins for user u; a request goes on.
Begin(h, u) ==
    \/ \E e \in Events :
          \/ CreateEvent(h, u, e)
          \/ \E op \in EventOps : CheckEvent(h, u, op, e)
          \/ \E p \in Performances : CheckCreation(h, u, e, p)
    \/ \E p \in Performances, op \in PerformanceOps : CheckPerformance(h, u, op, p)

Step(h) ==
    \/ UpdateEvent(h) \/ UpdateGone(h) \/ DeleteEvent(h) \/ RefuseDeletion(h)
    \/ InsertPerformance(h) \/ InsertFails(h) \/ CommitPerformance(h)
    \/ UpdatePerformance(h) \/ DeletePerformance(h)

Next ==
    \/ \E h \in Handlers : \/ \E u \in Users : Begin(h, u)
                           \/ Step(h)
                           \/ Abort(h)
    \/ \E p \in Performances : Book(p)

Spec == Init /\ [][Next]_catalogVars

-----------------------------------------------------------------------------
(***************************************************************************)
(* Properties.                                                             *)
(***************************************************************************)
\* Whatever is created, moved, handed over and deleted at the same time, an
\* event has an owner with an account, a performance has its event, and a
\* reservation keeps its performance and thereby the event: the reservations of
\* a sold show never lose what they are for.
NoOrphans ==
    /\ \A e \in Events : eventState[e] = "live" => eventOwner[e] \in members
    /\ \A p \in Performances : Live(p) =>
          perfEvent[p] \in Events /\ eventState[perfEvent[p]] = "live"
    /\ \A p \in booked : Live(p)

\* A request that waits for a lock, or holds one, ends.
RequestsEnd == \A h \in Handlers : req[h] # Idle ~> req[h] = Idle
=============================================================================
