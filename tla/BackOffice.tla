----------------------------- MODULE BackOffice -----------------------------
(***************************************************************************)
(* What organisers do: they have accounts (Accounts), log in, and keep     *)
(* events and performances (Catalog) with the access token they were       *)
(* given.  A handler serves a request of one part at a time; the token is  *)
(* checked when the request arrives (AuthGuard('jwt')) and not again.      *)
(***************************************************************************)
CONSTANTS UserIds, Emails, Events, Performances, Handlers, NoEmail, NoId

ASSUME BackOfficeAssumption ==
    /\ NoEmail \notin Emails
    /\ NoId \notin UserIds \cup Events \cup Performances

VARIABLES email, session, access, auth,                        \* Accounts
          eventState, eventOwner, perfState, perfEvent, booked, req  \* Catalog

Auth == INSTANCE Accounts
Members == {u \in UserIds : email[u] # NoEmail}
Shows == INSTANCE Catalog
    WITH Users <- UserIds, NoUser <- NoId, NoRow <- NoId, members <- Members

accounts == <<email, session, access, auth>>
shows == <<eventState, eventOwner, perfState, perfEvent, booked, req>>
vars == <<accounts, shows>>

TypeOK == Auth!TypeOK /\ Shows!TypeOK
Init == Auth!Init /\ Shows!Init

\* A handler takes a request up, and goes on with it.
Sign(h) ==
    /\ req[h] = Shows!Idle
    /\ Auth!AuthBegin(h)
    /\ UNCHANGED shows
SignStep(h) == Auth!AuthStep(h) /\ UNCHANGED shows

Organise(h, u) ==
    /\ auth[h] = Auth!NoRequest
    /\ u \in access
    /\ Shows!Begin(h, u)
    /\ UNCHANGED accounts
OrganiseStep(h) == Shows!Step(h) /\ UNCHANGED accounts

Fail(h) ==
    \/ Auth!AuthFails(h) /\ UNCHANGED shows
    \/ Shows!Abort(h) /\ UNCHANGED accounts

Expire(u) == Auth!AccessExpires(u) /\ UNCHANGED shows
Book(p) == Shows!Book(p) /\ UNCHANGED accounts

Next ==
    \/ \E h \in Handlers :
          \/ Sign(h) \/ SignStep(h) \/ OrganiseStep(h) \/ Fail(h)
          \/ \E u \in UserIds : Organise(h, u)
    \/ \E u \in UserIds : Expire(u)
    \/ \E p \in Performances : Book(p)

\* The database answers, and serves the requests for a row's lock in order.
Fairness ==
    \A h \in Handlers : WF_vars(SignStep(h)) /\ SF_vars(OrganiseStep(h))

Spec == Init /\ [][Next]_vars /\ Fairness

-----------------------------------------------------------------------------
\* Of all sign-ups with one email that race, retry or lose their answer, one
\* makes an account (Accounts).
OneAccountPerEmail == Auth!OneAccountPerEmail

\* A live event has an owner with an account, a live performance its event, and
\* a booked one is not deleted, whatever creations, edits that move a row
\* elsewhere and deletions interleave (Catalog).
NoOrphans == Shows!NoOrphans

\* Every request of organisers ends: a deletion that waits for a creation in
\* another transaction, one that is refused, and a sign-up that lost the race.
RequestsEnd ==
    /\ Shows!RequestsEnd
    /\ \A h \in Handlers : auth[h] # Auth!NoRequest ~> auth[h] = Auth!NoRequest
=============================================================================
