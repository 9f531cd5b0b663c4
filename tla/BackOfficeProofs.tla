-------------------------- MODULE BackOfficeProofs --------------------------
(***************************************************************************)
(* Proofs about BackOffice for any users, emails, events, performances and *)
(* handlers.                                                               *)
(***************************************************************************)
EXTENDS BackOffice, TLAPS

USE BackOfficeAssumption

-----------------------------------------------------------------------------
(***************************************************************************)
(* Accounts.                                                               *)
(***************************************************************************)
AccountInv ==
    /\ Auth!TypeOK
    /\ OneAccountPerEmail
    /\ access \subseteq Members
    /\ \A h \in Handlers : auth[h].op = "login" => auth[h].user \in Members

\* A row is inserted only while the unique index finds no other, it stays, and a
\* token is given to a user whose row was found.
LEMMA AccountStep ==
    ASSUME AccountInv,
           \/ \E h \in Handlers : Auth!AuthBegin(h) \/ Auth!AuthStep(h) \/ Auth!AuthFails(h)
           \/ \E u \in UserIds : Auth!AccessExpires(u)
           \/ UNCHANGED accounts
    PROVE  AccountInv'
<1> USE DEF AccountInv, Members, OneAccountPerEmail, Auth!OneAccountPerEmail, Auth!TypeOK,
            Auth!AuthRequest, Auth!NoRequest, Auth!Over, Auth!Found, Auth!Unused
<1>1. ASSUME NEW h \in Handlers, NEW m \in Emails, Auth!SignUpFind(h, m)
      PROVE  AccountInv'
  BY <1>1 DEF Auth!SignUpFind
<1>2. ASSUME NEW h \in Handlers, NEW u \in UserIds, Auth!LoginFind(h, u) \/ Auth!Logout(h, u)
      PROVE  AccountInv'
  BY <1>2 DEF Auth!LoginFind, Auth!Logout
<1>3. ASSUME NEW h \in Handlers, NEW u \in UserIds, Auth!SignUpCreate(h, u)
      PROVE  AccountInv'
  BY <1>3 DEF Auth!SignUpCreate
<1>4. ASSUME NEW h \in Handlers, Auth!SignUpDuplicate(h) \/ Auth!LoginStore(h)
      PROVE  AccountInv'
  BY <1>4 DEF Auth!SignUpDuplicate, Auth!LoginStore
<1>5. ASSUME NEW h \in Handlers, Auth!AuthFails(h)
      PROVE  AccountInv'
  BY <1>5 DEF Auth!AuthFails
<1>6. ASSUME NEW u \in UserIds, Auth!AccessExpires(u)
      PROVE  AccountInv'
  BY <1>6 DEF Auth!AccessExpires
<1>7. CASE UNCHANGED accounts
  BY <1>7 DEF accounts
<1> QED
  BY <1>1, <1>2, <1>3, <1>4, <1>5, <1>6, <1>7 DEF Auth!AuthBegin, Auth!AuthStep

\* No row of a user is ever deleted.
LEMMA AccountsGrow ==
    ASSUME AccountInv, [Next]_vars
    PROVE  Members \subseteq Members'
<1> USE DEF Members, AccountInv, Auth!TypeOK, Auth!AuthRequest, Auth!NoRequest, Auth!Over
<1>1. ASSUME NEW h \in Handlers, Auth!AuthBegin(h) \/ Auth!AuthStep(h)
      PROVE  Members \subseteq Members'
  BY <1>1 DEF Auth!AuthBegin, Auth!AuthStep, Auth!SignUpFind, Auth!LoginFind,
              Auth!Logout, Auth!SignUpCreate, Auth!SignUpDuplicate, Auth!LoginStore
<1>2. ASSUME NEW h \in Handlers, Auth!AuthFails(h)
      PROVE  Members \subseteq Members'
  BY <1>2 DEF Auth!AuthFails
<1>3. ASSUME NEW u \in UserIds, Auth!AccessExpires(u)
      PROVE  Members \subseteq Members'
  BY <1>3 DEF Auth!AccessExpires
<1>4. CASE UNCHANGED accounts
  BY <1>4 DEF accounts
<1> QED
  BY <1>1, <1>2, <1>3, <1>4
     DEF Next, vars, Sign, SignStep, Organise, OrganiseStep, Fail, Expire, Book

\* In the whole of the back office.
LEMMA AccountsHold == Spec => []AccountInv
<1>1. Init => AccountInv
  BY DEF Init, Auth!Init, AccountInv, Members, OneAccountPerEmail,
         Auth!OneAccountPerEmail, Auth!TypeOK, Auth!NoRequest
<1>2. AccountInv /\ [Next]_vars => AccountInv'
  BY AccountStep DEF Next, vars, Sign, SignStep, Organise, OrganiseStep, Fail,
                     Expire, Book
<1> QED
  BY <1>1, <1>2, PTL DEF Spec

\* Of all sign-ups with one email, one makes an account.
THEOREM OneAccount == Spec => []OneAccountPerEmail
<1>1. AccountInv => OneAccountPerEmail
  BY DEF AccountInv
<1> QED
  BY <1>1, AccountsHold, PTL

-----------------------------------------------------------------------------
(***************************************************************************)
(* Events and performances.                                                *)
(***************************************************************************)
\* The lock of an open transaction that inserted a performance keeps the event.
LockKeepsEvent ==
    \A h \in Handlers : req[h].at = "commit" => eventState[req[h].id] = "live"

\* The id of a new performance is drawn once.
DrawnOnce ==
    \A h \in Handlers : req[h].new # NoId =>
        /\ perfState[req[h].new] = "unborn"
        /\ \A g \in Handlers \ {h} : req[g].new # req[h].new

CatalogInv ==
    /\ Shows!TypeOK
    /\ LockKeepsEvent
    /\ DrawnOnce
    /\ NoOrphans

\* At the start there is no row and no request.
LEMMA CatalogInit == Init => CatalogInv
BY DEF Init, Shows!Init, CatalogInv, Shows!TypeOK, Shows!RowStates, Shows!Idle,
       Shows!Live, LockKeepsEvent, DrawnOnce, NoOrphans, Shows!NoOrphans

\* A new id is fresh, and the performances a new event takes are live.
LEMMA BeginKeepsCatalog ==
    ASSUME CatalogInv, NEW h \in Handlers, NEW u \in Members, Members' = Members,
           Shows!Begin(h, u)
    PROVE  CatalogInv'
<1> u \in UserIds
  BY DEF Members
<1> USE DEF CatalogInv, Shows!TypeOK, Shows!RowStates, Shows!Idle, Shows!Request,
            Shows!EventOps, Shows!PerformanceOps, Shows!eventRows, Shows!perfRows,
            Shows!Live, LockKeepsEvent, DrawnOnce, NoOrphans, Shows!NoOrphans
<1>1. ASSUME NEW e \in Events, Shows!CreateEvent(h, u, e)
      PROVE  CatalogInv'
  BY <1>1 DEF Shows!CreateEvent, Shows!Takes
<1>2. ASSUME NEW e \in Events, NEW op \in Shows!EventOps, Shows!CheckEvent(h, u, op, e)
      PROVE  CatalogInv'
  BY <1>2 DEF Shows!CheckEvent
<1>3. ASSUME NEW e \in Events, NEW p \in Performances, Shows!CheckCreation(h, u, e, p)
      PROVE  CatalogInv'
  BY <1>3 DEF Shows!CheckCreation, Shows!Fresh
<1>4. ASSUME NEW p \in Performances, NEW op \in Shows!PerformanceOps,
             Shows!CheckPerformance(h, u, op, p)
      PROVE  CatalogInv'
  BY <1>4 DEF Shows!CheckPerformance
<1> QED
  BY <1>1, <1>2, <1>3, <1>4 DEF Shows!Begin

\* A write leaves every row what it refers to, whoever wrote since its check.
LEMMA StepKeepsCatalog ==
    ASSUME CatalogInv, NEW h \in Handlers, Members' = Members, Shows!Step(h)
    PROVE  CatalogInv'
<1> Members \subseteq UserIds
  BY DEF Members
<1> USE DEF CatalogInv, Shows!TypeOK, Shows!RowStates, Shows!Idle, Shows!Request,
            Shows!EventOps, Shows!PerformanceOps, Shows!eventRows, Shows!perfRows,
            Shows!Answered, Shows!Writes, Shows!Live, LockKeepsEvent, DrawnOnce,
            NoOrphans, Shows!NoOrphans
<1>1. CASE Shows!UpdateEvent(h)
  BY <1>1 DEF Shows!UpdateEvent, Shows!Takes, Shows!Live
<1>2. CASE Shows!UpdateGone(h)
  BY <1>2 DEF Shows!UpdateGone
<1>3. CASE Shows!DeleteEvent(h)
  BY <1>3 DEF Shows!DeleteEvent, Shows!Deletable, Shows!Locked
<1>4. CASE Shows!RefuseDeletion(h)
  BY <1>4 DEF Shows!RefuseDeletion
<1>5. CASE Shows!InsertPerformance(h)
  BY <1>5 DEF Shows!InsertPerformance
<1>6. CASE Shows!InsertFails(h)
  BY <1>6 DEF Shows!InsertFails
<1>7. CASE Shows!CommitPerformance(h)
  BY <1>7 DEF Shows!CommitPerformance
<1>8. CASE Shows!UpdatePerformance(h)
  BY <1>8 DEF Shows!UpdatePerformance, Shows!Hosts
<1>9. CASE Shows!DeletePerformance(h)
  BY <1>9 DEF Shows!DeletePerformance, Shows!Unbooked
<1> QED
  BY <1>1, <1>2, <1>3, <1>4, <1>5, <1>6, <1>7, <1>8, <1>9
     DEF Shows!Step

\* In the whole of the back office.
LEMMA CatalogStep == AccountInv /\ CatalogInv /\ [Next]_vars => CatalogInv'
<1> SUFFICES ASSUME AccountInv, CatalogInv, [Next]_vars PROVE CatalogInv'
  OBVIOUS
<1>1. ASSUME NEW h \in Handlers, NEW u \in UserIds, Organise(h, u)
      PROVE  CatalogInv'
  <2>1. u \in Members /\ Members' = Members
    BY <1>1 DEF Organise, accounts, Members, AccountInv
  <2> QED
    BY <1>1, <2>1, BeginKeepsCatalog DEF Organise
<1>2. ASSUME NEW h \in Handlers, OrganiseStep(h)
      PROVE  CatalogInv'
  <2>1. Members' = Members
    BY <1>2 DEF OrganiseStep, accounts, Members
  <2> QED
    BY <1>2, <2>1, StepKeepsCatalog DEF OrganiseStep
<1> USE DEF CatalogInv, Shows!TypeOK, Shows!Live, LockKeepsEvent, DrawnOnce,
            NoOrphans, Shows!NoOrphans
<1>3. ASSUME NEW h \in Handlers, Shows!Abort(h), UNCHANGED accounts
      PROVE  CatalogInv'
  BY <1>3 DEF Shows!Abort, Shows!Answered, Shows!eventRows, Shows!perfRows, Shows!Idle,
              accounts, Members
<1>4. ASSUME NEW p \in Performances, Book(p)
      PROVE  CatalogInv'
  BY <1>4 DEF Book, Shows!Book, Shows!eventRows, Shows!perfRows, accounts, Members
<1>5. CASE UNCHANGED shows
  <2>1. Members \subseteq Members'
    BY AccountsGrow, <1>5 DEF Next
  <2> QED
    BY <1>5, <2>1 DEF shows
<1> QED
  BY <1>1, <1>2, <1>3, <1>4, <1>5 DEF Next, vars, Sign, SignStep, Fail, Expire

\* The inductive invariant of the catalogue.
THEOREM CatalogHolds == Spec => []CatalogInv
BY CatalogInit, CatalogStep, AccountsHold, PTL DEF Spec

\* An event keeps an owner with an account, a performance its event and a
\* reservation its performance, whatever creations, edits and deletions
\* interleave.
THEOREM NobodyOrphaned == Spec => []NoOrphans
<1>1. CatalogInv => NoOrphans
  BY DEF CatalogInv
<1> QED
  BY <1>1, CatalogHolds, PTL

\* The types of the accounts and of the catalogue.
THEOREM TypeCorrect == Spec => []TypeOK
<1>1. AccountInv /\ CatalogInv => TypeOK
  BY DEF AccountInv, CatalogInv, TypeOK
<1> QED
  BY <1>1, AccountsHold, CatalogHolds, PTL
=============================================================================
