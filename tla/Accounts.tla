------------------------------ MODULE Accounts ------------------------------
(***************************************************************************)
(* User accounts (AuthService, AuthRepository): signing up looks for the   *)
(* email and inserts the row after bcrypt has hashed the password, so two  *)
(* sign-ups may both find the email unused; logging in reads the row and   *)
(* stores the refresh token after two more runs of bcrypt.                 *)
(***************************************************************************)
CONSTANTS UserIds,   \* ids that may be drawn for a new row
          Emails,
          Handlers,  \* requests served at the same time
          NoEmail,   \* the email of an id without a row
          NoId       \* not an id

VARIABLES email,    \* User.email
          session,  \* users with a stored refresh token
          access,   \* users who hold an access token that has not expired
          auth      \* the request each handler is serving

accountVars == <<email, session, access, auth>>

AuthRequest == [op : {"signUp"}, email : Emails, user : {NoId}]
                 \cup [op : {"login"}, email : {NoEmail}, user : UserIds]
NoRequest == [op |-> "none", email |-> NoEmail, user |-> NoId]

TypeOK ==
    /\ email \in [UserIds -> Emails \cup {NoEmail}]
    /\ session \subseteq UserIds
    /\ access \subseteq UserIds
    /\ auth \in [Handlers -> AuthRequest \cup {NoRequest}]

Init ==
    /\ email = [u \in UserIds |-> NoEmail]
    /\ session = {}
    /\ access = {}
    /\ auth = [h \in Handlers |-> NoRequest]

Found(m) == \E u \in UserIds : email[u] = m
Over(h) == auth' = [auth EXCEPT ![h] = NoRequest]

-----------------------------------------------------------------------------
\* findUserByEmail finds nothing; a used email is answered with 409 at once.
SignUpFind(h, m) ==
    /\ auth[h] = NoRequest
    /\ ~Found(m)
    /\ auth' = [auth EXCEPT ![h] = [op |-> "signUp", email |-> m, user |-> NoId]]
    /\ UNCHANGED <<email, session, access>>

NoUniqueEmail(m) == TRUE                 \* mutant: email not @unique
Unused(m) == ~Found(m)

SignUpCreate(h, u) ==
    /\ auth[h].op = "signUp"
    /\ Unused(auth[h].email)
    /\ email[u] = NoEmail
    /\ email' = [email EXCEPT ![u] = auth[h].email]
    /\ Over(h)
    /\ UNCHANGED <<session, access>>

\* The unique index refuses the row: the error of the database is answered.
SignUpDuplicate(h) ==
    /\ auth[h].op = "signUp"
    /\ ~Unused(auth[h].email)
    /\ Over(h)
    /\ UNCHANGED <<email, session, access>>

\* The credentials are right; otherwise 401 at once.
LoginFind(h, u) ==
    /\ auth[h] = NoRequest
    /\ email[u] # NoEmail
    /\ auth' = [auth EXCEPT ![h] = [op |-> "login", email |-> NoEmail, user |-> u]]
    /\ UNCHANGED <<email, session, access>>

SessionOfEmail(h) ==                     \* mutant: the token of another column
    /\ auth[h].op = "login"
    /\ session' = session \cup {email[auth[h].user]}
    /\ access' = access \cup {auth[h].user}
    /\ Over(h)
    /\ UNCHANGED email
LoginStore(h) ==
    /\ auth[h].op = "login"
    /\ session' = session \cup {auth[h].user}
    /\ access' = access \cup {auth[h].user}
    /\ Over(h)
    /\ UNCHANGED email

\* The guard of /logout asks for an access token, which stays valid.
Logout(h, u) ==
    /\ auth[h] = NoRequest
    /\ u \in access
    /\ session' = session \ {u}
    /\ UNCHANGED <<email, access, auth>>

\* The hour of the last access token of u is over.
AccessExpires(u) ==
    /\ u \in access
    /\ access' = access \ {u}
    /\ UNCHANGED <<email, session, auth>>

\* The statement fails, or it takes effect and its answer is lost.
AuthFails(h) ==
    /\ auth[h] # NoRequest
    /\ \/ UNCHANGED <<email, session>>
       \/ /\ auth[h].op = "login"
          /\ session' = session \cup {auth[h].user}
          /\ UNCHANGED email
       \/ \E u \in UserIds :
             /\ auth[h].op = "signUp"
             /\ Unused(auth[h].email) /\ email[u] = NoEmail
             /\ email' = [email EXCEPT ![u] = auth[h].email]
             /\ UNCHANGED session
    /\ Over(h)
    /\ UNCHANGED access

-----------------------------------------------------------------------------
AuthBegin(h) ==
    \/ \E m \in Emails : SignUpFind(h, m)
    \/ \E u \in UserIds : LoginFind(h, u) \/ Logout(h, u)
AuthStep(h) ==
    \/ \E u \in UserIds : SignUpCreate(h, u)
    \/ SignUpDuplicate(h) \/ LoginStore(h)

Next ==
    \/ \E h \in Handlers : AuthBegin(h) \/ AuthStep(h) \/ AuthFails(h)
    \/ \E u \in UserIds : AccessExpires(u)

Spec == Init /\ [][Next]_accountVars

-----------------------------------------------------------------------------
\* Whatever number of sign-ups passed the check with the same email at the
\* same time, retried or lost their answer, the email has one account.
OneAccountPerEmail ==
    \A u, v \in UserIds : email[u] # NoEmail /\ email[u] = email[v] => u = v
=============================================================================
