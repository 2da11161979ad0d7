------------------------------ MODULE Accounts ------------------------------
(***************************************************************************)
(* Accounts, sessions and users: backend/internal/auth, identity and user. *)
(*                                                                         *)
(* Accounts and sessions live in Ory Kratos, which is external and known   *)
(* here by the answers the code relies on.  The backend logs in on behalf  *)
(* of a client, refuses sessions whose account has no verified address,    *)
(* extends and ends sessions.  A request with a verified session is served *)
(* as a user of the database; the first one creates the user, in a         *)
(* transaction that several requests of a new account may run at once.     *)
(*                                                                         *)
(* One action per call to Kratos and per statement of the database, except *)
(* that what a transaction writes becomes visible when it commits.  Any    *)
(* call may fail or lose its answer: the handler then ends (Abandon).  A   *)
(* life is how often a session was prolonged, starting with one.           *)
(***************************************************************************)
EXTENDS Integers

CONSTANTS
  Accounts,   \* identities in Kratos, one verifiable address each
  Sessions,   \* session tokens
  Users,      \* ids of users
  Requests,   \* requests that may be served at the same time
  MaxLife,    \* bound: how often Kratos prolongs a session
  Nobody      \* "no account", "no user", "no session"

ASSUME AccountsAssumption ==
  /\ Nobody \notin Accounts \cup Users \cup Sessions
  /\ MaxLife \in Nat

VARIABLES
  account,    \* Kratos: none, unverified or verified
  owner,      \* Kratos: the account of a session
  live,       \* Kratos: sessions neither expired nor ended
  life,       \* Kratos: the life of a session
  challenges, \* accounts whose client holds a verification id
  granted,    \* sessions that a login has handed out
  told,       \* the life a client was told of
  userOf,     \* external_identities: the user of an account
  users,      \* users
  caps,       \* user_capabilities
  at,         \* how far a request has come
  work        \* whom it is about, and what it has read

kratosVars == <<account, owner, live, life>>
clientVars == <<challenges, granted, told>>
tables == <<userOf, users, caps>>
vars == <<kratosVars, clientVars, tables, at, work>>

Jobs == [account : Accounts, session : Sessions, user : Users \cup {Nobody},
         life : Nat, driver : BOOLEAN]
Steps == {"idle", "loggedIn", "revoking", "extending", "patching", "extended",
          "authenticated", "creating", "found", "inserted", "enabling", "reading"}

\* Every column, every answer of Kratos and every request keeps its type.
TypeOK ==
  /\ account \in [Accounts -> {"none", "unverified", "verified"}]
  /\ owner \in [Sessions -> Accounts \cup {Nobody}]
  /\ live \subseteq {t \in Sessions : owner[t] # Nobody}
  /\ granted \subseteq {t \in Sessions : owner[t] # Nobody}
  /\ life \in [Sessions -> Nat]
  /\ told \in [Sessions -> Nat]
  /\ challenges \subseteq Accounts
  /\ userOf \in [Accounts -> Users \cup {Nobody}]
  /\ users \subseteq Users
  /\ caps \in [Users -> SUBSET {"rider", "driver"}]
  /\ at \in [Requests -> Steps]
  /\ work \in [Requests -> Jobs \cup {Nobody}]
  /\ \A q \in Requests : at[q] # "idle" =>
       work[q] \in Jobs /\ owner[work[q].session] = work[q].account

Init ==
  /\ account = [a \in Accounts |-> "none"]
  /\ owner = [t \in Sessions |-> Nobody]
  /\ live = {}
  /\ life = [t \in Sessions |-> 0]
  /\ challenges = {}
  /\ granted = {}
  /\ told = [t \in Sessions |-> 0]
  /\ userOf = [a \in Accounts |-> Nobody]
  /\ users = {}
  /\ caps = [u \in Users |-> {}]
  /\ at = [q \in Requests |-> "idle"]
  /\ work = [q \in Requests |-> Nobody]

Go(q, step) == at' = [at EXCEPT ![q] = step]
Finish(q) == Go(q, "idle") /\ work' = [work EXCEPT ![q] = Nobody]

\* A request, which is about a session from its first step on.
Job(t, a, driver) ==
  [account |-> a, session |-> t, user |-> Nobody, life |-> life[t], driver |-> driver]

(***************************************************************************)
(* Registration and verification.  The answer to a registration carries    *)
(* the id of a verification, unless Kratos left it out or it was lost; the *)
(* client may ask for another at any time.  A verification of an account   *)
(* that is verified changes nothing and is left out.                       *)
(***************************************************************************)
Register(a) ==
  /\ account[a] = "none"
  /\ account' = [account EXCEPT ![a] = "unverified"]
  /\ challenges' \in {challenges, challenges \cup {a}}
  /\ UNCHANGED <<owner, live, life, granted, told, tables, at, work>>

StartVerification(a) ==
  /\ account[a] = "unverified"
  /\ challenges' = challenges \cup {a}
  /\ UNCHANGED <<kratosVars, granted, told, tables, at, work>>

CompleteVerification(a) ==
  /\ a \in challenges
  /\ account' = [account EXCEPT ![a] = "verified"]
  /\ challenges' = challenges \ {a}
  /\ UNCHANGED <<owner, live, life, granted, told, tables, at, work>>

(***************************************************************************)
(* GET /sessions/whoami: the session is live and its account verified.     *)
(***************************************************************************)
\* Wrong: any live session is good enough.
LiveSession(t) == t \in live

EnsureVerifiedSession(t) == t \in live /\ account[owner[t]] = "verified"

(***************************************************************************)
(* Login makes a session and gives the client its token only when the      *)
(* account is verified.  Otherwise it ends the session, ignoring errors.   *)
(***************************************************************************)
Login(q, a, t) ==
  /\ at[q] = "idle"
  /\ account[a] # "none" /\ owner[t] = Nobody
  /\ owner' = [owner EXCEPT ![t] = a]
  /\ live' = live \cup {t}
  /\ life' = [life EXCEPT ![t] = 1]
  /\ work' = [work EXCEPT ![q] = [Job(t, a, FALSE) EXCEPT !.life = 1]]
  /\ Go(q, "loggedIn")
  /\ UNCHANGED <<account, clientVars, tables>>

GrantSession(q) ==
  LET t == work[q].session
  IN  /\ at[q] = "loggedIn"
      /\ EnsureVerifiedSession(t)
      /\ granted' = granted \cup {t}
      /\ told' = [told EXCEPT ![t] = work[q].life]
      /\ Finish(q)
      /\ UNCHANGED <<kratosVars, challenges, tables>>

RefuseLogin(q) ==
  /\ at[q] = "loggedIn"
  /\ Go(q, "revoking")
  /\ UNCHANGED <<kratosVars, clientVars, tables, work>>

RevokeSession(q) ==
  /\ at[q] = "revoking"
  /\ live' = live \ {work[q].session}
  /\ Finish(q)
  /\ UNCHANGED <<account, owner, life, clientVars, tables>>

(***************************************************************************)
(* Extension: whoami twice, PATCH, whoami.  Kratos may answer the PATCH    *)
(* with success and not prolong the session.                               *)
(***************************************************************************)
ExtendSession(q, t) ==
  /\ at[q] = "idle"
  /\ EnsureVerifiedSession(t)
  /\ work' = [work EXCEPT ![q] = Job(t, owner[t], FALSE)]
  /\ Go(q, "extending")
  /\ UNCHANGED <<kratosVars, clientVars, tables>>

ReadSession(q) ==
  /\ at[q] = "extending"
  /\ work[q].session \in live
  /\ work' = [work EXCEPT ![q].life = life[work[q].session]]
  /\ Go(q, "patching")
  /\ UNCHANGED <<kratosVars, clientVars, tables>>

PatchSession(q) ==
  LET t == work[q].session
  IN  /\ at[q] = "patching"
      /\ life' \in {life, [life EXCEPT ![t] = IF t \in live /\ @ < MaxLife THEN @ + 1 ELSE @]}
      /\ Go(q, "extended")
      /\ UNCHANGED <<account, owner, live, clientVars, tables, work>>

\* Wrong: a successful PATCH is taken to have prolonged the session.
TrustPatch(q) == work[q].life + 1

ReadAgain(q) == life[work[q].session]

ConfirmExtension(q) ==
  LET t == work[q].session
  IN  /\ at[q] = "extended"
      /\ t \in live
      /\ ReadAgain(q) > work[q].life
      /\ told' = [told EXCEPT ![t] = ReadAgain(q)]
      /\ Finish(q)
      /\ UNCHANGED <<kratosVars, challenges, granted, tables>>

\* An answer that the session is unknown counts as success.
Logout(t) ==
  /\ owner[t] # Nobody
  /\ live' = live \ {t}
  /\ UNCHANGED <<account, owner, life, clientVars, tables, at, work>>

SessionExpires(t) ==
  /\ t \in live
  /\ live' = live \ {t}
  /\ UNCHANGED <<account, owner, life, clientVars, tables, at, work>>

(***************************************************************************)
(* A request to the API is authenticated by the middleware and then served *)
(* as the account's user, found or created.  The primary key of            *)
(* external_identities makes a second insert wait for the first and fail.  *)
(* A client may hold any token, those of refused logins included.          *)
(***************************************************************************)

Subject(t) == owner[t]

AuthenticateVerified(q, t, driver) ==
  /\ at[q] = "idle"
  /\ EnsureVerifiedSession(t)
  /\ work' = [work EXCEPT ![q] = Job(t, Subject(t), driver)]
  /\ Go(q, "authenticated")
  /\ UNCHANGED <<kratosVars, clientVars, tables>>

FindIdentity(q) ==
  LET u == userOf[work[q].account]
  IN  /\ at[q] = "authenticated"
      /\ work' = [work EXCEPT ![q].user = u]
      /\ Go(q, IF u = Nobody THEN "creating" ELSE "found")
      /\ UNCHANGED <<kratosVars, clientVars, tables>>

\* Wrong: the insert replaces the identity that another request made.
ReplaceIdentity(q) == TRUE

IdentityFree(q) ==
  /\ userOf[work[q].account] = Nobody
  /\ \A p \in Requests : at[p] = "inserted" => work[p].account # work[q].account

UnusedId(u) == u \notin users /\ \A p \in Requests : at[p] = "inserted" => work[p].user # u

InsertIdentity(q, u) ==
  /\ at[q] = "creating"
  /\ UnusedId(u)
  /\ IdentityFree(q)
  /\ work' = [work EXCEPT ![q].user = u]
  /\ Go(q, "inserted")
  /\ UNCHANGED <<kratosVars, clientVars, tables>>

WithRider(q) == [caps EXCEPT ![work[q].user] = @ \cup {"rider"}]

CommitUser(q) ==
  LET u == work[q].user
  IN  /\ at[q] \in {"found", "inserted"}
      /\ userOf' = [userOf EXCEPT ![work[q].account] = u]
      /\ users' = users \cup {u}
      /\ caps' = WithRider(q)
      /\ Go(q, IF work[q].driver THEN "enabling" ELSE "reading")
      /\ UNCHANGED <<kratosVars, clientVars, work>>

AddCapability(q) ==
  /\ at[q] = "enabling"
  /\ caps' = [caps EXCEPT ![work[q].user] = @ \cup {"driver"}]
  /\ Go(q, "reading")
  /\ UNCHANGED <<kratosVars, clientVars, userOf, users, work>>

\* The capabilities are read back, and the request is served with them.
Serve(q) ==
  /\ at[q] = "reading"
  /\ Finish(q)
  /\ UNCHANGED <<kratosVars, clientVars, tables>>

\* A refusal, a failed call, a lost answer or a crash; transactions roll back.
Abandon(q) ==
  /\ at[q] # "idle"
  /\ Finish(q)
  /\ UNCHANGED <<kratosVars, clientVars, tables>>

SessionStep(q) ==
  \/ \E a \in Accounts, t \in Sessions : Login(q, a, t)
  \/ GrantSession(q) \/ RefuseLogin(q) \/ RevokeSession(q)
  \/ \E t \in Sessions : ExtendSession(q, t)
  \/ ReadSession(q) \/ PatchSession(q) \/ ConfirmExtension(q)

UserStep(q) ==
  \/ \E t \in Sessions, driver \in BOOLEAN : AuthenticateVerified(q, t, driver)
  \/ FindIdentity(q)
  \/ \E u \in Users : InsertIdentity(q, u)
  \/ CommitUser(q) \/ AddCapability(q) \/ Serve(q)

Next ==
  \/ \E a \in Accounts : Register(a) \/ StartVerification(a) \/ CompleteVerification(a)
  \/ \E t \in Sessions : Logout(t) \/ SessionExpires(t)
  \/ \E q \in Requests : SessionStep(q) \/ UserStep(q) \/ Abandon(q)

Spec == Init /\ [][Next]_vars

(***************************************************************************)
(* What accounts promise.                                                  *)
(***************************************************************************)

\* Nobody gets a token, and nobody becomes a user, before an address of the
\* account was verified, even though Kratos opens a session for anyone with a
\* password and an unverified session may outlive a refused login.
OnlyVerifiedAccounts ==
  /\ \A t \in granted : account[owner[t]] = "verified"
  /\ \A a \in Accounts : userOf[a] # Nobody => account[a] = "verified"

\* Users and accounts correspond one to one, and every user is a rider, however
\* many first requests of an account run at once and wherever they fail.
OneUserPerAccount ==
  /\ users = {userOf[a] : a \in {b \in Accounts : userOf[b] # Nobody}}
  /\ \A a, b \in Accounts : userOf[a] # Nobody /\ a # b => userOf[a] # userOf[b]
  /\ \A u \in users : "rider" \in caps[u]

\* A request is served as the user of the account that sent it, and finds the
\* capability it has just enabled.
ServedAsThemselves ==
  \A q \in Requests : at[q] \in {"enabling", "reading"} =>
    /\ userOf[work[q].account] = work[q].user
    /\ work[q].user \in users
    /\ at[q] = "reading" /\ work[q].driver => "driver" \in caps[work[q].user]

\* A client is never told of more time than its session has.
PromisedLifeIsReal ==
  \A t \in Sessions : told[t] <= life[t]
==============================================================================
