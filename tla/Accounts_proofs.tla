--------------------------- MODULE Accounts_proofs ---------------------------
(***************************************************************************)
(* Proofs about accounts, for any number of accounts, sessions, users and  *)
(* requests, and sessions of any life.                                     *)
(***************************************************************************)
EXTENDS Accounts, TLAPS

(***************************************************************************)
(* The inductive invariant.  What a request has read stays true: accounts  *)
(* stay verified, identities stay with their user, and an insert that      *)
(* waits to commit is alone with its account and its id.                   *)
(***************************************************************************)
Serving == {"authenticated", "creating", "found", "inserted", "enabling", "reading"}

Honest(q) ==
  /\ at[q] \in Serving => account[work[q].account] = "verified"
  /\ at[q] \in {"found", "enabling", "reading"} =>
       work[q].user \in Users /\ userOf[work[q].account] = work[q].user
  /\ at[q] = "inserted" =>
       /\ work[q].user \in Users \ users
       /\ userOf[work[q].account] = Nobody
  /\ at[q] = "loggedIn" => work[q].life <= life[work[q].session]
  /\ at[q] = "reading" /\ work[q].driver => "driver" \in caps[work[q].user]

OneInsert ==
  \A p, q \in Requests : at[p] = "inserted" /\ at[q] = "inserted" /\ p # q =>
    work[p].account # work[q].account /\ work[p].user # work[q].user

\* A token that was never issued has no life.
Unissued ==
  \A t \in Sessions : owner[t] = Nobody => life[t] = 0

AccountsInv ==
  /\ TypeOK
  /\ Unissued
  /\ \A q \in Requests : Honest(q)
  /\ OneInsert
  /\ OnlyVerifiedAccounts
  /\ OneUserPerAccount
  /\ PromisedLifeIsReal

\* Before anybody registers there is nothing to contradict.
LEMMA InitInv == Init => AccountsInv
<1> SUFFICES ASSUME Init PROVE AccountsInv
  OBVIOUS
<1>1. TypeOK
  BY AccountsAssumption DEF Init, TypeOK, Steps
<1>2. \A q \in Requests : at[q] = "idle"
  BY DEF Init
<1>3. (\A q \in Requests : Honest(q)) /\ OneInsert
  BY <1>2 DEF Honest, OneInsert, Serving
<1>4. OnlyVerifiedAccounts /\ OneUserPerAccount
  BY DEF Init, OnlyVerifiedAccounts, OneUserPerAccount
<1>5. PromisedLifeIsReal /\ Unissued
  BY DEF Init, PromisedLifeIsReal, Unissued
<1> QED
  BY <1>1, <1>3, <1>4, <1>5 DEF AccountsInv

\* The record of a request, field by field.
LEMMA JobTyped ==
  ASSUME TypeOK, NEW t \in Sessions, NEW a \in Accounts, NEW driver \in BOOLEAN
  PROVE  /\ Job(t, a, driver) \in Jobs
         /\ Job(t, a, driver).account = a /\ Job(t, a, driver).session = t
         /\ Job(t, a, driver).driver = driver
BY DEF Job, Jobs, TypeOK

\* A request may learn its user or a life and stays about the same session.
LEMMA JobKept ==
  ASSUME NEW j \in Jobs, NEW u \in Users \cup {Nobody}, NEW n \in Nat
  PROVE  /\ [j EXCEPT !.user = u] \in Jobs
         /\ [j EXCEPT !.user = u].user = u
         /\ [j EXCEPT !.user = u].account = j.account
         /\ [j EXCEPT !.user = u].session = j.session
         /\ [j EXCEPT !.user = u].driver = j.driver
         /\ [j EXCEPT !.life = n] \in Jobs
         /\ [j EXCEPT !.life = n].life = n
         /\ [j EXCEPT !.life = n].account = j.account
         /\ [j EXCEPT !.life = n].session = j.session
BY DEF Jobs

(***************************************************************************)
(* Steps of Kratos and its clients that no request takes part in.          *)
(***************************************************************************)

\* Registration, verification, the end of a session: accounts only move on.
LEMMA KratosKeeps ==
  ASSUME AccountsInv,
         \/ \E a \in Accounts : Register(a) \/ StartVerification(a) \/ CompleteVerification(a)
         \/ \E t \in Sessions : Logout(t) \/ SessionExpires(t)
  PROVE  AccountsInv'
<1>1. /\ UNCHANGED <<owner, life, granted, told, tables, at, work>>
      /\ live' \subseteq live
      /\ \A a \in Accounts : account[a] = "verified" => account'[a] = "verified"
      /\ account' \in [Accounts -> {"none", "unverified", "verified"}]
      /\ challenges' \subseteq Accounts
  <2> USE DEF AccountsInv, TypeOK, kratosVars, clientVars
  <2>1. ASSUME NEW a \in Accounts, Register(a) PROVE <1>1!:
    BY <2>1 DEF Register
  <2>2. ASSUME NEW a \in Accounts, StartVerification(a) PROVE <1>1!:
    BY <2>2 DEF StartVerification
  <2>3. ASSUME NEW a \in Accounts, CompleteVerification(a) PROVE <1>1!:
    BY <2>3 DEF CompleteVerification
  <2>4. ASSUME NEW t \in Sessions, Logout(t) \/ SessionExpires(t) PROVE <1>1!:
    BY <2>4 DEF Logout, SessionExpires
  <2> QED
    BY <2>1, <2>2, <2>3, <2>4
<1>2. TypeOK' /\ Unissued'
  BY <1>1 DEF AccountsInv, TypeOK, Unissued, tables
<1>3. (\A q \in Requests : Honest(q)') /\ OneInsert'
  <2>1. ASSUME NEW q \in Requests PROVE Honest(q)'
    <3>1. Honest(q) /\ (at[q] # "idle" => work[q].account \in Accounts)
      BY DEF AccountsInv, TypeOK, Jobs
    <3>2. UNCHANGED <<life, at, work, userOf, users, caps>>
      BY <1>1 DEF tables
    <3> QED
      BY <1>1, <3>1, <3>2 DEF Honest, Serving
  <2> QED
    BY <1>1, <2>1 DEF AccountsInv, OneInsert
<1>4. OnlyVerifiedAccounts' /\ OneUserPerAccount' /\ PromisedLifeIsReal'
  <2>1. \A t \in granted : owner[t] \in Accounts
    BY DEF AccountsInv, TypeOK
  <2> QED
    BY <1>1, <2>1 DEF AccountsInv, OnlyVerifiedAccounts, OneUserPerAccount, PromisedLifeIsReal, tables
<1> QED
  BY <1>2, <1>3, <1>4 DEF AccountsInv

(***************************************************************************)
(* Steps of requests.                                                      *)
(***************************************************************************)

\* A step of request q that leaves users, identities and accounts alone does
\* not disturb the others.
LEMMA OthersStayHonest ==
  ASSUME AccountsInv, NEW q \in Requests, UNCHANGED <<account, tables>>,
         \A t \in Sessions : life[t] <= life'[t],
         \A p \in Requests \ {q} : at'[p] = at[p] /\ work'[p] = work[p],
         NEW p \in Requests \ {q},
         life' \in [Sessions -> Nat]
  PROVE  Honest(p)'
<1>1. Honest(p) /\ (at[p] # "idle" => work[p] \in Jobs) /\ life \in [Sessions -> Nat]
  BY DEF AccountsInv, TypeOK
<1>2. at[p] = "loggedIn" => work[p].life \in Nat /\ work[p].session \in Sessions
  BY <1>1 DEF Jobs
<1>3. at'[p] = at[p] /\ work'[p] = work[p] /\ UNCHANGED <<userOf, users, caps>>
  BY DEF tables
<1>4. at'[p] = "loggedIn" => work'[p].life <= life'[work'[p].session]
  BY <1>1, <1>2, <1>3 DEF Honest
<1> QED
  BY <1>1, <1>3, <1>4 DEF Honest

\* A step of request q that leaves accounts and users alone keeps the invariant
\* if it keeps the sessions, and what q itself knows, in order.
LEMMA QuietKeeps ==
  ASSUME AccountsInv, NEW q \in Requests, UNCHANGED <<account, tables>>,
         \A t \in Sessions : life[t] <= life'[t],
         \A p \in Requests \ {q} : at'[p] = at[p] /\ work'[p] = work[p],
         TypeOK', Unissued', Honest(q)', at'[q] # "inserted",
         \A t \in granted' : account[owner'[t]] = "verified",
         PromisedLifeIsReal'
  PROVE  AccountsInv'
<1>1. life' \in [Sessions -> Nat]
  BY DEF TypeOK
<1>2. \A p \in Requests : Honest(p)'
  BY <1>1, OthersStayHonest
<1>3. OneInsert'
  BY DEF AccountsInv, OneInsert
<1>4. OnlyVerifiedAccounts' /\ OneUserPerAccount'
  BY DEF AccountsInv, OnlyVerifiedAccounts, OneUserPerAccount, tables
<1> QED
  BY <1>2, <1>3, <1>4 DEF AccountsInv

\* What is known of the request that steps.
LEMMA Stepping ==
  ASSUME AccountsInv, NEW q \in Requests
  PROVE  /\ at \in [Requests -> Steps] /\ work \in [Requests -> Jobs \cup {Nobody}]
         /\ life \in [Sessions -> Nat] /\ told \in [Sessions -> Nat]
         /\ owner \in [Sessions -> Accounts \cup {Nobody}]
         /\ at[q] # "idle" => /\ work[q] \in Jobs /\ owner[work[q].session] = work[q].account
                              /\ work[q].session \in Sessions /\ work[q].account \in Accounts
                              /\ work[q].life \in Nat
         /\ \A t \in granted : t \in Sessions /\ account[owner[t]] = "verified"
BY DEF AccountsInv, TypeOK, Jobs, OnlyVerifiedAccounts

\* A login opens a session for an account of any state.
LEMMA LoginKeeps ==
  ASSUME AccountsInv, NEW q \in Requests, NEW a \in Accounts, NEW t \in Sessions, Login(q, a, t)
  PROVE  AccountsInv'
<1> DEFINE j == [Job(t, a, FALSE) EXCEPT !.life = 1]
<1>1. j \in Jobs /\ j.session = t /\ j.account = a /\ j.life = 1
  BY DEF Job, Jobs, AccountsInv, TypeOK
<1>2. /\ owner' = [owner EXCEPT ![t] = a] /\ live' = live \cup {t} /\ life' = [life EXCEPT ![t] = 1]
      /\ work' = [work EXCEPT ![q] = j] /\ at' = [at EXCEPT ![q] = "loggedIn"]
      /\ UNCHANGED <<account, challenges, granted, told, tables>>
      /\ at[q] = "idle" /\ owner[t] = Nobody
  BY DEF Login, Go, clientVars
<1>3. TypeOK /\ Unissued /\ PromisedLifeIsReal /\ AccountsAssumption
  BY AccountsAssumption DEF AccountsInv
<1> HIDE DEF j
<1>4. TypeOK'
  <2>1. \A p \in Requests : at[p] # "idle" => owner'[work[p].session] = work[p].account
    <3>1. ASSUME NEW p \in Requests, at[p] # "idle" PROVE work[p].session # t
      BY <1>2, <1>3, <3>1 DEF TypeOK, Jobs, AccountsAssumption
    <3> QED
      BY <1>2, <1>3, <3>1 DEF TypeOK, Jobs
  <2>2. "loggedIn" \in Steps
    BY DEF Steps
  <2>3. \A p \in Requests : at'[p] # "idle" => work'[p] \in Jobs /\ owner'[work'[p].session] = work'[p].account
    BY <1>1, <1>2, <1>3, <2>1 DEF TypeOK
  <2> QED
    BY <1>1, <1>2, <1>3, <2>2, <2>3 DEF TypeOK, tables, AccountsAssumption
<1>5. \A s \in Sessions : life[s] <= life'[s]
  BY <1>2, <1>3 DEF TypeOK, Unissued
<1>6. Unissued' /\ PromisedLifeIsReal'
  BY <1>2, <1>3, <1>5 DEF TypeOK, Unissued, PromisedLifeIsReal, AccountsAssumption
<1>7. Honest(q)' /\ at'[q] # "inserted" /\ \A p \in Requests \ {q} : at'[p] = at[p] /\ work'[p] = work[p]
  BY <1>1, <1>2, <1>3 DEF TypeOK, Honest, Serving
<1>8. \A s \in granted' : account[owner'[s]] = "verified"
  BY <1>2, <1>3, Stepping DEF TypeOK
<1> QED
  BY <1>2, <1>4, <1>5, <1>6, <1>7, <1>8, QuietKeeps

\* The other steps of a session.
LEMMA SessionKeeps ==
  ASSUME AccountsInv, NEW q \in Requests,
         \/ GrantSession(q) \/ RefuseLogin(q) \/ RevokeSession(q)
         \/ \E t \in Sessions : ExtendSession(q, t)
         \/ ReadSession(q) \/ PatchSession(q) \/ ConfirmExtension(q)
         \/ Abandon(q)
  PROVE  AccountsInv'
<1>0. /\ at \in [Requests -> Steps] /\ work \in [Requests -> Jobs \cup {Nobody}]
      /\ life \in [Sessions -> Nat] /\ told \in [Sessions -> Nat]
      /\ owner \in [Sessions -> Accounts \cup {Nobody}]
      /\ (at[q] # "idle" => /\ work[q] \in Jobs /\ owner[work[q].session] = work[q].account
                            /\ work[q].session \in Sessions /\ work[q].account \in Accounts
                            /\ work[q].life \in Nat)
      /\ \A t \in granted : t \in Sessions /\ account[owner[t]] = "verified"
      /\ TypeOK /\ Unissued /\ PromisedLifeIsReal /\ Honest(q)
  BY Stepping DEF AccountsInv
<1> USE <1>0 DEF Go, Finish, kratosVars, clientVars, Honest, Serving, PromisedLifeIsReal, Unissued
<1>1. CASE GrantSession(q)
  <2>1. TypeOK'
    BY <1>1, AccountsAssumption DEF GrantSession, TypeOK, tables, Steps, AccountsAssumption
  <2>2. Honest(q)' /\ at'[q] # "inserted" /\ \A p \in Requests \ {q} : at'[p] = at[p] /\ work'[p] = work[p]
    BY <1>1 DEF GrantSession
  <2>3. Unissued' /\ PromisedLifeIsReal' /\ \A t \in granted' : account[owner'[t]] = "verified"
    BY <1>1 DEF GrantSession, EnsureVerifiedSession
  <2>4. UNCHANGED <<account, tables>> /\ \A t \in Sessions : life[t] <= life'[t]
    BY <1>1 DEF GrantSession
  <2> QED
    BY <2>1, <2>2, <2>3, <2>4, QuietKeeps
<1>2. CASE RefuseLogin(q) \/ RevokeSession(q) \/ Abandon(q)
  <2>1. /\ UNCHANGED <<account, owner, life, granted, told, challenges, tables>> /\ live' \subseteq live
        /\ \A p \in Requests \ {q} : at'[p] = at[p] /\ work'[p] = work[p]
        /\ \/ at'[q] = "revoking" /\ work'[q] = work[q] /\ at[q] # "idle"
           \/ at'[q] = "idle"
        /\ at' \in [Requests -> Steps] /\ work' \in [Requests -> Jobs \cup {Nobody}]
    BY <1>2 DEF RefuseLogin, RevokeSession, Abandon, Steps
  <2>2. TypeOK'
    BY <2>1 DEF TypeOK, tables
  <2>3. Honest(q)' /\ at'[q] # "inserted" /\ Unissued' /\ PromisedLifeIsReal'
    BY <2>1
  <2>4. \A t \in Sessions : life[t] <= life'[t]
    BY <2>1
  <2> QED
    BY <2>1, <2>2, <2>3, <2>4, QuietKeeps
<1>3. ASSUME NEW t \in Sessions, ExtendSession(q, t) PROVE AccountsInv'
  <2>1. owner[t] \in Accounts /\ at[q] = "idle"
    BY <1>3 DEF ExtendSession, EnsureVerifiedSession, TypeOK
  <2>2. /\ Job(t, owner[t], FALSE) \in Jobs /\ Job(t, owner[t], FALSE).account = owner[t]
        /\ Job(t, owner[t], FALSE).session = t
    BY <2>1 DEF Job, Jobs
  <2>3. /\ UNCHANGED <<account, owner, live, life, granted, told, challenges, tables>>
        /\ work' = [work EXCEPT ![q] = Job(t, owner[t], FALSE)]
        /\ at' = [at EXCEPT ![q] = "extending"]
    BY <1>3 DEF ExtendSession
  <2>4. TypeOK'
    BY <2>2, <2>3 DEF TypeOK, tables, Steps
  <2>5. Honest(q)' /\ at'[q] # "inserted" /\ Unissued' /\ PromisedLifeIsReal'
        /\ \A p \in Requests \ {q} : at'[p] = at[p] /\ work'[p] = work[p]
    BY <2>3
  <2>6. \A s \in Sessions : life[s] <= life'[s]
    BY <2>3
  <2> QED
    BY <2>3, <2>4, <2>5, <2>6, QuietKeeps
<1>4. CASE ReadSession(q)
  <2> DEFINE j == [work[q] EXCEPT !.life = life[work[q].session]]
  <2>1. at[q] = "extending" /\ work[q] \in Jobs /\ life[work[q].session] \in Nat
    BY <1>4 DEF ReadSession
  <2>2. j \in Jobs /\ j.account = work[q].account /\ j.session = work[q].session
    BY <2>1 DEF Jobs
  <2>3. /\ UNCHANGED <<account, owner, live, life, granted, told, challenges, tables>>
        /\ work' = [work EXCEPT ![q] = j] /\ at' = [at EXCEPT ![q] = "patching"]
    BY <1>4 DEF ReadSession
  <2> HIDE DEF j
  <2>4. TypeOK'
    BY <2>1, <2>2, <2>3 DEF TypeOK, tables, Steps
  <2>5. Honest(q)' /\ at'[q] # "inserted" /\ Unissued' /\ PromisedLifeIsReal'
        /\ \A p \in Requests \ {q} : at'[p] = at[p] /\ work'[p] = work[p]
    BY <2>3
  <2>6. \A s \in Sessions : life[s] <= life'[s]
    BY <2>3
  <2> QED
    BY <2>3, <2>4, <2>5, <2>6, QuietKeeps
<1>5. CASE PatchSession(q)
  <2> DEFINE t == work[q].session
  <2>1. /\ UNCHANGED <<account, owner, live, granted, told, challenges, tables, work>>
        /\ at[q] = "patching" /\ at' = [at EXCEPT ![q] = "extended"] /\ t \in Sessions
        /\ owner[t] \in Accounts
    BY <1>5 DEF PatchSession
  <2>2. life' = life \/ life' = [life EXCEPT ![t] = IF t \in live /\ @ < MaxLife THEN @ + 1 ELSE @]
    BY <1>5 DEF PatchSession
  <2>3. life' \in [Sessions -> Nat] /\ \A s \in Sessions : life[s] <= life'[s]
    BY <2>1, <2>2
  <2>4. TypeOK'
    BY <2>1, <2>3 DEF TypeOK, tables, Steps
  <2>5. Honest(q)' /\ at'[q] # "inserted" /\ PromisedLifeIsReal'
        /\ \A p \in Requests \ {q} : at'[p] = at[p] /\ work'[p] = work[p]
    BY <2>1, <2>3
  <2>6. Unissued'
    BY <2>1, <2>2, AccountsAssumption DEF AccountsAssumption
  <2> QED
    BY <2>1, <2>3, <2>4, <2>5, <2>6, QuietKeeps
<1>6. CASE ConfirmExtension(q)
  <2>1. TypeOK'
    BY <1>6 DEF ConfirmExtension, ReadAgain, TypeOK, tables, Steps
  <2>2. Honest(q)' /\ at'[q] # "inserted" /\ \A p \in Requests \ {q} : at'[p] = at[p] /\ work'[p] = work[p]
    BY <1>6 DEF ConfirmExtension
  <2>3. Unissued' /\ PromisedLifeIsReal' /\ \A t \in granted' : account[owner'[t]] = "verified"
    BY <1>6 DEF ConfirmExtension, ReadAgain
  <2>4. UNCHANGED <<account, tables>> /\ \A t \in Sessions : life[t] <= life'[t]
    BY <1>6 DEF ConfirmExtension
  <2> QED
    BY <2>1, <2>2, <2>3, <2>4, QuietKeeps
<1> QED
  BY <1>1, <1>2, <1>3, <1>4, <1>5, <1>6

(***************************************************************************)
(* A request becomes a user.                                               *)
(***************************************************************************)

\* The steps before and after the transaction that makes the user.
LEMMA ServingKeeps ==
  ASSUME AccountsInv, NEW q \in Requests,
         \/ \E t \in Sessions, driver \in BOOLEAN : AuthenticateVerified(q, t, driver)
         \/ FindIdentity(q) \/ Serve(q)
  PROVE  AccountsInv'
<1>0. /\ at \in [Requests -> Steps] /\ work \in [Requests -> Jobs \cup {Nobody}]
      /\ owner \in [Sessions -> Accounts \cup {Nobody}]
      /\ userOf \in [Accounts -> Users \cup {Nobody}]
      /\ (at[q] # "idle" => /\ work[q] \in Jobs /\ owner[work[q].session] = work[q].account
                            /\ work[q].session \in Sessions /\ work[q].account \in Accounts)
      /\ \A t \in granted : t \in Sessions /\ account[owner[t]] = "verified"
      /\ TypeOK /\ Unissued /\ PromisedLifeIsReal /\ Honest(q) /\ life \in [Sessions -> Nat]
  BY Stepping DEF AccountsInv, TypeOK
<1>1. ASSUME UNCHANGED <<kratosVars, clientVars, tables>>, TypeOK', Honest(q)', at'[q] # "inserted",
             \A p \in Requests \ {q} : at'[p] = at[p] /\ work'[p] = work[p]
      PROVE  AccountsInv'
  <2>1. Unissued' /\ PromisedLifeIsReal' /\ \A t \in granted' : account[owner'[t]] = "verified"
    BY <1>0, <1>1 DEF kratosVars, clientVars, Unissued, PromisedLifeIsReal
  <2>2. UNCHANGED <<account, tables>> /\ \A t \in Sessions : life[t] <= life'[t]
    BY <1>0, <1>1 DEF kratosVars
  <2> QED
    BY <1>1, <2>1, <2>2, QuietKeeps
<1>2. ASSUME NEW t \in Sessions, NEW driver \in BOOLEAN, AuthenticateVerified(q, t, driver)
      PROVE  AccountsInv'
  <2> DEFINE j == Job(t, owner[t], driver)
  <2>1. owner[t] \in Accounts /\ account[owner[t]] = "verified"
    BY <1>0, <1>2 DEF AuthenticateVerified, EnsureVerifiedSession, TypeOK
  <2>2. j \in Jobs /\ j.account = owner[t] /\ j.session = t
    BY <1>0, <2>1 DEF Job, Jobs
  <2>3. /\ UNCHANGED <<kratosVars, clientVars, tables>>
        /\ work' = [work EXCEPT ![q] = j] /\ at' = [at EXCEPT ![q] = "authenticated"]
    BY <1>2 DEF AuthenticateVerified, Subject, Go
  <2> HIDE DEF j
  <2>4. TypeOK'
    BY <1>0, <2>2, <2>3 DEF TypeOK, kratosVars, clientVars, tables, Steps
  <2>5. Honest(q)' /\ at'[q] # "inserted"
    BY <1>0, <2>1, <2>2, <2>3 DEF Honest, Serving, kratosVars
  <2> QED
    BY <1>0, <1>1, <2>3, <2>4, <2>5
<1>3. CASE FindIdentity(q)
  <2> DEFINE u == userOf[work[q].account]
  <2> DEFINE j == [work[q] EXCEPT !.user = u]
  <2>1. at[q] = "authenticated" /\ work[q] \in Jobs /\ u \in Users \cup {Nobody}
    BY <1>0, <1>3 DEF FindIdentity
  <2>2. j \in Jobs /\ j.account = work[q].account /\ j.session = work[q].session /\ j.user = u
    BY <2>1, JobKept
  <2>3. /\ UNCHANGED <<kratosVars, clientVars, tables>> /\ work' = [work EXCEPT ![q] = j]
        /\ at' = [at EXCEPT ![q] = IF u = Nobody THEN "creating" ELSE "found"]
    BY <1>3 DEF FindIdentity, Go
  <2> HIDE DEF j
  <2>4. TypeOK'
    BY <1>0, <2>1, <2>2, <2>3 DEF TypeOK, kratosVars, clientVars, tables, Steps
  <2>5. Honest(q)' /\ at'[q] # "inserted"
    BY <1>0, <2>1, <2>2, <2>3 DEF Honest, Serving, kratosVars, tables
  <2> QED
    BY <1>0, <1>1, <2>3, <2>4, <2>5
<1>4. CASE Serve(q)
  <2>1. /\ UNCHANGED <<kratosVars, clientVars, tables>> /\ work' = [work EXCEPT ![q] = Nobody]
        /\ at' = [at EXCEPT ![q] = "idle"]
    BY <1>4 DEF Serve, Finish, Go
  <2>2. TypeOK'
    BY <1>0, <2>1 DEF TypeOK, kratosVars, clientVars, tables, Steps
  <2> QED
    BY <1>0, <1>1, <2>1, <2>2 DEF Honest, Serving
<1> QED
  BY <1>2, <1>3, <1>4

\* The insert of an identity waits to commit, alone with its account and id.
LEMMA InsertKeeps ==
  ASSUME AccountsInv, NEW q \in Requests, NEW u \in Users, InsertIdentity(q, u)
  PROVE  AccountsInv'
<1> DEFINE j == [work[q] EXCEPT !.user = u]
<1>1. TypeOK /\ OneInsert /\ Honest(q) /\ at[q] = "creating" /\ work[q] \in Jobs
  BY DEF AccountsInv, InsertIdentity, TypeOK
<1>2. j \in Jobs /\ j.account = work[q].account /\ j.session = work[q].session /\ j.user = u
  BY <1>1, JobKept
<1>3. /\ UNCHANGED <<kratosVars, clientVars, tables>> /\ work' = [work EXCEPT ![q] = j]
      /\ at' = [at EXCEPT ![q] = "inserted"] /\ UnusedId(u) /\ IdentityFree(q)
  BY DEF InsertIdentity, Go
<1> HIDE DEF j
<1>4. TypeOK'
  BY <1>1, <1>2, <1>3 DEF TypeOK, kratosVars, clientVars, tables, Steps
<1>5. \A p \in Requests \ {q} : at'[p] = at[p] /\ work'[p] = work[p]
  BY <1>1, <1>3 DEF TypeOK
<1>6. at'[q] = "inserted" /\ work'[q] = j
  BY <1>1, <1>3 DEF TypeOK
<1>7. Honest(q)'
  BY <1>1, <1>2, <1>3, <1>6 DEF Honest, Serving, UnusedId, IdentityFree, kratosVars, tables
<1>8. \A p \in Requests : Honest(p)'
  BY <1>3, <1>5, <1>7 DEF AccountsInv, Honest, kratosVars, tables
<1>9. OneInsert'
  BY <1>1, <1>2, <1>3, <1>5, <1>6 DEF OneInsert, UnusedId, IdentityFree
<1>10. Unissued' /\ OnlyVerifiedAccounts' /\ OneUserPerAccount' /\ PromisedLifeIsReal'
  BY <1>3 DEF AccountsInv, Unissued, OnlyVerifiedAccounts, OneUserPerAccount, PromisedLifeIsReal,
              kratosVars, clientVars, tables
<1> QED
  BY <1>4, <1>8, <1>9, <1>10 DEF AccountsInv

\* The transaction commits: a user is made, or a capability found to be there.
LEMMA CommitKeeps ==
  ASSUME AccountsInv, NEW q \in Requests, CommitUser(q)
  PROVE  AccountsInv'
<1> DEFINE u == work[q].user
<1> DEFINE a == work[q].account
<1>1. /\ TypeOK /\ OneInsert /\ Honest(q) /\ OneUserPerAccount /\ at[q] \in {"found", "inserted"}
      /\ work[q] \in Jobs /\ a \in Accounts /\ u \in Users /\ account[a] = "verified"
  BY DEF AccountsInv, CommitUser, TypeOK, Jobs, Honest, Serving
<1>2. /\ UNCHANGED <<kratosVars, clientVars, work>>
      /\ userOf' = [userOf EXCEPT ![a] = u] /\ users' = users \cup {u}
      /\ caps' = [caps EXCEPT ![u] = @ \cup {"rider"}]
      /\ at' = [at EXCEPT ![q] = IF work[q].driver THEN "enabling" ELSE "reading"]
  BY DEF CommitUser, WithRider, Go
<1>3. /\ userOf'[a] = u /\ \A b \in Accounts \ {a} : userOf'[b] = userOf[b]
      /\ caps'[u] = caps[u] \cup {"rider"} /\ \A v \in Users \ {u} : caps'[v] = caps[v]
      /\ \A p \in Requests \ {q} : at'[p] = at[p]
      /\ at'[q] = IF work[q].driver THEN "enabling" ELSE "reading"
  BY <1>1, <1>2 DEF TypeOK
<1>4. \/ at[q] = "found" /\ userOf[a] = u /\ u \in users
      \/ at[q] = "inserted" /\ userOf[a] = Nobody /\ u \notin users
  BY <1>1, AccountsAssumption DEF Honest, OneUserPerAccount, AccountsAssumption
<1>5. TypeOK'
  BY <1>1, <1>2 DEF TypeOK, kratosVars, clientVars, Steps
<1>6. ASSUME NEW p \in Requests \ {q} PROVE Honest(p)'
  <2>1. Honest(p) /\ (at[p] # "idle" => work[p] \in Jobs /\ work[p].account \in Accounts)
    BY DEF AccountsInv, TypeOK, Jobs
  <2>2. at[p] \in {"found", "enabling", "reading"} => userOf'[work[p].account] = userOf[work[p].account]
    BY <1>3, <1>4, <2>1, AccountsAssumption DEF Honest, AccountsAssumption
  <2>3. at[p] = "inserted" => work[p].user \notin users' /\ userOf'[work[p].account] = Nobody
    BY <1>1, <1>2, <1>3, <1>4, <2>1 DEF Honest, OneInsert, OneUserPerAccount
  <2>4. \A v \in Users : caps[v] \subseteq caps'[v]
    BY <1>3
  <2> QED
    BY <1>2, <1>3, <2>1, <2>2, <2>3, <2>4 DEF Honest, Serving, kratosVars
<1>7. Honest(q)'
  BY <1>1, <1>2, <1>3 DEF Honest, Serving, kratosVars
<1>8. OneInsert'
  BY <1>1, <1>2, <1>3 DEF OneInsert
<1>9. OneUserPerAccount'
  <2>1. users' = {userOf'[b] : b \in {c \in Accounts : userOf'[c] # Nobody}}
    BY <1>1, <1>2, <1>3, <1>4, AccountsAssumption DEF OneUserPerAccount, AccountsAssumption
  <2>2. \A b, c \in Accounts : userOf'[b] # Nobody /\ b # c => userOf'[b] # userOf'[c]
    BY <1>1, <1>3, <1>4, AccountsAssumption DEF OneUserPerAccount, AccountsAssumption
  <2>3. \A v \in users' : "rider" \in caps'[v]
    BY <1>1, <1>2, <1>3 DEF OneUserPerAccount, TypeOK
  <2> QED
    BY <2>1, <2>2, <2>3 DEF OneUserPerAccount
<1>10. Unissued' /\ OnlyVerifiedAccounts' /\ PromisedLifeIsReal'
  BY <1>1, <1>2, <1>3 DEF AccountsInv, Unissued, OnlyVerifiedAccounts, PromisedLifeIsReal, kratosVars,
                          clientVars
<1> QED
  BY <1>5, <1>6, <1>7, <1>8, <1>9, <1>10 DEF AccountsInv

\* Enabling the driver capability.
LEMMA CapabilityKeeps ==
  ASSUME AccountsInv, NEW q \in Requests, AddCapability(q)
  PROVE  AccountsInv'
<1> DEFINE u == work[q].user
<1>1. TypeOK /\ OneInsert /\ Honest(q) /\ OneUserPerAccount /\ at[q] = "enabling" /\ u \in Users
  BY DEF AccountsInv, AddCapability, Honest
<1>2. /\ UNCHANGED <<kratosVars, clientVars, work, userOf, users>>
      /\ caps' = [caps EXCEPT ![u] = @ \cup {"driver"}] /\ at' = [at EXCEPT ![q] = "reading"]
  BY DEF AddCapability, Go
<1>3. /\ caps'[u] = caps[u] \cup {"driver"} /\ \A v \in Users : caps[v] \subseteq caps'[v]
      /\ \A p \in Requests \ {q} : at'[p] = at[p]
      /\ at'[q] = "reading"
  BY <1>1, <1>2 DEF TypeOK
<1>4. TypeOK'
  BY <1>1, <1>2 DEF TypeOK, kratosVars, clientVars, Steps
<1>5. Honest(q)'
  BY <1>1, <1>2, <1>3 DEF Honest, Serving, kratosVars
<1>6. \A p \in Requests \ {q} : Honest(p)'
  BY <1>2, <1>3 DEF AccountsInv, Honest, Serving, kratosVars
<1>7. OneInsert'
  BY <1>1, <1>2, <1>3 DEF OneInsert
<1>8. OneUserPerAccount'
  <2>1. users \subseteq Users
    BY <1>1 DEF TypeOK
  <2> QED
    BY <1>1, <1>2, <1>3, <2>1 DEF OneUserPerAccount
<1>9. Unissued' /\ OnlyVerifiedAccounts' /\ PromisedLifeIsReal'
  BY <1>2 DEF AccountsInv, Unissued, OnlyVerifiedAccounts, PromisedLifeIsReal, kratosVars, clientVars
<1> QED
  BY <1>4, <1>5, <1>6, <1>7, <1>8, <1>9 DEF AccountsInv

\* Every step keeps the invariant.
LEMMA InvStep ==
  ASSUME AccountsInv, [Next]_vars
  PROVE  AccountsInv'
<1>1. CASE UNCHANGED vars
  <2>1. UNCHANGED <<account, owner, live, life, challenges, granted, told, userOf, users, caps, at, work>>
    BY <1>1 DEF vars, kratosVars, clientVars, tables
  <2>2. TypeOK' /\ Unissued' /\ OneInsert'
    BY <2>1 DEF AccountsInv, TypeOK, Unissued, OneInsert
  <2>3. \A q \in Requests : Honest(q)'
    BY <2>1 DEF AccountsInv, Honest
  <2>4. OnlyVerifiedAccounts' /\ OneUserPerAccount' /\ PromisedLifeIsReal'
    BY <2>1 DEF AccountsInv, OnlyVerifiedAccounts, OneUserPerAccount, PromisedLifeIsReal
  <2> QED
    BY <2>2, <2>3, <2>4 DEF AccountsInv
<1>2. ASSUME NEW q \in Requests, SessionStep(q) PROVE AccountsInv'
  BY <1>2, LoginKeeps, SessionKeeps DEF SessionStep
<1>3. ASSUME NEW q \in Requests, UserStep(q) PROVE AccountsInv'
  BY <1>3, ServingKeeps, InsertKeeps, CommitKeeps, CapabilityKeeps DEF UserStep
<1>4. ASSUME NEW q \in Requests, Abandon(q) PROVE AccountsInv'
  BY <1>4, SessionKeeps
<1>5. CASE \/ \E a \in Accounts : Register(a) \/ StartVerification(a) \/ CompleteVerification(a)
           \/ \E t \in Sessions : Logout(t) \/ SessionExpires(t)
  BY <1>5, KratosKeeps
<1> QED
  BY <1>1, <1>2, <1>3, <1>4, <1>5 DEF Next

\* The invariant holds of every behaviour.
THEOREM AccountsInvAlways == Spec => []AccountsInv
<1>1. AccountsInv /\ [Next]_vars => AccountsInv'
  BY InvStep
<1> QED
  BY InitInv, <1>1, PTL DEF Spec

(***************************************************************************)
(* Tables, answers of Kratos and requests keep their types.                *)
(***************************************************************************)
THEOREM TypeCorrect == Spec => []TypeOK
<1>1. AccountsInv => TypeOK
  BY DEF AccountsInv
<1> QED
  BY <1>1, AccountsInvAlways, PTL

(***************************************************************************)
(* Nobody holds a token or is a user without a verified address.           *)
(***************************************************************************)
THEOREM OnlyVerifiedAccountsAlways == Spec => []OnlyVerifiedAccounts
<1>1. AccountsInv => OnlyVerifiedAccounts
  BY DEF AccountsInv
<1> QED
  BY <1>1, AccountsInvAlways, PTL

(***************************************************************************)
(* Users and accounts correspond one to one, and every user is a rider.    *)
(***************************************************************************)
THEOREM OneUserPerAccountAlways == Spec => []OneUserPerAccount
<1>1. AccountsInv => OneUserPerAccount
  BY DEF AccountsInv
<1> QED
  BY <1>1, AccountsInvAlways, PTL

(***************************************************************************)
(* A request is served as the user of the account that sent it.            *)
(***************************************************************************)
THEOREM ServedAsThemselvesAlways == Spec => []ServedAsThemselves
<1>1. AccountsInv => ServedAsThemselves
  <2> SUFFICES ASSUME AccountsInv, NEW q \in Requests, at[q] \in {"enabling", "reading"}
               PROVE  /\ userOf[work[q].account] = work[q].user
                      /\ work[q].user \in users
                      /\ at[q] = "reading" /\ work[q].driver => "driver" \in caps[work[q].user]
    BY DEF ServedAsThemselves
  <2>1. Honest(q) /\ OneUserPerAccount /\ work[q].account \in Accounts
    BY DEF AccountsInv, TypeOK, Jobs
  <2> QED
    BY <2>1, AccountsAssumption DEF Honest, OneUserPerAccount, AccountsAssumption
<1> QED
  BY <1>1, AccountsInvAlways, PTL

(***************************************************************************)
(* A client is never told of more time than its session has.               *)
(***************************************************************************)
THEOREM PromisedLifeIsRealAlways == Spec => []PromisedLifeIsReal
<1>1. AccountsInv => PromisedLifeIsReal
  BY DEF AccountsInv
<1> QED
  BY <1>1, AccountsInvAlways, PTL
==============================================================================
