-------------------------- MODULE Onboarding_proofs --------------------------
(***************************************************************************)
(* Proofs about onboarding, for any number of drivers, vehicles, services, *)
(* applications and requests.                                              *)
(***************************************************************************)
EXTENDS Onboarding, TLAPS

(***************************************************************************)
(* Type correctness.                                                       *)
(***************************************************************************)

\* The initial rows are typed.
LEMMA InitTyped == Init => TypeOK
BY OnboardingAssumption DEF Init, TypeOK, Types

\* Every step keeps the types.
LEMMA TypeStep ==
  ASSUME TypeOK, [Next]_vars
  PROVE  TypeOK'
<1> USE DEF TypeOK, Finish
<1>1. CASE UNCHANGED vars
  BY <1>1 DEF vars, rows
<1>2. ASSUME NEW h \in Handlers, NEW f \in Forms, Submit(h, f) PROVE TypeOK'
  <2>1. [kind |-> "submit", form |-> f, app |-> NoApplication,
         type |-> "initial_onboarding"] \in Jobs
    BY DEF Jobs, Kinds, Types
  <2> QED
    BY <1>2, <2>1 DEF Submit, Accept, rows
<1>3. ASSUME NEW h \in Handlers, NEW a \in Applications, NEW verdict \in {"approve", "reject"},
             Review(h, a, verdict)
      PROVE  TypeOK'
  <2>1. [kind |-> verdict, form |-> form[a], app |-> a,
         type |-> "initial_onboarding"] \in Jobs
    BY <1>3 DEF Jobs, Kinds, Types, Review
  <2> QED
    BY <1>3, <2>1 DEF Review, Accept, rows
<1>4. ASSUME NEW h \in Handlers, LockDriverReviewScope(h) PROVE TypeOK'
  BY <1>4 DEF LockDriverReviewScope, rows
<1>5. ASSUME NEW h \in Handlers, CheckSubmission(h) PROVE TypeOK'
  <2>1. ApplicationTypeForSubmission(work[h].form.driver) \in Types
    BY DEF ApplicationTypeForSubmission, Type, Types
  <2> QED
    BY <1>5, <2>1 DEF CheckSubmission, Jobs, rows
<1>6. ASSUME NEW h \in Handlers, NEW a \in Applications, CreateApplication(h, a) PROVE TypeOK'
  <2>1. work[h].form \in Forms /\ work[h].type \in Types
    BY <1>6 DEF CreateApplication, Jobs
  <2> QED
    BY <1>6, <2>1 DEF CreateApplication
<1>7. ASSUME NEW h \in Handlers, LoadApplicationForUpdate(h) PROVE TypeOK'
  BY <1>7 DEF LoadApplicationForUpdate, rows
<1>8. ASSUME NEW h \in Handlers, ApproveApplication(h) \/ RejectApplication(h) PROVE TypeOK'
  <2>1. work[h].app \in Applications /\ form[work[h].app] \in Forms
    BY <1>8 DEF ApproveApplication, RejectApplication
  <2>2. profile' \in [Drivers -> Applications \cup {NoApplication}] /\ vehicles' \subseteq Forms
    BY <1>8, <2>1 DEF ApproveApplication, RejectApplication, EnsureDriverProfile, Forms
  <2> QED
    BY <1>8, <2>1, <2>2 DEF ApproveApplication, RejectApplication, Decide
<1>9. ASSUME NEW h \in Handlers, Abandon(h) PROVE TypeOK'
  BY <1>9 DEF Abandon, rows
<1> QED
  BY <1>1, <1>2, <1>3, <1>4, <1>5, <1>6, <1>7, <1>8, <1>9 DEF Next

(***************************************************************************)
(* Rows and requests of onboarding keep their types.                       *)
(***************************************************************************)
THEOREM TypeCorrect == Spec => []TypeOK
<1>1. TypeOK /\ [Next]_vars => TypeOK'
  BY TypeStep
<1> QED
  BY InitTyped, <1>1, PTL DEF Spec

(***************************************************************************)
(* The inductive invariant: what the handlers in their transactions know   *)
(* stays true until they commit, because each of them holds its driver.    *)
(***************************************************************************)
Serial ==
  \A g, h \in Handlers : InTransaction(g) /\ InTransaction(h) /\ g # h =>
    work[g].form.driver # work[h].form.driver

Informed ==
  \A h \in Handlers : at[h] = "checked" =>
    /\ work[h].kind = "submit" =>
         /\ ~Registered(work[h].form)
         /\ work[h].type = ApplicationTypeForSubmission(work[h].form.driver)
    /\ work[h].kind # "submit" => status[work[h].app] = "pending"

FormsQualify ==
  /\ \A h \in Handlers : at[h] # "idle" =>
       <<work[h].form.plate, work[h].form.service>> \in Qualifying
  /\ \A a \in Applications : status[a] # "none" =>
       <<form[a].plate, form[a].service>> \in Qualifying

Moments ==
  \A a \in Applications : submitted[a] <= clock /\ decided[a] <= clock

Records ==
  /\ PendingCanBeApproved
  /\ RegistryIsWhatWasApproved
  /\ ProfileIsFirstApproval
  /\ TypeNeverChanges
  /\ Moments

OnboardingInv ==
  /\ TypeOK
  /\ Serial
  /\ Informed
  /\ FormsQualify
  /\ Records

\* Before anybody applies there is nothing to contradict.
LEMMA InitInv == Init => OnboardingInv
<1> SUFFICES ASSUME Init PROVE OnboardingInv
  OBVIOUS
<1>1. \A d \in Drivers : Of(d) = {} /\ Pending(d) = {} /\ Approved(d) = {}
  BY DEF Init, Of, Pending, Approved
<1>2. TypeOK
  BY InitTyped
<1>3. Serial /\ Informed /\ FormsQualify
  BY DEF Init, Serial, Informed, FormsQualify, InTransaction
<1>4. PendingCanBeApproved /\ TypeNeverChanges /\ Moments
  BY DEF Init, PendingCanBeApproved, TypeNeverChanges, Moments
<1>5. RegistryIsWhatWasApproved /\ ProfileIsFirstApproval
  BY <1>1 DEF Init, RegistryIsWhatWasApproved, ProfileIsFirstApproval
<1> QED
  BY <1>2, <1>3, <1>4, <1>5 DEF OnboardingInv, Records

\* What the records say depends on the rows alone.
LEMMA RecordsOfRows ==
  ASSUME Records, UNCHANGED rows
  PROVE  Records'
BY DEF Records, rows, PendingCanBeApproved, RegistryIsWhatWasApproved, ProfileIsFirstApproval,
       TypeNeverChanges, Moments, Pending, Approved, Of, Registered, ShownType, Type

\* A step of one request that leaves the rows alone: the others know what they
\* knew.
LEMMA QuietStep ==
  ASSUME OnboardingInv, [Next]_vars, UNCHANGED rows
  PROVE  OnboardingInv'
<1> USE DEF Serial, Informed, FormsQualify, InTransaction, Registered,
            ApplicationTypeForSubmission, Type, Finish, Accept
<1>1. TypeOK /\ TypeOK' /\ Serial /\ Informed /\ FormsQualify /\ Records'
  BY TypeStep, RecordsOfRows DEF OnboardingInv
<1>2. CASE UNCHANGED vars
  BY <1>1, <1>2 DEF vars, rows, OnboardingInv
<1>3. ASSUME NEW h \in Handlers, NEW f \in Forms, Submit(h, f)
      PROVE  Serial' /\ Informed' /\ FormsQualify'
  BY <1>1, <1>3 DEF Submit, rows, TypeOK
<1>4. ASSUME NEW h \in Handlers, NEW a \in Applications, NEW verdict \in {"approve", "reject"},
             Review(h, a, verdict)
      PROVE  Serial' /\ Informed' /\ FormsQualify'
  BY <1>1, <1>4 DEF Review, rows, TypeOK
<1>5. ASSUME NEW h \in Handlers, LockDriverReviewScope(h)
      PROVE  Serial' /\ Informed' /\ FormsQualify'
  BY <1>1, <1>5 DEF LockDriverReviewScope, ScopeFree, rows, TypeOK
<1>6. ASSUME NEW h \in Handlers, CheckSubmission(h)
      PROVE  Serial' /\ Informed' /\ FormsQualify'
  <2>1. work' = [work EXCEPT ![h] = [@ EXCEPT !.type =
                  ApplicationTypeForSubmission(work[h].form.driver)]]
    BY <1>6 DEF CheckSubmission
  <2>2. work[h] \in Jobs /\ work'[h].form = work[h].form /\ work'[h].kind = work[h].kind
        /\ work'[h].app = work[h].app
        /\ work'[h].type = ApplicationTypeForSubmission(work[h].form.driver)
        /\ \A g \in Handlers \ {h} : work'[g] = work[g]
    BY <1>1, <1>6, <2>1 DEF CheckSubmission, TypeOK, Jobs
  <2>3. at[h] = "locked" /\ work[h].kind = "submit" /\ ~Registered(work[h].form)
        /\ at' = [at EXCEPT ![h] = "checked"]
    BY <1>6 DEF CheckSubmission, VehicleAccepted
  <2> QED
    BY <1>1, <2>2, <2>3 DEF rows, TypeOK
<1>7. ASSUME NEW h \in Handlers, LoadApplicationForUpdate(h)
      PROVE  Serial' /\ Informed' /\ FormsQualify'
  BY <1>1, <1>7 DEF LoadApplicationForUpdate, StillPending, rows, TypeOK
<1>8. ASSUME NEW h \in Handlers, Abandon(h)
      PROVE  Serial' /\ Informed' /\ FormsQualify'
  BY <1>1, <1>8 DEF Abandon, rows, TypeOK
<1>9. ASSUME NEW h \in Handlers,
             \/ \E a \in Applications : CreateApplication(h, a)
             \/ ApproveApplication(h)
             \/ RejectApplication(h)
      PROVE  FALSE
  BY <1>1, <1>9 DEF CreateApplication, ApproveApplication, RejectApplication, Decide, rows, TypeOK
<1> QED
  BY <1>1, <1>2, <1>3, <1>4, <1>5, <1>6, <1>7, <1>8, <1>9 DEF Next, OnboardingInv

\* A commit for one driver: every other request in a transaction is about
\* another driver, whose rows it does not touch.
LEMMA OthersStayInformed ==
  ASSUME OnboardingInv, NEW h \in Handlers, InTransaction(h), Finish(h),
         \A e \in Drivers : e # work[h].form.driver =>
           /\ profile'[e] = profile[e]
           /\ \A v \in vehicles' : v.driver = e => v \in vehicles,
         \A a \in Applications : status[a] # "none" /\ form[a].driver # work[h].form.driver =>
           status'[a] = status[a]
  PROVE  Serial' /\ Informed'
<1> DEFINE d == work[h].form.driver
<1>1. \A g \in Handlers \ {h} : at'[g] = at[g] /\ work'[g] = work[g]
  BY DEF OnboardingInv, TypeOK, Finish
<1>2. at'[h] = "idle"
  BY DEF OnboardingInv, TypeOK, Finish
<1>3. Serial'
  BY <1>1, <1>2 DEF OnboardingInv, Serial, InTransaction
<1>4. ASSUME NEW g \in Handlers, at'[g] = "checked"
      PROVE  /\ work'[g].kind = "submit" =>
                  /\ ~Registered(work[g].form)'
                  /\ work'[g].type = ApplicationTypeForSubmission(work[g].form.driver)'
             /\ work'[g].kind # "submit" => status'[work'[g].app] = "pending"
  <2>1. g # h /\ at[g] = "checked" /\ work'[g] = work[g]
    BY <1>1, <1>2, <1>4
  <2>2. work[g].form.driver # d
    BY <2>1 DEF OnboardingInv, Serial, InTransaction
  <2>3. work[g] \in Jobs /\ work[g].form.driver \in Drivers
    BY <2>1 DEF OnboardingInv, TypeOK, Jobs, Forms
  <2>4. work[g].kind = "submit" =>
          /\ ~Registered(work[g].form)
          /\ work[g].type = ApplicationTypeForSubmission(work[g].form.driver)
    BY <2>1 DEF OnboardingInv, Informed
  <2>5. work[g].kind # "submit" =>
          /\ work[g].app \in Applications /\ status[work[g].app] = "pending"
          /\ form[work[g].app].driver # d
    BY <2>1, <2>2 DEF OnboardingInv, Informed, TypeOK
  <2> QED
    BY <2>1, <2>2, <2>3, <2>4, <2>5 DEF Registered, ApplicationTypeForSubmission, Type
<1>5. Informed'
  BY <1>4 DEF Informed
<1> QED
  BY <1>3, <1>5

\* A new application.
LEMMA CreateKeeps ==
  ASSUME OnboardingInv, TypeOK', NEW h \in Handlers, NEW a \in Applications,
         CreateApplication(h, a)
  PROVE  OnboardingInv'
<1> DEFINE f == work[h].form
<1>1. /\ TypeOK /\ Informed /\ FormsQualify /\ PendingCanBeApproved /\ RegistryIsWhatWasApproved
      /\ ProfileIsFirstApproval /\ TypeNeverChanges /\ Moments
  BY DEF OnboardingInv, Records
<1>2. /\ at[h] = "checked" /\ work[h].kind = "submit" /\ work[h] \in Jobs /\ f \in Forms
      /\ f.driver \in Drivers
  BY <1>1 DEF CreateApplication, TypeOK, Jobs, Forms
<1>3. /\ status' = [status EXCEPT ![a] = "pending"] /\ form' = [form EXCEPT ![a] = f]
      /\ told' = [told EXCEPT ![a] = work[h].type]
      /\ submitted' = [submitted EXCEPT ![a] = clock + 1] /\ clock' = clock + 1
      /\ UNCHANGED <<decided, profile, vehicles>> /\ Finish(h)
      /\ status[a] = "none" /\ Pending(f.driver) = {}
  BY DEF CreateApplication
<1>4. /\ ~Registered(f)
      /\ work[h].type = Type(profile[f.driver] # NoApplication)
  BY <1>1, <1>2 DEF Informed, ApplicationTypeForSubmission
<1>5. Serial' /\ Informed'
  BY <1>2, <1>3, OthersStayInformed DEF InTransaction, OnboardingInv, TypeOK
<1>6. FormsQualify'
  BY <1>1, <1>2, <1>3 DEF FormsQualify, Finish, TypeOK
<1>7. \A d \in Drivers : Approved(d)' = Approved(d)
  BY <1>1, <1>3 DEF Approved, Of, TypeOK
<1>8. \A d \in Drivers : Pending(d)' = IF d = f.driver THEN {a} ELSE Pending(d)
  <2>1. ASSUME NEW d \in Drivers PROVE Pending(d)' = Pending(d) \cup (IF d = f.driver THEN {a} ELSE {})
    BY <1>1, <1>3 DEF Pending, Of, TypeOK
  <2> QED
    BY <1>3, <2>1
<1>9. PendingCanBeApproved'
  <2>1. ASSUME NEW b \in Applications, status'[b] = "pending"
        PROVE  Pending(form[b].driver)' = {b} /\ ~Registered(form[b])'
    <3>1. CASE b = a
      <4>1. form'[b] = f
        BY <1>1, <1>3, <3>1 DEF TypeOK
      <4> QED
        BY <1>2, <1>3, <1>4, <1>8, <3>1, <4>1 DEF Registered
    <3>2. CASE b # a
      <4>1. status[b] = "pending" /\ form'[b] = form[b] /\ form[b].driver \in Drivers
        BY <1>1, <1>3, <2>1, <3>2 DEF TypeOK, Forms
      <4>2. Pending(form[b].driver) = {b} /\ ~Registered(form[b])
        BY <1>1, <4>1 DEF PendingCanBeApproved
      <4>3. form[b].driver # f.driver
        BY <1>3, <4>2
      <4> QED
        BY <1>3, <1>8, <4>1, <4>2, <4>3 DEF Registered
    <3> QED
      BY <3>1, <3>2
  <2> QED
    BY <2>1 DEF PendingCanBeApproved
<1>10. \A b \in Applications : status'[b] = "approved" <=> status[b] = "approved"
  BY <1>1, <1>3 DEF TypeOK
<1>11. \A b \in Applications : status[b] # "none" => form'[b] = form[b] /\ submitted'[b] = submitted[b]
                                                  /\ told'[b] = told[b]
  BY <1>1, <1>3 DEF TypeOK
<1>12. RegistryIsWhatWasApproved'
  <2>1. \A d \in Drivers : \A b \in Approved(d) : b \in Applications /\ status[b] # "none"
    BY DEF Approved, Of
  <2> QED
    BY <1>1, <1>3, <1>7, <1>10, <1>11, <2>1 DEF RegistryIsWhatWasApproved
<1>13. ProfileIsFirstApproval'
  BY <1>1, <1>3, <1>7 DEF ProfileIsFirstApproval
<1>14. Moments'
  BY <1>1, <1>3 DEF Moments, TypeOK
<1>15. \A b \in Applications : decided[b] \in Nat /\ decided[b] <= clock /\ clock \in Nat
  BY <1>1 DEF Moments, TypeOK
<1>16. TypeNeverChanges'
  <2>1. ASSUME NEW b \in Applications, status'[b] # "none" PROVE ShownType(b)' = told'[b]
    <3>1. CASE b = a
      <4>1. form'[b] = f /\ submitted'[b] = clock + 1 /\ told'[b] = work[h].type
        BY <1>1, <1>3, <3>1 DEF TypeOK
      <4>2. a \notin Approved(f.driver) /\ \A c \in Approved(f.driver) : c \in Applications
        BY <1>3 DEF Approved, Of
      <4>3. profile[f.driver] # NoApplication => profile[f.driver] \in Applications
        BY <1>1, <1>2 DEF TypeOK
      <4>4. Approved(f.driver) # {} => profile[f.driver] # NoApplication
        BY <1>1, <1>2, <4>2, OnboardingAssumption DEF ProfileIsFirstApproval
      <4> QED
        BY <1>2, <1>3, <1>4, <1>7, <1>15, <3>1, <4>1, <4>2, <4>3, <4>4 DEF ShownType, Type
    <3>2. CASE b # a
      <4>1. status[b] # "none" /\ form[b].driver \in Drivers
        BY <1>1, <1>3, <2>1, <3>2 DEF TypeOK, Forms
      <4>2. ShownType(b) = told[b]
        BY <1>1, <4>1 DEF TypeNeverChanges
      <4> QED
        BY <1>3, <1>7, <1>11, <4>1, <4>2 DEF ShownType
    <3> QED
      BY <3>1, <3>2
  <2> QED
    BY <2>1 DEF TypeNeverChanges
<1> QED
  BY <1>5, <1>6, <1>9, <1>12, <1>13, <1>14, <1>16 DEF OnboardingInv, Records

\* What any decision finds and does, whichever it is.
LEMMA DecideFacts ==
  ASSUME OnboardingInv, NEW h \in Handlers, NEW verdict \in {"approved", "rejected"},
         at[h] = "checked", work[h].kind # "submit", Decide(h, verdict)
  PROVE  LET a == work[h].app
             d == work[h].form.driver
         IN  /\ a \in Applications /\ form[a] = work[h].form /\ form[a] \in Forms /\ d \in Drivers
             /\ status[a] = "pending" /\ Pending(d) = {a} /\ ~Registered(form[a])
             /\ \A b \in Applications \ {a} : status'[b] = status[b] /\ decided'[b] = decided[b]
             /\ status'[a] = verdict /\ decided'[a] = clock + 1 /\ clock' = clock + 1
             /\ \A e \in Drivers : Pending(e)' = Pending(e) \ {a}
             /\ \A e \in Drivers :
                  Approved(e)' = Approved(e) \cup (IF e = d /\ verdict = "approved" THEN {a} ELSE {})
<1> DEFINE a == work[h].app
<1>1. TypeOK /\ PendingCanBeApproved /\ Informed
  BY DEF OnboardingInv, Records
<1>2. a \in Applications /\ form[a] = work[h].form /\ status[a] = "pending"
  BY <1>1 DEF TypeOK, Informed
<1>3. form[a] \in Forms /\ work[h].form.driver \in Drivers
  BY <1>1, <1>2 DEF TypeOK, Forms
<1>4. /\ status' = [status EXCEPT ![a] = verdict] /\ decided' = [decided EXCEPT ![a] = clock + 1]
      /\ clock' = clock + 1 /\ form' = form
  BY DEF Decide
<1>5. ASSUME NEW e \in Drivers
      PROVE  /\ Pending(e)' = Pending(e) \ {a}
             /\ Approved(e)' = Approved(e) \cup
                  (IF e = work[h].form.driver /\ verdict = "approved" THEN {a} ELSE {})
  BY <1>1, <1>2, <1>4 DEF Pending, Approved, Of, TypeOK
<1> QED
  BY <1>1, <1>2, <1>3, <1>4, <1>5 DEF PendingCanBeApproved, TypeOK

\* A decision leaves what others know, and every form and moment, in order.
LEMMA DecideKeepsRest ==
  ASSUME OnboardingInv, NEW h \in Handlers, NEW verdict \in {"approved", "rejected"},
         at[h] = "checked", work[h].kind # "submit", Decide(h, verdict),
         \A e \in Drivers : e # work[h].form.driver =>
           /\ profile'[e] = profile[e]
           /\ \A v \in vehicles' : v.driver = e => v \in vehicles
  PROVE  Serial' /\ Informed' /\ FormsQualify' /\ Moments' /\ PendingCanBeApproved'
<1> DEFINE a == work[h].app
<1>1. TypeOK /\ FormsQualify /\ Moments /\ PendingCanBeApproved
  BY DEF OnboardingInv, Records
<1>2. /\ a \in Applications /\ form[a] = work[h].form /\ status[a] = "pending"
      /\ \A b \in Applications \ {a} : status'[b] = status[b] /\ decided'[b] = decided[b]
      /\ status'[a] = verdict /\ decided'[a] = clock + 1 /\ clock' = clock + 1
      /\ \A e \in Drivers : Pending(e)' = Pending(e) \ {a}
      /\ Pending(work[h].form.driver) = {a}
  BY DecideFacts
<1>3. Finish(h) /\ UNCHANGED <<form, told, submitted>>
  BY DEF Decide
<1>4. Serial' /\ Informed'
  BY <1>2, <1>3, OthersStayInformed DEF InTransaction
<1>5. FormsQualify'
  BY <1>1, <1>2, <1>3 DEF FormsQualify, Finish, TypeOK
<1>6. Moments'
  BY <1>1, <1>2, <1>3 DEF Moments, TypeOK
<1>7. ASSUME NEW b \in Applications, status'[b] = "pending"
      PROVE  Pending(form[b].driver)' = {b} /\ ~Registered(form[b])'
  <2>1. b # a /\ status[b] = "pending" /\ form'[b] = form[b] /\ form[b].driver \in Drivers
    BY <1>1, <1>2, <1>3, <1>7 DEF TypeOK, Forms
  <2>2. Pending(form[b].driver) = {b} /\ ~Registered(form[b])
    BY <1>1, <2>1 DEF PendingCanBeApproved
  <2>3. form[b].driver # work[h].form.driver
    BY <1>2, <2>1, <2>2
  <2> QED
    BY <1>2, <1>3, <2>1, <2>2, <2>3 DEF Registered
<1> QED
  BY <1>4, <1>5, <1>6, <1>7 DEF PendingCanBeApproved

\* A rejection.
LEMMA RejectKeeps ==
  ASSUME OnboardingInv, TypeOK', NEW h \in Handlers, RejectApplication(h)
  PROVE  OnboardingInv'
<1> DEFINE a == work[h].app
<1>1. /\ at[h] = "checked" /\ work[h].kind # "submit" /\ Decide(h, "rejected")
      /\ UNCHANGED <<profile, vehicles>> /\ UNCHANGED <<form, told, submitted>>
  BY DEF RejectApplication, Decide
<1>2. Serial' /\ Informed' /\ FormsQualify' /\ Moments' /\ PendingCanBeApproved'
  BY <1>1, DecideKeepsRest
<1>3. /\ a \in Applications /\ status[a] = "pending"
      /\ \A b \in Applications \ {a} : status'[b] = status[b] /\ decided'[b] = decided[b]
      /\ status'[a] = "rejected"
      /\ \A e \in Drivers : Approved(e)' = Approved(e)
  BY <1>1, DecideFacts
<1>4. \A e \in Drivers : \A b \in Approved(e) : b \in Applications /\ decided'[b] = decided[b]
  BY <1>3 DEF Approved, Of
<1>5. /\ RegistryIsWhatWasApproved /\ ProfileIsFirstApproval /\ TypeNeverChanges /\ TypeOK
  BY DEF OnboardingInv, Records
<1>6. RegistryIsWhatWasApproved'
  <2>1. \A b \in Applications : status'[b] = "approved" <=> status[b] = "approved"
    BY <1>3
  <2> QED
    BY <1>1, <1>3, <1>5, <2>1 DEF RegistryIsWhatWasApproved
<1>7. ProfileIsFirstApproval'
  BY <1>1, <1>3, <1>4, <1>5 DEF ProfileIsFirstApproval
<1>8. \A e \in Drivers : profile[e] # NoApplication => decided'[profile[e]] = decided[profile[e]]
  BY <1>4, <1>5 DEF ProfileIsFirstApproval
<1>9. TypeNeverChanges'
  <2>1. ASSUME NEW b \in Applications, status'[b] # "none" PROVE ShownType(b)' = told'[b]
    <3>1. status[b] # "none" /\ form[b].driver \in Drivers
      BY <1>3, <1>5, <2>1 DEF TypeOK, Forms
    <3>2. ShownType(b) = told[b]
      BY <1>5, <3>1 DEF TypeNeverChanges
    <3> QED
      BY <1>1, <1>3, <1>4, <1>8, <3>1, <3>2 DEF ShownType
  <2> QED
    BY <2>1 DEF TypeNeverChanges
<1> QED
  BY <1>2, <1>6, <1>7, <1>9 DEF OnboardingInv, Records

\* An approval.
LEMMA ApproveKeeps ==
  ASSUME OnboardingInv, TypeOK', NEW h \in Handlers, ApproveApplication(h)
  PROVE  OnboardingInv'
<1> DEFINE a == work[h].app
<1> DEFINE d == work[h].form.driver
<1>1. /\ at[h] = "checked" /\ work[h].kind # "submit" /\ Decide(h, "approved")
      /\ profile' = EnsureDriverProfile(a) /\ vehicles' = vehicles \cup {form[a]}
      /\ UNCHANGED <<form, told, submitted>>
  BY DEF ApproveApplication, Decide
<1>2. /\ RegistryIsWhatWasApproved /\ ProfileIsFirstApproval /\ TypeNeverChanges /\ TypeOK
      /\ Moments /\ FormsQualify
  BY DEF OnboardingInv, Records
<1>3. /\ a \in Applications /\ form[a] = work[h].form /\ form[a] \in Forms /\ d \in Drivers
      /\ status[a] = "pending" /\ ~Registered(form[a])
      /\ \A b \in Applications \ {a} : status'[b] = status[b] /\ decided'[b] = decided[b]
      /\ status'[a] = "approved" /\ decided'[a] = clock + 1 /\ clock' = clock + 1
      /\ \A e \in Drivers : Approved(e)' = Approved(e) \cup (IF e = d THEN {a} ELSE {})
  BY <1>1, DecideFacts
<1>4. \A e \in Drivers : profile'[e] = IF e = d /\ profile[e] = NoApplication THEN a ELSE profile[e]
  BY <1>1, <1>2, <1>3 DEF EnsureDriverProfile, TypeOK
<1>5. /\ Serial' /\ Informed' /\ FormsQualify' /\ Moments' /\ PendingCanBeApproved'
  BY <1>1, <1>3, <1>4, DecideKeepsRest
<1>6. \A e \in Drivers : \A b \in Approved(e) :
        /\ b \in Applications /\ b # a /\ decided'[b] = decided[b] /\ decided[b] \in Nat
        /\ decided[b] <= clock
  BY <1>2, <1>3 DEF Approved, Of, TypeOK, Moments
<1>7. clock \in Nat /\ \A b \in Applications : submitted[b] \in Nat /\ submitted[b] <= clock
  BY <1>2 DEF TypeOK, Moments
<1>8. RegistryIsWhatWasApproved'
  <2>1. \A b \in Applications : status'[b] = "approved" <=> status[b] = "approved" \/ b = a
    BY <1>3
  <2>2. vehicles' = {form'[b] : b \in {c \in Applications : status'[c] = "approved"}}
    BY <1>1, <1>2, <1>3, <2>1 DEF RegistryIsWhatWasApproved
  <2>3. \A b \in Approved(d) : form[b].plate # form[a].plate
    <3>1. \A b \in Approved(d) : form[b] \in vehicles /\ form[b].driver = d
      BY <1>2 DEF RegistryIsWhatWasApproved, Approved, Of
    <3> QED
      BY <1>3, <3>1 DEF Registered
  <2>4. \A e \in Drivers : \A b, c \in Approved(e)' : b # c => form'[b].plate # form'[c].plate
    BY <1>1, <1>2, <1>3, <2>3 DEF RegistryIsWhatWasApproved
  <2>5. \A v \in vehicles' : <<v.plate, v.service>> \in Qualifying
    BY <1>1, <1>2, <1>3 DEF RegistryIsWhatWasApproved, FormsQualify
  <2> QED
    BY <2>2, <2>4, <2>5 DEF RegistryIsWhatWasApproved
<1>9. ProfileIsFirstApproval'
  <2>1. ASSUME NEW e \in Drivers
        PROVE  IF Approved(e)' = {} THEN profile'[e] = NoApplication
               ELSE /\ profile'[e] \in Approved(e)'
                    /\ \A b \in Approved(e)' : decided'[profile'[e]] <= decided'[b]
    <3>1. CASE e # d
      BY <1>2, <1>3, <1>4, <1>6, <3>1 DEF ProfileIsFirstApproval
    <3>2. CASE e = d /\ Approved(e) = {}
      BY <1>2, <1>3, <1>4, <1>7, <3>2 DEF ProfileIsFirstApproval
    <3>3. CASE e = d /\ Approved(e) # {}
      <4>1. profile[e] \in Approved(e) /\ \A b \in Approved(e) : decided[profile[e]] <= decided[b]
        BY <1>2, <3>3 DEF ProfileIsFirstApproval
      <4>2. profile'[e] = profile[e] /\ decided'[profile[e]] = decided[profile[e]]
        BY <1>4, <1>6, <4>1, OnboardingAssumption
      <4> QED
        BY <1>3, <1>6, <1>7, <3>3, <4>1, <4>2
    <3> QED
      BY <3>1, <3>2, <3>3
  <2> QED
    BY <2>1 DEF ProfileIsFirstApproval
<1>10. TypeNeverChanges'
  <2>1. ASSUME NEW b \in Applications, status'[b] # "none" PROVE ShownType(b)' = told'[b]
    <3> DEFINE e == form[b].driver
    <3>1. status[b] # "none" /\ e \in Drivers
      BY <1>2, <1>3, <2>1 DEF TypeOK, Forms
    <3>2. ShownType(b) = told[b]
      BY <1>2, <3>1 DEF TypeNeverChanges
    <3>3. \A c \in Approved(e)' \ {b} :
            decided'[c] <= submitted'[b] <=> c \in Approved(e) \ {b} /\ decided[c] <= submitted[b]
      BY <1>1, <1>3, <1>6, <1>7, <3>1
    <3>4. Approved(e) \subseteq Approved(e)'
      BY <1>1, <1>3, <3>1
    <3>5. (profile'[e] # NoApplication /\ decided'[profile'[e]] <= submitted'[b])
            <=> (profile[e] # NoApplication /\ decided[profile[e]] <= submitted[b])
      <4>1. CASE profile[e] = NoApplication
        BY <1>1, <1>3, <1>4, <1>7, <3>1, <4>1
      <4>2. CASE profile[e] # NoApplication
        <5>1. profile[e] \in Approved(e)
          BY <1>2, <3>1, <4>2 DEF ProfileIsFirstApproval
        <5> QED
          BY <1>1, <1>4, <1>6, <3>1, <4>2, <5>1
      <4> QED
        BY <4>1, <4>2
    <3>6. (\E c \in Approved(e)' \ {b} : decided'[c] <= submitted'[b])
            <=> (\E c \in Approved(e) \ {b} : decided[c] <= submitted[b])
      BY <3>3, <3>4
    <3> QED
      BY <1>1, <3>2, <3>5, <3>6 DEF ShownType
  <2> QED
    BY <2>1 DEF TypeNeverChanges
<1> QED
  BY <1>5, <1>8, <1>9, <1>10 DEF OnboardingInv, Records

\* Every step keeps the invariant.
LEMMA InvStep ==
  ASSUME OnboardingInv, [Next]_vars
  PROVE  OnboardingInv'
<1>1. TypeOK'
  BY TypeStep DEF OnboardingInv
<1>2. CASE UNCHANGED rows
  BY <1>2, QuietStep
<1>3. ASSUME NEW h \in Handlers, NEW a \in Applications, CreateApplication(h, a)
      PROVE  OnboardingInv'
  BY <1>1, <1>3, CreateKeeps
<1>4. ASSUME NEW h \in Handlers, ApproveApplication(h) PROVE OnboardingInv'
  BY <1>1, <1>4, ApproveKeeps
<1>5. ASSUME NEW h \in Handlers, RejectApplication(h) PROVE OnboardingInv'
  BY <1>1, <1>5, RejectKeeps
<1>6. \/ UNCHANGED rows
      \/ \E h \in Handlers :
           \/ \E a \in Applications : CreateApplication(h, a)
           \/ ApproveApplication(h)
           \/ RejectApplication(h)
  <2>1. CASE UNCHANGED vars
    BY <2>1 DEF vars
  <2>2. CASE Next
    BY <2>2 DEF Next, Submit, Review, Accept, LockDriverReviewScope, CheckSubmission,
                LoadApplicationForUpdate, Abandon
  <2> QED
    BY <2>1, <2>2
<1> QED
  BY <1>2, <1>3, <1>4, <1>5, <1>6

\* The invariant holds of every behaviour.
THEOREM OnboardingInvAlways == Spec => []OnboardingInv
<1>1. OnboardingInv /\ [Next]_vars => OnboardingInv'
  BY InvStep
<1> QED
  BY InitInv, <1>1, PTL DEF Spec

(***************************************************************************)
(* An application that waits for its review can be approved: it is the     *)
(* driver's only one and its vehicle is not registered.                    *)
(***************************************************************************)
THEOREM PendingCanBeApprovedAlways == Spec => []PendingCanBeApproved
<1>1. OnboardingInv => PendingCanBeApproved
  BY DEF OnboardingInv, Records
<1> QED
  BY <1>1, OnboardingInvAlways, PTL

(***************************************************************************)
(* The registered vehicles are those of the approved applications.         *)
(***************************************************************************)
THEOREM RegistryIsWhatWasApprovedAlways == Spec => []RegistryIsWhatWasApproved
<1>1. OnboardingInv => RegistryIsWhatWasApproved
  BY DEF OnboardingInv, Records
<1> QED
  BY <1>1, OnboardingInvAlways, PTL

(***************************************************************************)
(* The driver's profile is the one of the first approval.                  *)
(***************************************************************************)
THEOREM ProfileIsFirstApprovalAlways == Spec => []ProfileIsFirstApproval
<1>1. OnboardingInv => ProfileIsFirstApproval
  BY DEF OnboardingInv, Records
<1> QED
  BY <1>1, OnboardingInvAlways, PTL

(***************************************************************************)
(* An application is shown for ever as the type it was submitted as.       *)
(***************************************************************************)
THEOREM TypeNeverChangesAlways == Spec => []TypeNeverChanges
<1>1. OnboardingInv => TypeNeverChanges
  BY DEF OnboardingInv, Records
<1> QED
  BY <1>1, OnboardingInvAlways, PTL

\* A step decides only what is pending.
LEMMA DecisionStep ==
  ASSUME OnboardingInv, [Next]_vars
  PROVE  \A a \in Applications :
           /\ status[a] \in {"approved", "rejected"} =>
                status'[a] = status[a] /\ decided'[a] = decided[a]
           /\ status[a] # "none" => form'[a] = form[a] /\ status'[a] # "none"
<1>1. CASE UNCHANGED rows
  BY <1>1 DEF rows
<1>2. ASSUME NEW h \in Handlers, NEW b \in Applications, CreateApplication(h, b), NEW a \in Applications
      PROVE  status[a] # "none" =>
               /\ status'[a] = status[a] /\ decided'[a] = decided[a] /\ form'[a] = form[a]
  BY <1>2 DEF CreateApplication, OnboardingInv, TypeOK
<1>3. ASSUME NEW h \in Handlers, NEW verdict \in {"approved", "rejected"},
             at[h] = "checked", work[h].kind # "submit", Decide(h, verdict), NEW a \in Applications
      PROVE  /\ status[a] # "pending" => status'[a] = status[a] /\ decided'[a] = decided[a]
             /\ form'[a] = form[a] /\ (status[a] # "none" => status'[a] # "none")
  BY <1>3, DecideFacts DEF Decide
<1>4. \/ UNCHANGED rows
      \/ \E h \in Handlers :
           \/ \E a \in Applications : CreateApplication(h, a)
           \/ \E verdict \in {"approved", "rejected"} :
                at[h] = "checked" /\ work[h].kind # "submit" /\ Decide(h, verdict)
  BY DEF Next, Submit, Review, Accept, LockDriverReviewScope, CheckSubmission,
         LoadApplicationForUpdate, Abandon, vars, ApproveApplication, RejectApplication
<1> QED
  BY <1>1, <1>2, <1>3, <1>4

(***************************************************************************)
(* No decision is taken twice, and none about something not submitted.     *)
(***************************************************************************)
THEOREM DecisionsAreFinalAlways == Spec => DecisionsAreFinal
<1>1. OnboardingInv /\ [Next]_vars =>
        [\A a \in Applications :
           /\ status[a] \in {"approved", "rejected"} =>
                status'[a] = status[a] /\ decided'[a] = decided[a]
           /\ status[a] # "none" => form'[a] = form[a] /\ status'[a] # "none"]_vars
  BY DecisionStep
<1> QED
  BY <1>1, OnboardingInvAlways, PTL DEF Spec, DecisionsAreFinal
==============================================================================
