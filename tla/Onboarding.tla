----------------------------- MODULE Onboarding -----------------------------
(***************************************************************************)
(* Driver onboarding and its review (backend/internal/driveronboarding).   *)
(*                                                                         *)
(* A user with the driver capability submits an application for a vehicle  *)
(* and a service; a reviewer approves or rejects it.  Every transaction    *)
(* first locks the driver's row in users (lockDriverReviewScope).  It is   *)
(* shown here statement by statement, so that what this lock protects can  *)
(* be seen: a handler waits for the lock, reads, and commits.  All that a  *)
(* transaction writes becomes visible in the step that commits.            *)
(*                                                                         *)
(* An instant is the number of commits before it.  The code takes its time *)
(* stamps from the clock of the API process, under the driver's lock; the  *)
(* model takes this clock to be one that advances between two commits.     *)
(***************************************************************************)
EXTENDS Integers

CONSTANTS
  Drivers,       \* users with the driver capability
  Plates,        \* normalised licence plates, each standing for one vehicle
  Services,      \* active services of the catalogue
  Qualifying,    \* the <<plate, service>> whose model year the service accepts
  Applications,  \* ids of onboarding applications
  Handlers,      \* requests that may be served at the same time
  NoApplication, \* "no profile", "no application in hand"
  NoForm         \* "no row"

ASSUME OnboardingAssumption ==
  /\ NoApplication \notin Applications
  /\ Qualifying \subseteq Plates \X Services

VARIABLES
  status,    \* driver_onboarding_applications.status ("none": no row)
  form,      \* the driver, vehicle and service of an application
  told,      \* the application type its submission was answered with
  submitted, \* submitted_at
  decided,   \* decided_at
  profile,   \* driver_profiles: the application that created the row
  vehicles,  \* driver_vehicles, each with its enrolment
  clock,     \* the instant of the last commit
  at,        \* how far a handler has come
  work       \* what it has been asked, and what it has read

rows == <<status, form, told, submitted, decided, profile, vehicles, clock>>
vars == <<rows, at, work>>

Forms == [driver : Drivers, plate : Plates, service : Services]
Kinds == {"submit", "approve", "reject"}
Types == {"initial_onboarding", "additional_vehicle_service"}
Jobs == [kind : Kinds, form : Forms, app : Applications \cup {NoApplication}, type : Types]

\* Every column and every request in hand keeps its type.
TypeOK ==
  /\ status \in [Applications -> {"none", "pending", "approved", "rejected"}]
  /\ form \in [Applications -> Forms \cup {NoForm}]
  /\ \A a \in Applications : status[a] # "none" => form[a] \in Forms
  /\ told \in [Applications -> Types]
  /\ submitted \in [Applications -> Nat]
  /\ decided \in [Applications -> Nat]
  /\ profile \in [Drivers -> Applications \cup {NoApplication}]
  /\ vehicles \subseteq Forms
  /\ clock \in Nat
  /\ at \in [Handlers -> {"idle", "waiting", "locked", "checked"}]
  /\ work \in [Handlers -> Jobs \cup {NoForm}]
  /\ \A h \in Handlers : at[h] # "idle" =>
       /\ work[h] \in Jobs
       /\ work[h].kind # "submit" =>
            /\ work[h].app \in Applications
            /\ status[work[h].app] # "none"
            /\ form[work[h].app] = work[h].form

Init ==
  /\ status = [a \in Applications |-> "none"]
  /\ form = [a \in Applications |-> NoForm]
  /\ told = [a \in Applications |-> "initial_onboarding"]
  /\ submitted = [a \in Applications |-> 0]
  /\ decided = [a \in Applications |-> 0]
  /\ profile = [d \in Drivers |-> NoApplication]
  /\ vehicles = {}
  /\ clock = 0
  /\ at = [h \in Handlers |-> "idle"]
  /\ work = [h \in Handlers |-> NoForm]

(***************************************************************************)
(* What the statements read.                                               *)
(***************************************************************************)
Of(d) == {a \in Applications : status[a] # "none" /\ form[a].driver = d}
Pending(d) == {a \in Of(d) : status[a] = "pending"}
Approved(d) == {a \in Of(d) : status[a] = "approved"}

Registered(f) == \E v \in vehicles : v.driver = f.driver /\ v.plate = f.plate

Type(additional) == IF additional THEN "additional_vehicle_service" ELSE "initial_onboarding"

\* The type a submission is answered with: does the driver have a profile?
ApplicationTypeForSubmission(d) == Type(profile[d] # NoApplication)

\* The type every later read shows, worked out from the time stamps.
ShownType(a) ==
  LET d == form[a].driver
  IN  Type(\/ \E b \in Approved(d) \ {a} : decided[b] <= submitted[a]
           \/ profile[d] # NoApplication /\ decided[profile[d]] <= submitted[a])

(***************************************************************************)
(* Row locks, held from the step that takes them to the end of the         *)
(* transaction.                                                            *)
(***************************************************************************)
InTransaction(h) == at[h] \in {"locked", "checked"}

\* Wrong: nobody locks the driver's row.
UnlockedScopeFree(d) == TRUE

ScopeFree(d) == \A h \in Handlers : InTransaction(h) => work[h].form.driver # d

RowFree(a) ==
  \A h \in Handlers : at[h] = "checked" /\ work[h].kind # "submit" => work[h].app # a

Finish(h) ==
  /\ at' = [at EXCEPT ![h] = "idle"]
  /\ work' = [work EXCEPT ![h] = NoForm]

(***************************************************************************)
(* A request arrives.  A submission has been prechecked; a review has read *)
(* which driver the application is about, without a lock.                  *)
(***************************************************************************)
Accept(h, job) ==
  /\ at[h] = "idle"
  /\ at' = [at EXCEPT ![h] = "waiting"]
  /\ work' = [work EXCEPT ![h] = job]
  /\ UNCHANGED rows

Submit(h, f) ==
  /\ <<f.plate, f.service>> \in Qualifying
  /\ Accept(h, [kind |-> "submit", form |-> f, app |-> NoApplication,
                type |-> "initial_onboarding"])

Review(h, a, verdict) ==
  /\ status[a] # "none"
  /\ Accept(h, [kind |-> verdict, form |-> form[a], app |-> a,
                type |-> "initial_onboarding"])

LockDriverReviewScope(h) ==
  /\ at[h] = "waiting"
  /\ ScopeFree(work[h].form.driver)
  /\ at' = [at EXCEPT ![h] = "locked"]
  /\ UNCHANGED <<rows, work>>

(***************************************************************************)
(* A submission works out its type and refuses a vehicle that the driver   *)
(* has already; the insert is refused by the partial unique index when the *)
(* driver has an application pending.                                      *)
(***************************************************************************)
\* Wrong: the vehicles the driver has are not looked up.
UncheckedVehicleAccepted(f) == TRUE

VehicleAccepted(f) == ~Registered(f)

CheckSubmission(h) ==
  /\ at[h] = "locked" /\ work[h].kind = "submit"
  /\ VehicleAccepted(work[h].form)
  /\ at' = [at EXCEPT ![h] = "checked"]
  /\ work' = [work EXCEPT ![h].type = ApplicationTypeForSubmission(work[h].form.driver)]
  /\ UNCHANGED rows

CreateApplication(h, a) ==
  /\ at[h] = "checked" /\ work[h].kind = "submit"
  /\ status[a] = "none"
  /\ Pending(work[h].form.driver) = {}
  /\ status' = [status EXCEPT ![a] = "pending"]
  /\ form' = [form EXCEPT ![a] = work[h].form]
  /\ told' = [told EXCEPT ![a] = work[h].type]
  /\ submitted' = [submitted EXCEPT ![a] = clock + 1]
  /\ clock' = clock + 1
  /\ Finish(h)
  /\ UNCHANGED <<decided, profile, vehicles>>

(***************************************************************************)
(* A review locks the application and requires it to be pending still.     *)
(***************************************************************************)
\* Wrong: the status read before the lock is good enough.
Decidable(a) == TRUE

StillPending(a) == status[a] = "pending"

LoadApplicationForUpdate(h) ==
  /\ at[h] = "locked" /\ work[h].kind # "submit"
  /\ RowFree(work[h].app)
  /\ StillPending(work[h].app)
  /\ at' = [at EXCEPT ![h] = "checked"]
  /\ UNCHANGED <<rows, work>>

Decide(h, verdict) ==
  LET a == work[h].app
  IN  /\ status' = [status EXCEPT ![a] = verdict]
      /\ decided' = [decided EXCEPT ![a] = clock + 1]
      /\ clock' = clock + 1
      /\ Finish(h)
      /\ UNCHANGED <<form, told, submitted>>

EnsureDriverProfile(a) ==
  [profile EXCEPT ![form[a].driver] = IF @ = NoApplication THEN a ELSE @]

\* The vehicle is inserted under a unique constraint on driver and plate.
ApproveApplication(h) ==
  LET a == work[h].app
  IN  /\ at[h] = "checked" /\ work[h].kind = "approve"
      /\ ~Registered(form[a])
      /\ profile' = EnsureDriverProfile(a)
      /\ vehicles' = vehicles \cup {form[a]}
      /\ Decide(h, "approved")

RejectApplication(h) ==
  /\ at[h] = "checked" /\ work[h].kind = "reject"
  /\ Decide(h, "rejected")
  /\ UNCHANGED <<profile, vehicles>>

\* A refusal, an error, a client that went away or a crash: rolled back.
Abandon(h) ==
  /\ at[h] # "idle"
  /\ Finish(h)
  /\ UNCHANGED rows

Next ==
  \E h \in Handlers :
    \/ \E f \in Forms : Submit(h, f)
    \/ \E a \in Applications, verdict \in {"approve", "reject"} : Review(h, a, verdict)
    \/ LockDriverReviewScope(h)
    \/ CheckSubmission(h)
    \/ \E a \in Applications : CreateApplication(h, a)
    \/ LoadApplicationForUpdate(h)
    \/ ApproveApplication(h)
    \/ RejectApplication(h)
    \/ Abandon(h)

Spec == Init /\ [][Next]_vars

(***************************************************************************)
(* What onboarding promises.                                               *)
(***************************************************************************)

\* An application waiting for its review can be approved: it is the driver's
\* only one, and its vehicle is not registered.  The insert of the approval
\* therefore never meets its unique constraint, although the vehicle was
\* looked up in another transaction, long before.
PendingCanBeApproved ==
  \A a \in Applications : status[a] = "pending" =>
    /\ Pending(form[a].driver) = {a}
    /\ ~Registered(form[a])

\* The drivers' vehicles are exactly those of the approved applications, one
\* for each, all of them accepted by the service they are enrolled in.
RegistryIsWhatWasApproved ==
  /\ vehicles = {form[a] : a \in {b \in Applications : status[b] = "approved"}}
  /\ \A d \in Drivers : \A a, b \in Approved(d) : a # b => form[a].plate # form[b].plate
  /\ \A v \in vehicles : <<v.plate, v.service>> \in Qualifying

\* A driver has a profile once an application of theirs was approved, and it
\* stays the one that the first approval made.
ProfileIsFirstApproval ==
  \A d \in Drivers :
    IF Approved(d) = {} THEN profile[d] = NoApplication
    ELSE /\ profile[d] \in Approved(d)
         /\ \A a \in Approved(d) : decided[profile[d]] <= decided[a]

\* The reviewer, and the driver at any later time, sees an application as what
\* it was called when it was submitted, whatever was approved since: the type is
\* decided once from the profile and ever after from time stamps.
TypeNeverChanges ==
  \A a \in Applications : status[a] # "none" => ShownType(a) = told[a]

\* A decision is made once, whoever else is deciding, and what was submitted is
\* what is decided.
DecisionsAreFinal ==
  [][\A a \in Applications :
       /\ status[a] \in {"approved", "rejected"} =>
            status'[a] = status[a] /\ decided'[a] = decided[a]
       /\ status[a] # "none" => form'[a] = form[a] /\ status'[a] # "none"]_vars
==============================================================================
