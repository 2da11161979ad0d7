---------------------------- MODULE Pricing_proofs ----------------------------
(***************************************************************************)
(* Proofs about pricing, for any number of services, tariffs, bookings and *)
(* reviewers, and any number of versions.                                  *)
(***************************************************************************)
EXTENDS Pricing, TLAPS

(***************************************************************************)
(* Type correctness.                                                       *)
(***************************************************************************)

\* The initial rows are typed.
LEMMA InitTyped == Init => TypeOK
BY PricingAssumption DEF Init, TypeOK, Requests, BookingSteps, ReviewSteps

\* A fare is a natural number.
LEMMA QuoteIsNat ==
  ASSUME NEW rate \in Rates, NEW route \in Routes
  PROVE  Quote(rate, route) \in Nat
<1>1. rate \in Nat /\ route \in Nat
  BY PricingAssumption DEF PricingAssumption
<1>2. \A m, n \in Nat : m * n \in Nat
  OBVIOUS
<1> QED
  BY <1>1, <1>2 DEF Quote

\* A quote may change its route or its policy and is still a quote.
LEMMA QuoteTyped ==
  ASSUME NEW q \in Quotes, NEW route \in Routes, NEW policy \in Nat
  PROVE  /\ [q EXCEPT !.route = route] \in Quotes
         /\ [q EXCEPT !.policy = policy] \in Quotes
         /\ [q EXCEPT !.route = route].service = q.service
         /\ [q EXCEPT !.route = route].version = q.version
         /\ [q EXCEPT !.route = route].fare = q.fare
         /\ [q EXCEPT !.route = route].route = route
         /\ [q EXCEPT !.policy = policy].service = q.service
         /\ [q EXCEPT !.policy = policy].version = q.version
         /\ [q EXCEPT !.policy = policy].fare = q.fare
         /\ [q EXCEPT !.policy = policy].route = q.route
         /\ [q EXCEPT !.policy = policy].policy = policy
BY DEF Quotes

\* What a booking does to the work in hand.
LEMMA BookingWork ==
  ASSUME TypeOK, NEW b \in Bookings
  PROVE  /\ \A route \in Routes : ValidateFare(b, route) =>
              work' = [work EXCEPT ![b] = [work[b] EXCEPT !.route = route]]
         /\ LockCurrent(b) =>
              work' = [work EXCEPT ![b] = [work[b] EXCEPT !.policy = current[work[b].service]]]
         /\ AbandonBooking(b) =>
              work' = [work EXCEPT ![b] = [work[b] EXCEPT !.policy = 0]]
BY DEF ValidateFare, LockCurrent, AbandonBooking

\* Every booking step keeps the types.
LEMMA BookingTyped ==
  ASSUME TypeOK, NEW b \in Bookings, BookingStep(b)
  PROVE  TypeOK'
<1> USE PricingAssumption DEF TypeOK, Requests, Go, Finish, tables, BookingSteps
<1>1. ASSUME NEW s \in Services, NEW route \in Routes, CreateRidePreview(b, s, route) PROVE TypeOK'
  <2>1. current[s] \in 1..Len(versions[s]) /\ versions[s] \in Seq(Rates)
    BY <1>1 DEF CreateRidePreview, Available
  <2>2. Tariff(s, current[s]) \in Rates
    BY <2>1 DEF Tariff
  <2>3. Quote(Tariff(s, current[s]), route) \in Nat
    BY <2>2, QuoteIsNat
  <2>4. [service |-> s, version |-> current[s], route |-> route,
         fare |-> Quote(Tariff(s, current[s]), route), policy |-> 0] \in Quotes
    BY <2>1, <2>3 DEF Quotes
  <2> QED
    BY <1>1, <2>1, <2>4 DEF CreateRidePreview
<1>2. CASE ValidatePolicy(b)
  BY <1>2 DEF ValidatePolicy
<1>3. ASSUME NEW route \in Routes, ValidateFare(b, route) PROVE TypeOK'
  <2>1. work' = [work EXCEPT ![b] = [work[b] EXCEPT !.route = route]]
    BY <1>3, BookingWork
  <2>2. /\ [work[b] EXCEPT !.route = route] \in Quotes
        /\ [work[b] EXCEPT !.route = route].service = work[b].service
        /\ [work[b] EXCEPT !.route = route].version = work[b].version
    BY <1>3, QuoteTyped DEF ValidateFare
  <2> HIDE DEF Requests
  <2> QED
    BY <1>3, <2>1, <2>2 DEF ValidateFare, Requests
<1>4. CASE LockService(b)
  BY <1>4 DEF LockService
<1>5. CASE LockCurrent(b)
  <2>1. work' = [work EXCEPT ![b] = [work[b] EXCEPT !.policy = current[work[b].service]]]
    BY <1>5, BookingWork
  <2>2. work[b] \in Quotes /\ current[work[b].service] \in Nat
    BY <1>5 DEF LockCurrent, Quotes
  <2>3. /\ [work[b] EXCEPT !.policy = current[work[b].service]] \in Quotes
        /\ [work[b] EXCEPT !.policy = current[work[b].service]].service = work[b].service
        /\ [work[b] EXCEPT !.policy = current[work[b].service]].version = work[b].version
    BY <2>2, QuoteTyped DEF Quotes
  <2> QED
    BY <1>5, <2>1, <2>3 DEF LockCurrent
<1>6. CASE CreatePriced(b)
  BY <1>6 DEF CreatePriced, Quotes
<1>7. CASE AbandonBooking(b)
  <2>1. work' = [work EXCEPT ![b] = [work[b] EXCEPT !.policy = 0]]
    BY <1>7, BookingWork
  <2>2. /\ [work[b] EXCEPT !.policy = 0] \in Quotes
        /\ [work[b] EXCEPT !.policy = 0].service = work[b].service
        /\ [work[b] EXCEPT !.policy = 0].version = work[b].version
    BY <1>7 DEF AbandonBooking, Quotes
  <2> QED
    BY <1>7, <2>1, <2>2 DEF AbandonBooking
<1>8. CASE ForgetQuote(b)
  BY <1>8 DEF ForgetQuote
<1> QED
  BY <1>1, <1>2, <1>3, <1>4, <1>5, <1>6, <1>7, <1>8 DEF BookingStep

\* A review may be numbered and is still a review.
LEMMA NumberTyped ==
  ASSUME NEW r \in Reviews, NEW n \in Nat
  PROVE  /\ [r EXCEPT !.version = n] \in Reviews
         /\ [r EXCEPT !.version = n].service = r.service
         /\ [r EXCEPT !.version = n].rate = r.rate
         /\ [r EXCEPT !.version = n].version = n
BY DEF Reviews

\* What numbering a version does to the work in hand.
LEMMA NumberWork ==
  ASSUME NEW v \in Reviewers, NumberVersion(v)
  PROVE  work' = [work EXCEPT ![v] =
           [work[v] EXCEPT !.version = Len(versions[work[v].service]) + 1]]
BY DEF NumberVersion

\* Every review step keeps the types, as long as versions do not collide.
LEMMA ReviewTyped ==
  ASSUME TypeOK, VersionsNeverCollide, NEW v \in Reviewers, ReviewStep(v)
  PROVE  TypeOK'
<1> USE PricingAssumption DEF TypeOK, Requests, Go, Finish, tables, ReviewSteps
<1>1. ASSUME NEW s \in Services, NEW rate \in Rates, OpenPublish(v, s, rate) PROVE TypeOK'
  BY <1>1 DEF OpenPublish, Reviews
<1>2. CASE LockToPublish(v)
  BY <1>2 DEF LockToPublish
<1>3. CASE NumberVersion(v)
  <2>1. work' = [work EXCEPT ![v] = [work[v] EXCEPT !.version = Len(versions[work[v].service]) + 1]]
    BY <1>3, NumberWork
  <2>2. work[v] \in Reviews /\ versions[work[v].service] \in Seq(Rates)
    BY <1>3 DEF NumberVersion, Reviews
  <2>3. Len(versions[work[v].service]) + 1 \in Nat
    BY <2>2
  <2>4. LET r == [work[v] EXCEPT !.version = Len(versions[work[v].service]) + 1]
        IN  r \in Reviews /\ r.rate = work[v].rate
    BY <2>2, <2>3, NumberTyped
  <2> QED
    BY <1>3, <2>1, <2>4 DEF NumberVersion
<1>4. CASE LockToDisable(v)
  BY <1>4 DEF LockToDisable
<1>5. ASSUME NEW s \in Services, NEW version \in DOMAIN versions[s], OpenDisable(v, s, version)
      PROVE  TypeOK'
  <2>1. version \in Nat
    OBVIOUS
  <2> QED
    BY <1>5, <2>1 DEF OpenDisable, Reviews
<1>6. CASE Disable(v)
  BY <1>6 DEF Disable, Reviews
<1>7. CASE AbandonReview(v)
  BY <1>7 DEF AbandonReview
<1>8. CASE Publish(v)
  <2> DEFINE s == work[v].service
  <2>1. /\ s \in Services /\ work[v].rate \in Rates /\ work[v].version \in Nat
        /\ versions[s] \in Seq(Rates)
    BY <1>8 DEF Publish, Reviews
  <2>2. work[v].version = Len(versions[s]) + 1
    BY <1>8 DEF Publish, VersionsNeverCollide
  <2> QED
    BY <1>8, <2>1, <2>2 DEF Publish, PointTo
<1> QED
  BY <1>1, <1>2, <1>3, <1>4, <1>5, <1>6, <1>7, <1>8 DEF ReviewStep

(***************************************************************************)
(* The inductive invariant.  Whoever writes a service's tariff is alone    *)
(* with it; what a booking has read under its locks is therefore still so. *)
(***************************************************************************)
Exclusive ==
  \A v \in Reviewers, s \in Services : Writes(v, s) =>
    /\ \A w \in Reviewers \ {v} : ~Writes(w, s)
    /\ \A b \in Bookings : ~Shares(b, s)

\* One booking: what it knows under its locks, and what its fare comes from.
Sure(b) ==
  /\ at[b] \in {"sharing", "ready"} => work[b].service \in offered
  /\ at[b] = "ready" => /\ work[b].policy = work[b].version
                        /\ current[work[b].service] = work[b].version
  /\ at[b] \in {"priced", "sharing", "ready", "booked"} =>
       work[b].fare = Quote(Tariff(work[b].service, work[b].version), work[b].route)
  /\ at[b] = "booked" => snapshot[b] = work[b].version

PricingInv ==
  /\ TypeOK
  /\ Exclusive
  /\ CurrentIsNewest
  /\ VersionsNeverCollide
  /\ \A b \in Bookings : Sure(b)

\* Before anything is published there is nothing to contradict.
LEMMA InitInv == Init => PricingInv
<1> SUFFICES ASSUME Init PROVE PricingInv
  OBVIOUS
<1>1. \A p \in Requests : at[p] = "idle"
  BY DEF Init
<1>2. Exclusive /\ VersionsNeverCollide /\ \A b \in Bookings : Sure(b)
  BY <1>1 DEF Exclusive, VersionsNeverCollide, Sure, Requests, Writes
<1> QED
  BY <1>2, InitTyped DEF Init, PricingInv, CurrentIsNewest

\* What a booking step leaves alone.
LEMMA BookingFrame ==
  ASSUME TypeOK, NEW b \in Bookings, BookingStep(b)
  PROVE  /\ UNCHANGED <<versions, current, offered>>
         /\ \A p \in Requests \ {b} : at'[p] = at[p] /\ work'[p] = work[p]
         /\ \A c \in Bookings \ {b} : snapshot'[c] = snapshot[c]
<1> USE DEF TypeOK, Requests, Go, Finish, tables
<1>1. UNCHANGED <<versions, current, offered>> /\ \A c \in Bookings \ {b} : snapshot'[c] = snapshot[c]
  BY DEF BookingStep, CreateRidePreview, ValidatePolicy, ValidateFare, LockService, LockCurrent,
         CreatePriced, AbandonBooking, ForgetQuote
<1>2. \A p \in Requests \ {b} : at'[p] = at[p]
  BY DEF BookingStep, CreateRidePreview, ValidatePolicy, ValidateFare, LockService, LockCurrent,
         CreatePriced, AbandonBooking, ForgetQuote
<1>3. \A p \in Requests \ {b} : work'[p] = work[p]
  BY BookingWork DEF BookingStep, CreateRidePreview, ValidatePolicy, LockService,
         CreatePriced, ForgetQuote
<1> QED
  BY <1>1, <1>2, <1>3

\* A booking keeps the invariant.
LEMMA BookingKeeps ==
  ASSUME PricingInv, NEW b \in Bookings, BookingStep(b)
  PROVE  PricingInv'
<1>1. TypeOK /\ Exclusive /\ CurrentIsNewest /\ VersionsNeverCollide /\ \A c \in Bookings : Sure(c)
  BY DEF PricingInv
<1>2. TypeOK'
  BY <1>1, BookingTyped
<1>3. /\ UNCHANGED <<versions, current, offered>>
      /\ \A p \in Requests \ {b} : at'[p] = at[p] /\ work'[p] = work[p]
      /\ \A c \in Bookings \ {b} : snapshot'[c] = snapshot[c]
  BY <1>1, BookingFrame
<1>4. \A v \in Reviewers : v \in Requests \ {b}
  BY PricingAssumption DEF PricingAssumption, Requests
<1>5. CurrentIsNewest' /\ VersionsNeverCollide'
  BY <1>1, <1>3, <1>4 DEF CurrentIsNewest, VersionsNeverCollide
<1>6. \A c \in Bookings \ {b} : Sure(c)'
  BY <1>1, <1>3 DEF Sure, Tariff, Quote, Requests
<1>7. Sure(b)' /\ \A s \in Services : Shares(b, s)' => Shares(b, s) \/ NoWriter(s)
  <2> USE DEF Sure, Shares, Go, Finish, tables
  <2>0. DOMAIN at = Requests /\ DOMAIN work = Requests /\ b \in Requests
    BY <1>1 DEF TypeOK, Requests
  <2>1. ASSUME NEW s \in Services, NEW route \in Routes, CreateRidePreview(b, s, route)
        PROVE  at'[b] = "quoted"
    BY <2>0, <2>1 DEF CreateRidePreview
  <2>2. CASE ValidatePolicy(b)
    BY <2>0, <2>2 DEF ValidatePolicy
  <2>3. ASSUME NEW route \in Routes, ValidateFare(b, route)
        PROVE  /\ at'[b] = "priced"
               /\ work'[b].fare = Quote(Tariff(work'[b].service, work'[b].version), work'[b].route)
    <3>1. work'[b] = [work[b] EXCEPT !.route = route] /\ work[b] \in Quotes
      BY <1>1, <2>0, <2>3, BookingWork DEF ValidateFare, TypeOK
    <3>2. /\ work'[b].service = work[b].service /\ work'[b].version = work[b].version
          /\ work'[b].fare = work[b].fare /\ work'[b].route = route
      BY <3>1, QuoteTyped
    <3> QED
      BY <2>0, <2>3, <3>2 DEF ValidateFare, Tariff, Quote
  <2>4. CASE LockService(b)
    BY <1>1, <1>3, <2>0, <2>4 DEF LockService, Tariff, Quote
  <2>5. CASE LockCurrent(b)
    <3>1. /\ work'[b] = [work[b] EXCEPT !.policy = current[work[b].service]]
          /\ work[b] \in Quotes /\ current[work[b].service] \in Nat
      BY <1>1, <2>0, <2>5, BookingWork DEF LockCurrent, TypeOK, Quotes
    <3>2. /\ work'[b].service = work[b].service /\ work'[b].version = work[b].version
          /\ work'[b].fare = work[b].fare /\ work'[b].route = work[b].route
          /\ work'[b].policy = current[work[b].service]
      BY <3>1 DEF Quotes
    <3> QED
      BY <1>1, <1>3, <2>0, <2>5, <3>2 DEF LockCurrent, PolicyKept, Tariff, Quote
  <2>6. CASE CreatePriced(b)
    BY <1>1, <1>3, <2>0, <2>6 DEF CreatePriced, Tariff, Quote, TypeOK
  <2>7. CASE AbandonBooking(b)
    BY <2>0, <2>7 DEF AbandonBooking
  <2>8. CASE ForgetQuote(b)
    BY <2>0, <2>8 DEF ForgetQuote
  <2> QED
    BY <1>3, <2>1, <2>2, <2>3, <2>4, <2>5, <2>6, <2>7, <2>8 DEF BookingStep, Tariff
<1>8. Exclusive'
  <2>1. \A v \in Reviewers, s \in Services : Writes(v, s)' <=> Writes(v, s)
    BY <1>3, <1>4 DEF Writes
  <2>2. \A c \in Bookings \ {b}, s \in Services : Shares(c, s)' <=> Shares(c, s)
    BY <1>3 DEF Shares, Requests
  <2> QED
    BY <1>1, <1>7, <2>1, <2>2 DEF Exclusive, NoWriter
<1> QED
  BY <1>2, <1>5, <1>6, <1>7, <1>8 DEF PricingInv

\* What a review step leaves alone: it changes the tariff of a service only
\* while it writes there.
LEMMA ReviewFrame ==
  ASSUME TypeOK, NEW v \in Reviewers, ReviewStep(v)
  PROVE  /\ UNCHANGED <<offered, snapshot>>
         /\ \A p \in Requests \ {v} : at'[p] = at[p] /\ work'[p] = work[p]
         /\ \A s \in Services : ~Writes(v, s) => versions'[s] = versions[s] /\ current'[s] = current[s]
<1> USE DEF TypeOK, Requests, Go, Finish, tables
<1>1. UNCHANGED <<offered, snapshot>> /\ \A p \in Requests \ {v} : at'[p] = at[p]
  BY DEF ReviewStep, OpenPublish, LockToPublish, NumberVersion, Publish, OpenDisable, LockToDisable,
         Disable, AbandonReview
<1>2. \A p \in Requests \ {v} : work'[p] = work[p]
  BY NumberWork DEF ReviewStep, OpenPublish, LockToPublish, Publish, OpenDisable, LockToDisable,
                    Disable, AbandonReview
<1>3. \A s \in Services : ~Writes(v, s) => versions'[s] = versions[s] /\ current'[s] = current[s]
  <2>1. CASE Publish(v)
    BY <2>1 DEF Publish, PointTo, Writes
  <2>2. CASE Disable(v)
    BY <2>2 DEF Disable, Writes
  <2>3. CASE ~Publish(v) /\ ~Disable(v)
    BY <2>3 DEF ReviewStep, OpenPublish, LockToPublish, NumberVersion, OpenDisable, LockToDisable,
                AbandonReview
  <2> QED
    BY <2>1, <2>2, <2>3
<1> QED
  BY <1>1, <1>2, <1>3

\* What a review step does to its own lock, number and tariff.
LEMMA ReviewOwn ==
  ASSUME TypeOK, VersionsNeverCollide, CurrentIsNewest, NEW v \in Reviewers, ReviewStep(v)
  PROVE  /\ \A s \in Services : Writes(v, s)' => Writes(v, s) \/ NoHolder(s)
         /\ at'[v] = "numbered" =>
              work'[v].version = Len(versions'[work'[v].service]) + 1
         /\ \A s \in Services : versions'[s] = versions[s] => current'[s] \in {0, current[s]}
         /\ \A s \in Services : versions'[s] # versions[s] =>
              /\ at[v] = "numbered" /\ work[v].service = s /\ at'[v] = "idle"
              /\ current'[s] = Len(versions'[s])
<1> USE DEF Go, Finish, tables, Writes
<1>0. DOMAIN at = Requests /\ DOMAIN work = Requests /\ v \in Requests
      /\ versions \in [Services -> Seq(Rates)] /\ current \in [Services -> Nat]
  BY DEF TypeOK, Requests
<1>1. ASSUME NEW s \in Services, NEW rate \in Rates, OpenPublish(v, s, rate)
      PROVE  at'[v] = "publishing" /\ UNCHANGED <<versions, current>>
  BY <1>0, <1>1 DEF OpenPublish
<1>2. CASE LockToPublish(v)
  BY <1>0, <1>2 DEF LockToPublish
<1>3. CASE NumberVersion(v)
  <2>1. /\ work'[v] = [work[v] EXCEPT !.version = Len(versions[work[v].service]) + 1]
        /\ work[v] \in Reviews
    BY <1>0, <1>3, NumberWork DEF NumberVersion, TypeOK
  <2>2. versions[work[v].service] \in Seq(Rates)
    BY <1>0, <2>1 DEF Reviews
  <2>3. Len(versions[work[v].service]) + 1 \in Nat
    BY <2>2
  <2>4. work'[v].service = work[v].service /\ work'[v].version = Len(versions[work[v].service]) + 1
    BY <2>1, <2>3, NumberTyped
  <2> QED
    BY <1>0, <1>3, <2>4 DEF NumberVersion
<1>4. CASE Publish(v)
  <2> DEFINE s == work[v].service
  <2>1. /\ s \in Services /\ work[v].rate \in Rates /\ versions[s] \in Seq(Rates)
    BY <1>0, <1>4 DEF Publish, Reviews, TypeOK
  <2>2. work[v].version = Len(versions[s]) + 1
    BY <1>4 DEF Publish, VersionsNeverCollide
  <2>3. /\ versions' = [versions EXCEPT ![s] = Append(@, work[v].rate)]
        /\ current' = [current EXCEPT ![s] = work[v].version]
        /\ at'[v] = "idle" /\ at[v] = "numbered"
    BY <1>0, <1>4 DEF Publish, PointTo
  <2>4. Len(versions'[s]) = Len(versions[s]) + 1
    BY <1>0, <2>1, <2>3
  <2> QED
    BY <1>0, <2>1, <2>2, <2>3, <2>4
<1>5. ASSUME NEW s \in Services, NEW version \in DOMAIN versions[s], OpenDisable(v, s, version)
      PROVE  at'[v] = "disabling" /\ UNCHANGED <<versions, current>>
  BY <1>0, <1>5 DEF OpenDisable
<1>6. CASE LockToDisable(v)
  BY <1>0, <1>6 DEF LockToDisable
<1>7. CASE Disable(v)
  BY <1>0, <1>7 DEF Disable
<1>8. CASE AbandonReview(v)
  BY <1>0, <1>8 DEF AbandonReview
<1> QED
  BY <1>1, <1>2, <1>3, <1>4, <1>5, <1>6, <1>7, <1>8 DEF ReviewStep

\* Tariffs are appended, never changed.
LEMMA TariffsStand ==
  ASSUME TypeOK, NEW v \in Reviewers, ReviewStep(v), NEW s \in Services,
         NEW version \in 1..Len(versions[s])
  PROVE  Tariff(s, version)' = Tariff(s, version)
<1>1. versions[s] \in Seq(Rates) /\ versions \in [Services -> Seq(Rates)]
  BY DEF TypeOK
<1>2. CASE Publish(v)
  <2>1. versions' = [versions EXCEPT ![work[v].service] = Append(@, work[v].rate)]
        /\ work[v].rate \in Rates
    BY <1>2 DEF Publish, TypeOK
  <2> QED
    BY <1>1, <2>1 DEF Tariff
<1>3. CASE ~Publish(v)
  BY <1>3 DEF Tariff, ReviewStep, OpenPublish, LockToPublish, NumberVersion, OpenDisable,
              LockToDisable, Disable, AbandonReview, tables
<1> QED
  BY <1>2, <1>3

\* A review keeps the invariant.
LEMMA ReviewKeeps ==
  ASSUME PricingInv, NEW v \in Reviewers, ReviewStep(v)
  PROVE  PricingInv'
<1>1. TypeOK /\ Exclusive /\ CurrentIsNewest /\ VersionsNeverCollide /\ \A c \in Bookings : Sure(c)
  BY DEF PricingInv
<1>2. TypeOK'
  BY <1>1, ReviewTyped
<1>3. /\ UNCHANGED <<offered, snapshot>>
      /\ \A p \in Requests \ {v} : at'[p] = at[p] /\ work'[p] = work[p]
      /\ \A s \in Services : ~Writes(v, s) => versions'[s] = versions[s] /\ current'[s] = current[s]
  BY <1>1, ReviewFrame
<1>4. /\ \A s \in Services : Writes(v, s)' => Writes(v, s) \/ NoHolder(s)
      /\ at'[v] = "numbered" => work'[v].version = Len(versions'[work'[v].service]) + 1
      /\ \A s \in Services : versions'[s] = versions[s] => current'[s] \in {0, current[s]}
      /\ \A s \in Services : versions'[s] # versions[s] =>
           /\ at[v] = "numbered" /\ work[v].service = s /\ at'[v] = "idle"
           /\ current'[s] = Len(versions'[s])
  BY <1>1, ReviewOwn
<1>5. \A b \in Bookings : b \in Requests \ {v}
  BY PricingAssumption DEF PricingAssumption, Requests
<1>6. \A w \in Reviewers \ {v} : w \in Requests \ {v}
  BY DEF Requests
<1>7. Exclusive'
  <2>1. \A w \in Reviewers \ {v}, s \in Services : Writes(w, s)' <=> Writes(w, s)
    BY <1>3, <1>6 DEF Writes
  <2>2. \A c \in Bookings, s \in Services : Shares(c, s)' <=> Shares(c, s)
    BY <1>3, <1>5 DEF Shares
  <2> QED
    BY <1>1, <1>4, <2>1, <2>2 DEF Exclusive, NoHolder, NoWriter
<1>8. CurrentIsNewest'
  BY <1>1, <1>4 DEF CurrentIsNewest
<1>9. VersionsNeverCollide'
  <2>1. ASSUME NEW w \in Reviewers, at'[w] = "numbered", w # v
        PROVE  work'[w].version = Len(versions'[work'[w].service]) + 1
    <3>1. at[w] = "numbered" /\ work'[w] = work[w] /\ work[w].service \in Services
      BY <1>1, <1>3, <1>6, <2>1 DEF TypeOK, Reviews
    <3>2. ~Writes(v, work[w].service)
      BY <1>1, <2>1, <3>1 DEF Exclusive, Writes
    <3> QED
      BY <1>1, <1>3, <3>1, <3>2 DEF VersionsNeverCollide
  <2> QED
    BY <1>4, <2>1 DEF VersionsNeverCollide
<1>10. ASSUME NEW b \in Bookings PROVE Sure(b)'
  <2>1. at'[b] = at[b] /\ work'[b] = work[b] /\ snapshot'[b] = snapshot[b] /\ offered' = offered
    BY <1>3, <1>5
  <2>2. CASE at[b] = "idle"
    BY <2>1, <2>2 DEF Sure
  <2>3. CASE at[b] # "idle"
    <3>1. work[b].service \in Services /\ work[b].version \in 1..Len(versions[work[b].service])
      BY <1>1, <2>3 DEF TypeOK, Quotes
    <3>2. Tariff(work[b].service, work[b].version)' = Tariff(work[b].service, work[b].version)
      BY <1>1, <2>1, <3>1, TariffsStand DEF Tariff
    <3>3. at[b] = "ready" => current'[work[b].service] = current[work[b].service]
      BY <1>1, <1>3, <3>1 DEF Exclusive, Shares
    <3> QED
      BY <1>1, <2>1, <3>2, <3>3 DEF Sure, Quote
  <2> QED
    BY <2>2, <2>3
<1> QED
  BY <1>2, <1>7, <1>8, <1>9, <1>10 DEF PricingInv

\* Switching a service on or off keeps the invariant.
LEMMA SwitchKeeps ==
  ASSUME PricingInv, NEW s \in Services, SwitchService(s)
  PROVE  PricingInv'
<1>1. TypeOK /\ Exclusive /\ CurrentIsNewest /\ VersionsNeverCollide /\ \A c \in Bookings : Sure(c)
  BY DEF PricingInv
<1>2. /\ UNCHANGED <<versions, current, snapshot, at, work>>
      /\ offered' = (IF s \in offered THEN offered \ {s} ELSE offered \cup {s})
      /\ \A b \in Bookings : ~Shares(b, s)
  BY DEF SwitchService, NoHolder
<1>3. TypeOK'
  BY <1>1, <1>2 DEF TypeOK
<1>4. Exclusive' /\ CurrentIsNewest' /\ VersionsNeverCollide'
  BY <1>1, <1>2 DEF Exclusive, CurrentIsNewest, VersionsNeverCollide, Writes, Shares
<1>5. \A b \in Bookings : Sure(b)'
  BY <1>1, <1>2 DEF Sure, Shares, Tariff, Quote
<1> QED
  BY <1>3, <1>4, <1>5 DEF PricingInv

\* Every step keeps the invariant.
LEMMA InvStep ==
  ASSUME PricingInv, [Next]_vars
  PROVE  PricingInv'
<1>1. CASE UNCHANGED vars
  BY <1>1 DEF vars, tables, PricingInv, TypeOK, Exclusive, CurrentIsNewest, VersionsNeverCollide,
              Sure, Writes, Shares, Tariff, Quote
<1>2. CASE Next
  BY <1>2, BookingKeeps, ReviewKeeps, SwitchKeeps DEF Next
<1> QED
  BY <1>1, <1>2

\* The invariant holds of every behaviour.
THEOREM PricingInvAlways == Spec => []PricingInv
<1>1. PricingInv /\ [Next]_vars => PricingInv'
  BY InvStep
<1> QED
  BY InitInv, <1>1, PTL DEF Spec

(***************************************************************************)
(* Rows and requests of pricing keep their types.                          *)
(***************************************************************************)
THEOREM TypeCorrect == Spec => []TypeOK
<1>1. PricingInv => TypeOK
  BY DEF PricingInv
<1> QED
  BY <1>1, PricingInvAlways, PTL

(***************************************************************************)
(* The current tariff of a service is its newest one, or none.             *)
(***************************************************************************)
THEOREM CurrentIsNewestAlways == Spec => []CurrentIsNewest
<1>1. PricingInv => CurrentIsNewest
  BY DEF PricingInv
<1> QED
  BY <1>1, PricingInvAlways, PTL

(***************************************************************************)
(* A version number drawn is still free when it is inserted.               *)
(***************************************************************************)
THEOREM VersionsNeverCollideAlways == Spec => []VersionsNeverCollide
<1>1. PricingInv => VersionsNeverCollide
  BY DEF PricingInv
<1> QED
  BY <1>1, PricingInvAlways, PTL

(***************************************************************************)
(* The fare of a booked ride is what the tariff in its snapshot gives.     *)
(***************************************************************************)
THEOREM FareMatchesSnapshotAlways == Spec => []FareMatchesSnapshot
<1>1. PricingInv => FareMatchesSnapshot
  <2> SUFFICES ASSUME PricingInv, NEW b \in Bookings, at[b] = "booked"
               PROVE  /\ snapshot[b] \in 1..Len(versions[work[b].service])
                      /\ work[b].fare = Quote(Tariff(work[b].service, snapshot[b]), work[b].route)
    BY DEF FareMatchesSnapshot
  <2>1. TypeOK /\ Sure(b)
    BY DEF PricingInv
  <2>2. work[b].version \in 1..Len(versions[work[b].service])
    BY <2>1 DEF TypeOK
  <2> QED
    BY <2>1, <2>2 DEF Sure
<1> QED
  BY <1>1, PricingInvAlways, PTL

\* The step that books does so under its locks.
LEMMA BookingCommit ==
  ASSUME PricingInv, [Next]_vars, NEW b \in Bookings, at[b] # "booked", at'[b] = "booked"
  PROVE  work[b].service \in offered /\ snapshot'[b] = current[work[b].service]
<1>1. TypeOK /\ Sure(b) /\ b \in Requests
  BY DEF PricingInv, Requests
<1>2. BookingStep(b)
  <2>1. at' # at
    OBVIOUS
  <2>2. ASSUME NEW c \in Bookings, BookingStep(c) PROVE c = b
    BY <1>1, <2>2, BookingFrame
  <2>3. ASSUME NEW v \in Reviewers, ReviewStep(v) PROVE FALSE
    BY <1>1, <2>3, ReviewFrame, PricingAssumption DEF PricingAssumption
  <2> QED
    BY <2>1, <2>2, <2>3 DEF Next, vars, SwitchService
<1>3. CreatePriced(b)
  <2>0. DOMAIN at = Requests
    BY <1>1 DEF TypeOK
  <2> QED
    BY <1>1, <1>2, <2>0 DEF BookingStep, CreateRidePreview, ValidatePolicy, ValidateFare, LockService,
       LockCurrent, AbandonBooking, ForgetQuote, Go, Finish
<1> QED
  BY <1>1, <1>3 DEF CreatePriced, Sure, TypeOK

(***************************************************************************)
(* A ride is booked only at a tariff that is current when it commits.      *)
(***************************************************************************)
THEOREM BookedAtCurrentTariffAlways == Spec => BookedAtCurrentTariff
<1>1. PricingInv /\ [Next]_vars =>
        [\A b \in Bookings : at[b] # "booked" /\ at'[b] = "booked" =>
           /\ work[b].service \in offered
           /\ snapshot'[b] = current[work[b].service]]_vars
  BY BookingCommit
<1> QED
  BY <1>1, PricingInvAlways, PTL DEF Spec, BookedAtCurrentTariff

\* The step that leaves a service without a tariff switches off the one named.
LEMMA DisableCommit ==
  ASSUME PricingInv, [Next]_vars, NEW s \in Services, current[s] # 0, current'[s] = 0
  PROVE  \E v \in Reviewers : /\ at[v] = "disabler" /\ at'[v] = "idle"
                              /\ work[v].service = s
                              /\ work[v].version = current[s]
<1>1. TypeOK /\ VersionsNeverCollide
  BY DEF PricingInv
<1>2. PICK v \in Reviewers : Publish(v) \/ Disable(v)
  BY DEF Next, vars, tables, SwitchService, BookingStep, CreateRidePreview, ValidatePolicy,
         ValidateFare, LockService, LockCurrent, CreatePriced, AbandonBooking, ForgetQuote,
         ReviewStep, OpenPublish, LockToPublish, NumberVersion, OpenDisable, LockToDisable,
         AbandonReview
<1>3. ~Publish(v)
  <2> SUFFICES ASSUME Publish(v) PROVE FALSE
    OBVIOUS
  <2>1. /\ at[v] = "numbered" /\ work[v] \in Reviews
        /\ work[v].version = Len(versions[work[v].service]) + 1
    BY <1>1 DEF Publish, TypeOK, VersionsNeverCollide
  <2>2. versions[work[v].service] \in Seq(Rates)
    BY <1>1, <2>1 DEF TypeOK, Reviews
  <2>3. work[v].version # 0
    BY <2>1, <2>2
  <2> QED
    BY <1>1, <2>3 DEF Publish, PointTo, TypeOK
<1>4. Disable(v) /\ v \in Requests
  BY <1>2, <1>3 DEF Requests
<1>5. work[v].service = s
  BY <1>1, <1>4 DEF Disable, TypeOK
<1> QED
  BY <1>1, <1>4, <1>5 DEF Disable, ExpectedPolicy, Finish, Go, TypeOK

(***************************************************************************)
(* A tariff is switched off only by a reviewer who named it.               *)
(***************************************************************************)
THEOREM DisabledAsSeenAlways == Spec => DisabledAsSeen
<1>1. PricingInv /\ [Next]_vars =>
        [\A s \in Services : current[s] # 0 /\ current'[s] = 0 =>
           \E v \in Reviewers : /\ at[v] = "disabler" /\ at'[v] = "idle"
                                /\ work[v].service = s
                                /\ work[v].version = current[s]]_vars
  BY DisableCommit
<1> QED
  BY <1>1, PricingInvAlways, PTL DEF Spec, DisabledAsSeen
==============================================================================
