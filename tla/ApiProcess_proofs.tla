-------------------------- MODULE ApiProcess_proofs --------------------------
(***************************************************************************)
(* The safety of an API process, for any number of processes, migrations,  *)
(* searches and failures, any limit, window and lifetime.  The invariant   *)
(* has a part for each component; every step of ApiProcess is a step of    *)
(* one component and leaves the variables of the others alone.             *)
(***************************************************************************)
EXTENDS ApiProcess, TLAPS

-----------------------------------------------------------------------------
(***************************************************************************)
(* Migrations: what lies before the file a process is at is applied; a     *)
(* version that is recorded and not yet committed is nobody else's.        *)
(***************************************************************************)
SchemaTypeOK ==
  /\ stage \in [Processes -> Stages]
  /\ file \in [Processes -> 1..(Versions + 1)]
  /\ applied \in SUBSET Files
  /\ ran \in [Files -> Nat]
  /\ failures \in Nat

RanIsApplied == \A m \in Files : ran[m] = IF m \in applied THEN 1 ELSE 0

InOrder == \A m \in applied : \A k \in 1..m : k \in applied

Behind ==
  \A p \in Processes : stage[p] # "down" =>
    /\ \A k \in Files : k < file[p] => k \in applied
    /\ stage[p] \in {"applying", "executed", "recorded"} => file[p] \in Files
    /\ stage[p] = "serving" => file[p] = Versions + 1

RecordedOnce ==
  \A p \in Processes : stage[p] = "recorded" =>
    /\ file[p] \notin applied
    /\ \A q \in Processes : (stage[q] = "recorded" /\ file[q] = file[p]) => q = p

SchemaInv == SchemaTypeOK /\ RanIsApplied /\ InOrder /\ Behind /\ RecordedOnce

LEMMA SchemaStarts == SchemaInit => SchemaInv
  BY MigrationsAssumption, SMTT(30)
     DEF SchemaInit, SchemaInv, SchemaTypeOK, RanIsApplied, InOrder, Behind, RecordedOnce,
         Stages, Files

LEMMA CommitKeeps ==
  ASSUME SchemaInv, NEW p \in Processes, CommitVersion(p)
  PROVE  SchemaInv'
<1> USE MigrationsAssumption DEF SchemaInv, CommitVersion
<1>1. file[p] \in Files /\ file[p] \notin applied
  BY DEF Behind, RecordedOnce, SchemaTypeOK
<1>2. SchemaTypeOK'
  <2>1. file[p] + 1 \in 1..(Versions + 1) /\ ran[file[p]] + 1 \in Nat
    BY <1>1 DEF SchemaTypeOK, Files
  <2>2. file' \in [Processes -> 1..(Versions + 1)] /\ ran' \in [Files -> Nat]
    BY <1>1, <2>1 DEF SchemaTypeOK
  <2>3. stage' \in [Processes -> Stages]
    BY DEF SchemaTypeOK, Stages
  <2> QED
    BY <1>1, <2>2, <2>3 DEF SchemaTypeOK
<1>3. RanIsApplied'
  BY <1>1 DEF RanIsApplied, SchemaTypeOK, Files
<1>4. InOrder'
  <2> SUFFICES ASSUME NEW m \in applied', NEW k \in 1..m
               PROVE  k \in applied'
    BY DEF InOrder
  <2>1. CASE m \in applied
    BY <2>1 DEF InOrder
  <2>2. CASE m = file[p]
    BY <2>2, <1>1 DEF Behind, Files, SchemaTypeOK
  <2> QED BY <2>1, <2>2
<1>5. Behind'
  <2> SUFFICES ASSUME NEW q \in Processes, stage'[q] # "down"
               PROVE  /\ \A k \in Files : k < file'[q] => k \in applied'
                      /\ stage'[q] \in {"applying", "executed", "recorded"} => file'[q] \in Files
                      /\ stage'[q] = "serving" => file'[q] = Versions + 1
    BY DEF Behind
  <2>1. CASE q = p
    BY <2>1, <1>1 DEF Behind, SchemaTypeOK, Files
  <2>2. CASE q # p
    BY <2>2 DEF Behind, SchemaTypeOK
  <2> QED BY <2>1, <2>2
<1>6. RecordedOnce'
  BY <1>1 DEF RecordedOnce, SchemaTypeOK
<1> QED BY <1>2, <1>3, <1>4, <1>5, <1>6

LEMMA RecordKeeps ==
  ASSUME SchemaInv, NEW p \in Processes, Record(p)
  PROVE  SchemaInv'
<1> USE DEF SchemaInv, Record
<1>1. SchemaTypeOK' /\ RanIsApplied' /\ InOrder'
  BY DEF SchemaTypeOK, Stages, RanIsApplied, InOrder
<1>2. Behind'
  BY DEF Behind, SchemaTypeOK
<1>3. RecordedOnce'
  BY DEF RecordedOnce, SchemaTypeOK
<1> QED BY <1>1, <1>2, <1>3

LEMMA StagesKeep ==
  ASSUME SchemaInv, NEW p \in Processes,
         Start(p) \/ Check(p) \/ Execute(p) \/ AlreadyExists(p) \/ Serve(p) \/ Exit(p)
  PROVE  SchemaInv'
<1> USE MigrationsAssumption DEF SchemaInv
<1>1. CASE Start(p)
  BY <1>1 DEF Start, SchemaTypeOK, Stages, Files, RanIsApplied, InOrder, Behind, RecordedOnce
<1>2. CASE Check(p)
  <2>1. file[p] \in 1..(Versions + 1) /\ file[p] \in Files
    BY <1>2 DEF Check, SchemaTypeOK
  <2>2. CASE file[p] \in applied
    <3>1. file[p] + 1 \in 1..(Versions + 1)
      BY <2>1 DEF Files
    <3>2. /\ file' = [file EXCEPT ![p] = @ + 1]
          /\ UNCHANGED <<stage, applied, ran, failures>>
      BY <1>2, <2>2 DEF Check
    <3>3. SchemaTypeOK' /\ RanIsApplied' /\ InOrder'
      BY <3>1, <3>2 DEF SchemaTypeOK, RanIsApplied, InOrder
    <3>4. Behind'
      BY <1>2, <2>1, <2>2, <3>2 DEF Check, Behind, SchemaTypeOK, Files
    <3>5. RecordedOnce'
      BY <1>2, <3>2 DEF Check, RecordedOnce, SchemaTypeOK
    <3> QED BY <3>3, <3>4, <3>5
  <2>3. CASE file[p] \notin applied
    <3>1. /\ stage' = [stage EXCEPT ![p] = "applying"]
          /\ UNCHANGED <<file, applied, ran, failures>>
      BY <1>2, <2>3 DEF Check
    <3> QED
      BY <1>2, <2>1, <3>1
         DEF Check, SchemaTypeOK, Stages, RanIsApplied, InOrder, Behind, RecordedOnce
  <2> QED BY <2>2, <2>3
<1>3. CASE Execute(p) \/ AlreadyExists(p)
  <2>1. SchemaTypeOK' /\ RanIsApplied' /\ InOrder'
    BY <1>3 DEF Execute, AlreadyExists, SchemaTypeOK, Stages, RanIsApplied, InOrder
  <2>2. Behind'
    BY <1>3 DEF Execute, AlreadyExists, SchemaTypeOK, Behind
  <2>3. RecordedOnce'
    BY <1>3 DEF Execute, AlreadyExists, SchemaTypeOK, RecordedOnce
  <2> QED BY <2>1, <2>2, <2>3
<1>4. CASE Serve(p)
  BY <1>4 DEF Serve, SchemaTypeOK, Stages, Files, RanIsApplied, InOrder, Behind, RecordedOnce
<1>5. CASE Exit(p)
  BY <1>5 DEF Exit, SchemaTypeOK, Stages, Files, RanIsApplied, InOrder, Behind, RecordedOnce
<1> QED BY <1>1, <1>2, <1>3, <1>4, <1>5

LEMMA SchemaKept ==
  ASSUME SchemaInv, [Next]_vars
  PROVE  SchemaInv'
<1>1. CASE \E p \in Processes : StartUp(p) \/ Exit(p)
  BY <1>1, StagesKeep, RecordKeeps, CommitKeeps DEF StartUp
<1>2. CASE UNCHANGED schemaVars
  BY <1>2 DEF schemaVars, SchemaInv, SchemaTypeOK, RanIsApplied, InOrder, Behind, RecordedOnce
<1> QED
  BY <1>1, <1>2 DEF Next, vars, Starts, Ends, Serves, Time, Rest

LEMMA SchemaSafe == SchemaInv => SchemaStepsOnce
<1> SUFFICES ASSUME SchemaInv PROVE SchemaStepsOnce
  OBVIOUS
<1>1. \A p \in Processes : stage[p] = "serving" => applied = Files
  <2> SUFFICES ASSUME NEW p \in Processes, stage[p] = "serving" PROVE applied = Files
    OBVIOUS
  <2>1. file[p] = Versions + 1 /\ applied \in SUBSET Files
    BY DEF SchemaInv, SchemaTypeOK, Behind
  <2>2. \A k \in Files : k < file[p] => k \in applied
    BY DEF SchemaInv, Behind
  <2>3. \A k \in Files : k < Versions + 1
    BY MigrationsAssumption DEF Files
  <2> QED BY <2>1, <2>2, <2>3
<1> QED
  BY <1>1 DEF SchemaInv, RanIsApplied, InOrder, SchemaStepsOnce

(***************************************************************************)
(* For every number of processes, migrations and failures: each migration  *)
(* of migrations.Apply takes effect at most once and in order, and whoever *)
(* serves finds the whole schema.                                          *)
(***************************************************************************)
THEOREM MigratedOnce == Spec => []SchemaStepsOnce
<1>1. Init => SchemaInv
  BY SchemaStarts DEF Init
<1>2. SchemaInv /\ [Next]_vars => SchemaInv'
  BY SchemaKept
<1> QED
  BY <1>1, <1>2, SchemaSafe, PTL DEF Spec

-----------------------------------------------------------------------------
(***************************************************************************)
(* Place search.  What has been admitted in the span is bounded by where   *)
(* the current window began: before the span by more than a window, before *)
(* the span, or in it.  A window that follows another begins no sooner     *)
(* than a window's length after it, which is what each new bound rests on. *)
(***************************************************************************)
Places == {"idle", "limiter", "admitted", "cache", "asking", "answered"}

SearchTypeOK ==
  /\ clock \in Nat /\ from \in Nat /\ inSpan \in Nat
  /\ at \in [Requests -> Places]
  /\ reading \in [Requests -> Nat]
  /\ asOf \in [Requests -> Nat]
  /\ window \in [open : BOOLEAN, start : Nat, count : Nat]
  /\ cache \in [filled : BOOLEAN, asOf : Nat, expiresAt : Nat]

WaitsBounded ==
  \A q \in Requests : at[q] = "limiter" =>
    reading[q] <= clock /\ clock <= reading[q] + MaxWait

WindowFits(open, start, count, now) == open => start <= now /\ 1 <= count /\ count <= Limit

SpanFits(open, start, count, now, n) ==
  /\ ~open => n = 0
  /\ now < from => n = 0
  /\ open /\ start + Window <= from => n <= count - 1
  /\ open /\ start <= from => n <= Limit - 1 + count
  /\ open /\ start <= from + Window => n <= 2 * Limit - 1 + count
  /\ n <= 3 * Limit - 1

LimiterOK ==
  /\ WindowFits(window.open, window.start, window.count, clock)
  /\ SpanFits(window.open, window.start, window.count, clock, inSpan)

RatingsOK ==
  /\ \A q \in Requests : at[q] \in {"cache", "asking"} => reading[q] <= clock
  /\ \A q \in Requests : at[q] = "answered" => reading[q] <= asOf[q]
  /\ cache.filled => cache.expiresAt <= cache.asOf + Lifetime

SearchInv == SearchTypeOK /\ WaitsBounded /\ LimiterOK /\ RatingsOK

LEMMA SearchStarts == SearchInit => SearchInv
<1> SUFFICES ASSUME SearchInit PROVE SearchInv
  OBVIOUS
<1> USE PlaceSearchAssumption DEF SearchInit, NoWindow, NoRating
<1>1. SearchTypeOK
  BY DEF SearchTypeOK, Places
<1>2. WaitsBounded
  BY DEF WaitsBounded
<1>3. LimiterOK
  BY <1>1 DEF LimiterOK, WindowFits, SpanFits, SearchTypeOK
<1>4. RatingsOK
  BY DEF RatingsOK
<1> QED BY <1>1, <1>2, <1>3, <1>4 DEF SearchInv

\* A search that joins the window it finds.
LEMMA JoinFits ==
  ASSUME from \in Nat, NEW start \in Nat, NEW count \in Nat, NEW now \in Nat, NEW n \in Nat,
         NEW m \in Nat,
         WindowFits(TRUE, start, count, now), SpanFits(TRUE, start, count, now, n),
         count < Limit,
         m = IF now \in from..(from + Window) THEN n + 1 ELSE n
  PROVE  WindowFits(TRUE, start, count + 1, now) /\ SpanFits(TRUE, start, count + 1, now, m)
  BY PlaceSearchAssumption DEF WindowFits, SpanFits

\* A search that begins a window at its reading r.
LEMMA OpenFits ==
  ASSUME from \in Nat, NEW open \in BOOLEAN, NEW start \in Nat, NEW count \in Nat,
         NEW now \in Nat, NEW n \in Nat, NEW m \in Nat, NEW r \in Nat,
         WindowFits(open, start, count, now), SpanFits(open, start, count, now, n),
         r <= now, now <= r + MaxWait,
         ~open \/ r - start >= Window,
         m = IF now \in from..(from + Window) THEN n + 1 ELSE n
  PROVE  WindowFits(TRUE, r, 1, now) /\ SpanFits(TRUE, r, 1, now, m)
<1> USE PlaceSearchAssumption
<1>1. CASE ~open
  BY <1>1 DEF WindowFits, SpanFits
<1>2. CASE open
  BY <1>2 DEF WindowFits, SpanFits
<1> QED BY <1>1, <1>2

LEMMA AdmitKeeps ==
  ASSUME SearchInv, NEW q \in Requests, Admit(q)
  PROVE  SearchInv'
<1> USE PlaceSearchAssumption DEF SearchInv
<1>1. /\ at' = [at EXCEPT ![q] = "admitted"]
      /\ reading' = [reading EXCEPT ![q] = 0]
      /\ asOf' = [asOf EXCEPT ![q] = 0]
      /\ inSpan' = IF clock \in from..(from + Window) THEN inSpan + 1 ELSE inSpan
      /\ UNCHANGED <<clock, cache, from>>
  BY DEF Admit, Go
<1>2. clock \in Nat /\ from \in Nat /\ inSpan \in Nat /\ inSpan' \in Nat /\ reading[q] \in Nat
  BY <1>1 DEF SearchTypeOK
<1>3. /\ window.open \in BOOLEAN /\ window.start \in Nat /\ window.count \in Nat
      /\ reading[q] <= clock /\ clock <= reading[q] + MaxWait
  BY DEF SearchTypeOK, WaitsBounded, Admit
<1>4. window' \in [open : BOOLEAN, start : Nat, count : Nat] /\ LimiterOK'
  <2>1. CASE Elapsed(window, reading[q])
            /\ window' = [open |-> TRUE, start |-> reading[q], count |-> 1]
    <3>1. /\ WindowFits(TRUE, reading[q], 1, clock)
          /\ SpanFits(TRUE, reading[q], 1, clock, inSpan')
      BY <1>1, <1>2, <1>3, <2>1, OpenFits DEF LimiterOK, Elapsed
    <3> QED
      BY <1>1, <1>2, <2>1, <3>1 DEF LimiterOK, WindowFits, SpanFits
  <2>2. CASE ~Elapsed(window, reading[q]) /\ LeavesRoom(window)
            /\ window' = [window EXCEPT !.count = @ + 1]
    <3>1. window.open /\ window.count < Limit
      BY <2>2 DEF Elapsed, LeavesRoom
    <3>2. /\ WindowFits(TRUE, window.start, window.count + 1, clock)
          /\ SpanFits(TRUE, window.start, window.count + 1, clock, inSpan')
      BY <1>1, <1>2, <1>3, <3>1, JoinFits DEF LimiterOK, WindowFits, SpanFits
    <3>3. /\ window' \in [open : BOOLEAN, start : Nat, count : Nat]
          /\ window'.open /\ window'.start = window.start
          /\ window'.count = window.count + 1
      BY <1>3, <2>2, <3>1 DEF SearchTypeOK
    <3> QED
      BY <1>1, <3>2, <3>3 DEF LimiterOK, WindowFits, SpanFits
  <2> QED BY <2>1, <2>2 DEF Admit
<1>5. SearchTypeOK'
  BY <1>1, <1>2, <1>4 DEF SearchTypeOK, Places
<1>6. WaitsBounded' /\ RatingsOK'
  BY <1>1 DEF WaitsBounded, RatingsOK, SearchTypeOK
<1> QED BY <1>4, <1>5, <1>6

\* A request moves on and the limiter is left alone.
LEMMA GoKeeps ==
  ASSUME SearchInv, NEW q \in Requests, NEW place \in Places \ {"limiter"},
         NEW time \in Nat, NEW answered \in Nat,
         Go(q, place, time, answered),
         place \in {"cache", "asking"} => time <= clock,
         place = "answered" => time <= answered,
         UNCHANGED <<clock, limiterVars>>,
         cache' \in [filled : BOOLEAN, asOf : Nat, expiresAt : Nat],
         cache'.filled => cache'.expiresAt <= cache'.asOf + Lifetime
  PROVE  SearchInv'
<1> USE DEF SearchInv, Go, limiterVars
<1>1. SearchTypeOK'
  BY DEF SearchTypeOK
<1>2. WaitsBounded'
  BY DEF WaitsBounded, SearchTypeOK
<1>3. LimiterOK'
  BY DEF LimiterOK, WindowFits, SpanFits
<1>4. RatingsOK'
  BY DEF RatingsOK, SearchTypeOK
<1> QED BY <1>1, <1>2, <1>3, <1>4

LEMMA RequestKeeps ==
  ASSUME SearchInv, NEW q \in Requests,
         \/ Refuse(q) \/ Finish(q) \/ LookUp(q) \/ Hit(q) \/ Miss(q)
         \/ ProviderAnswers(q) \/ ProviderFails(q) \/ Store(q)
  PROVE  SearchInv'
<1>1. /\ clock \in Nat /\ reading[q] \in Nat /\ asOf[q] \in Nat
      /\ cache \in [filled : BOOLEAN, asOf : Nat, expiresAt : Nat]
      /\ cache.filled => cache.expiresAt <= cache.asOf + Lifetime
  BY DEF SearchInv, SearchTypeOK, RatingsOK
<1>2. CASE Refuse(q) \/ Finish(q) \/ Hit(q) \/ ProviderFails(q)
  BY <1>1, <1>2, GoKeeps DEF Refuse, Finish, Hit, ProviderFails, End, Places, limiterVars
<1>3. CASE LookUp(q)
  BY <1>1, <1>3, GoKeeps DEF LookUp, Places, limiterVars
<1>4. CASE Miss(q)
  <2>1. reading[q] <= clock
    BY <1>4 DEF Miss, SearchInv, RatingsOK
  <2> QED
    BY <1>1, <1>4, <2>1, GoKeeps DEF Miss, Places, limiterVars
<1>5. CASE ProviderAnswers(q)
  <2>1. reading[q] <= clock
    BY <1>5 DEF ProviderAnswers, SearchInv, RatingsOK
  <2> QED
    BY <1>1, <1>5, <2>1, GoKeeps DEF ProviderAnswers, Places, limiterVars
<1>6. CASE Store(q)
  <2>1. reading[q] <= asOf[q]
    BY <1>6 DEF Store, SearchInv, RatingsOK
  <2>2. /\ cache' = [filled |-> TRUE, asOf |-> asOf[q], expiresAt |-> reading[q] + Lifetime]
        /\ reading[q] + Lifetime \in Nat
        /\ reading[q] + Lifetime <= asOf[q] + Lifetime
    BY <1>1, <1>6, <2>1, PlaceSearchAssumption DEF Store, Expiry
  <2> QED
    BY <1>1, <1>6, <2>2, GoKeeps DEF Store, End, Places, limiterVars
<1> QED BY <1>2, <1>3, <1>4, <1>5, <1>6

LEMMA ArriveKeeps ==
  ASSUME SearchInv, NEW q \in Requests, Arrive(q)
  PROVE  SearchInv'
<1> USE PlaceSearchAssumption DEF SearchInv, Arrive, Go, limiterVars
<1>1. SearchTypeOK'
  BY DEF SearchTypeOK, Places
<1>2. WaitsBounded'
  BY DEF WaitsBounded, SearchTypeOK
<1>3. LimiterOK'
  BY DEF LimiterOK, WindowFits, SpanFits
<1>4. RatingsOK'
  BY DEF RatingsOK, SearchTypeOK
<1> QED BY <1>1, <1>2, <1>3, <1>4

LEMMA TickKeeps ==
  ASSUME SearchInv, Tick
  PROVE  SearchInv'
<1> USE PlaceSearchAssumption DEF SearchInv, Tick
<1>1. SearchTypeOK'
  BY DEF SearchTypeOK
<1>2. WaitsBounded'
  BY DEF WaitsBounded, SearchTypeOK
<1>3. LimiterOK'
  BY DEF LimiterOK, WindowFits, SpanFits, SearchTypeOK
<1>4. RatingsOK'
  BY DEF RatingsOK, SearchTypeOK
<1> QED BY <1>1, <1>2, <1>3, <1>4

LEMMA ForgetKeeps ==
  ASSUME SearchInv, Forget
  PROVE  SearchInv'
<1> USE PlaceSearchAssumption DEF SearchInv, Forget, NoWindow, NoRating
<1>1. SearchTypeOK'
  BY DEF SearchTypeOK, Places
<1>2. WaitsBounded' /\ RatingsOK'
  BY DEF WaitsBounded, RatingsOK
<1>3. LimiterOK'
  BY <1>1 DEF LimiterOK, WindowFits, SpanFits, SearchTypeOK
<1> QED BY <1>1, <1>2, <1>3

LEMMA SearchKept ==
  ASSUME SearchInv, [Next]_vars
  PROVE  SearchInv'
<1>1. CASE UNCHANGED searchVars
  BY <1>1 DEF searchVars, SearchInv, SearchTypeOK, WaitsBounded, LimiterOK, WindowFits,
              SpanFits, RatingsOK
<1>2. CASE Search
  BY <1>2, AdmitKeeps, RequestKeeps, ArriveKeeps DEF Search
<1>3. CASE Tick \/ Forget
  BY <1>3, TickKeeps, ForgetKeeps
<1> QED
  BY <1>1, <1>2, <1>3 DEF Next, vars, Starts, Ends, Serves, Time, Rest

LEMMA SearchSafe == SearchInv => AdmissionsBounded /\ RatingsAreRecent
<1> SUFFICES ASSUME SearchInv PROVE AdmissionsBounded /\ RatingsAreRecent
  OBVIOUS
<1>1. AdmissionsBounded
  BY PlaceSearchAssumption DEF SearchInv, SearchTypeOK, LimiterOK, SpanFits, AdmissionsBounded
<1>2. RatingsAreRecent
  <2> SUFFICES ASSUME NEW q \in Requests, at[q] = "cache", Usable(cache, reading[q])
               PROVE  reading[q] - cache.asOf < Lifetime
    BY DEF RatingsAreRecent
  <2>1. /\ reading[q] \in Nat /\ cache.asOf \in Nat /\ cache.expiresAt \in Nat
        /\ cache.expiresAt <= cache.asOf + Lifetime
    BY DEF SearchInv, SearchTypeOK, RatingsOK, Usable
  <2> QED
    BY <2>1, PlaceSearchAssumption DEF Usable
<1> QED BY <1>1, <1>2

LEMMA SearchAlways == Spec => []SearchInv
<1>1. Init => SearchInv
  BY SearchStarts DEF Init
<1>2. SearchInv /\ [Next]_vars => SearchInv'
  BY SearchKept
<1> QED
  BY <1>1, <1>2, PTL DEF Spec

(***************************************************************************)
(* For every limit, window and wait shorter than the window: allow lets    *)
(* fewer than three limits of a user's searches pass in any span as long   *)
(* as the window, both ends included.                                      *)
(***************************************************************************)
THEOREM AdmissionsSafe == Spec => []AdmissionsBounded
  BY SearchAlways, SearchSafe, PTL

(***************************************************************************)
(* For every lifetime and however long the provider takes: a rating count  *)
(* that userRatingCount takes from its cache is younger than the lifetime. *)
(***************************************************************************)
THEOREM RatingsSafe == Spec => []RatingsAreRecent
  BY SearchAlways, SearchSafe, PTL
=============================================================================
