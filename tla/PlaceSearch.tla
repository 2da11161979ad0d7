----------------------------- MODULE PlaceSearch -----------------------------
(***************************************************************************)
(* The place search of one API process: the limiter that every search      *)
(* passes and the cache of rating counts that ranks the suggestions.  Both *)
(* live in the memory of the process and are gone when it restarts.        *)
(*                                                                         *)
(* The limiter is that of one user, the cache that of one place; users and *)
(* places do not share anything.  A request is a goroutine: it reads the   *)
(* clock, and only later gets the mutex under which the reading is used,   *)
(* so readings may be used out of order.                                   *)
(***************************************************************************)
EXTENDS Integers

CONSTANTS
  Requests,      \* searches that may be served at the same time
  Limit,         \* LOCATION_SEARCH_REQUESTS_PER_MINUTE
  Window,        \* one minute
  MaxWait,       \* how long a request may wait for a mutex
  Lifetime,      \* popularityCacheLifetime
  Spans,         \* the beginnings of the spans of time in which searches are counted
  MaxClock       \* bound: the clock stops here

ASSUME PlaceSearchAssumption ==
  /\ Limit \in Nat \ {0}      \* newUserWindowLimiter replaces other values
  /\ Window \in Nat /\ MaxWait \in Nat /\ MaxWait < Window
  /\ Lifetime \in Nat \ {0}
  /\ Spans \subseteq Nat
  /\ MaxClock \in Nat

VARIABLES
  clock,         \* the clock of the process
  at,            \* at[q]: where request q is
  reading,       \* the time that q has read
  asOf,          \* when the provider gave q its rating count
  window,        \* the user's entry of the limiter
  cache,         \* the place's entry of popularityCache
  from,          \* a span from..from + Window ...
  inSpan         \* ... and the searches admitted in it by this process

searchVars == <<clock, at, reading, asOf, window, cache, from, inSpan>>

NoWindow == [open |-> FALSE, start |-> 0, count |-> 0]
NoRating == [filled |-> FALSE, asOf |-> 0, expiresAt |-> 0]

SearchInit ==
  /\ clock = 0
  /\ at = [q \in Requests |-> "idle"]
  /\ reading = [q \in Requests |-> 0]
  /\ asOf = [q \in Requests |-> 0]
  /\ window = NoWindow
  /\ cache = NoRating
  /\ from \in Spans
  /\ inSpan = 0

\* Request q moves on with what it has read; an ended one remembers nothing.
Go(q, place, time, answered) ==
  /\ at' = [at EXCEPT ![q] = place]
  /\ reading' = [reading EXCEPT ![q] = time]
  /\ asOf' = [asOf EXCEPT ![q] = answered]
End(q) == Go(q, "idle", 0, 0)

limiterVars == <<window, from, inSpan>>

\* allowLocationSearch: time.Now() is evaluated before allow locks the mutex.
Arrive(q) ==
  /\ at[q] = "idle"
  /\ Go(q, "limiter", clock, 0)
  /\ UNCHANGED <<clock, cache, limiterVars>>

\* Wrong: a request that finds the limit reached is still let in.
LeavesRoomLate(entry) == entry.count <= Limit

LeavesRoom(entry) == entry.count < Limit

Elapsed(entry, now) == ~entry.open \/ now - entry.start >= Window

Admit(q) ==
  /\ at[q] = "limiter"
  /\ \/ /\ Elapsed(window, reading[q])
        /\ window' = [open |-> TRUE, start |-> reading[q], count |-> 1]
     \/ /\ ~Elapsed(window, reading[q]) /\ LeavesRoom(window)
        /\ window' = [window EXCEPT !.count = @ + 1]
  /\ Go(q, "admitted", 0, 0)
  /\ inSpan' = IF clock \in from..(from + Window) THEN inSpan + 1 ELSE inSpan
  /\ UNCHANGED <<clock, cache, from>>

\* 429.
Refuse(q) ==
  /\ at[q] = "limiter"
  /\ ~Elapsed(window, reading[q]) /\ ~LeavesRoom(window)
  /\ End(q)
  /\ UNCHANGED <<clock, cache, limiterVars>>

\* The input is refused, or there are no suggestions to rank.
Finish(q) == at[q] = "admitted" /\ End(q) /\ UNCHANGED <<clock, cache, limiterVars>>

\* userRatingCount reads the clock again, before it looks into the cache.
LookUp(q) ==
  /\ at[q] = "admitted"
  /\ Go(q, "cache", clock, 0)
  /\ UNCHANGED <<clock, cache, limiterVars>>

Usable(entry, now) == entry.filled /\ now < entry.expiresAt

Hit(q) ==
  /\ at[q] = "cache" /\ Usable(cache, reading[q])
  /\ End(q)
  /\ UNCHANGED <<clock, cache, limiterVars>>

\* The mutex is released while the provider is asked.
Miss(q) ==
  /\ at[q] = "cache" /\ ~Usable(cache, reading[q])
  /\ Go(q, "asking", reading[q], 0)
  /\ UNCHANGED <<clock, cache, limiterVars>>

ProviderAnswers(q) ==
  /\ at[q] = "asking"
  /\ Go(q, "answered", reading[q], clock)
  /\ UNCHANGED <<clock, cache, limiterVars>>

\* An error, a timeout or another status counts as 0 and is not kept.
ProviderFails(q) == at[q] = "asking" /\ End(q) /\ UNCHANGED <<clock, cache, limiterVars>>

\* Wrong: the lifetime starts when the count is stored.
ExpiryFromStore(q) == clock + Lifetime

Expiry(q) == reading[q] + Lifetime

\* Whoever answers last overwrites, even with an older count.
Store(q) ==
  /\ at[q] = "answered"
  /\ cache' = [filled |-> TRUE, asOf |-> asOf[q], expiresAt |-> Expiry(q)]
  /\ End(q)
  /\ UNCHANGED <<clock, limiterVars>>

Tick ==
  /\ clock < MaxClock
  /\ \A q \in Requests : at[q] \in {"limiter", "cache"} => clock - reading[q] < MaxWait
  /\ clock' = clock + 1
  /\ UNCHANGED <<at, reading, asOf, window, cache, from, inSpan>>

\* The memory of a process that is started again.
Forget ==
  /\ at' = [q \in Requests |-> "idle"]
  /\ reading' = [q \in Requests |-> 0]
  /\ asOf' = [q \in Requests |-> 0]
  /\ window' = NoWindow
  /\ cache' = NoRating
  /\ inSpan' = 0
  /\ UNCHANGED <<clock, from>>

Search ==
  \E q \in Requests :
    \/ Arrive(q) \/ Admit(q) \/ Refuse(q) \/ Finish(q)
    \/ LookUp(q) \/ Hit(q) \/ Miss(q)
    \/ ProviderAnswers(q) \/ ProviderFails(q) \/ Store(q)

-----------------------------------------------------------------------------
(***************************************************************************)
(* A user gets fewer than three limits of searches through one process in  *)
(* any minute, both ends included: one window may end in it, since a late  *)
(* reading still counts in the window it was taken in, one lie in it, and  *)
(* one more begin at its end.  The limit itself only holds per window.     *)
(***************************************************************************)
AdmissionsBounded == inSpan < 3 * Limit

(***************************************************************************)
(* A rating count that is taken from the cache was given by the provider   *)
(* less than the lifetime before the search looked, however slow the       *)
(* answer that filled the cache was and whichever answer came last.        *)
(***************************************************************************)
RatingsAreRecent ==
  \A q \in Requests :
    (at[q] = "cache" /\ Usable(cache, reading[q])) => reading[q] - cache.asOf < Lifetime
=============================================================================
