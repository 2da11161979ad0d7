---------------------------- MODULE MarketplaceTx ----------------------------
(***************************************************************************)
(* The marketplace handlers statement by statement, as PostgreSQL runs     *)
(* them at READ COMMITTED.  Marketplace takes a transaction as one step;   *)
(* here a transaction is a program of statements that pick their rows from *)
(* a snapshot, lock them one by one, wait for each other, meet deadlocks,  *)
(* and may fail between any two steps, while the clock runs on.            *)
(*                                                                         *)
(* A statement is stamped when it starts (statement_timestamp()), however  *)
(* long it then waits.  A row it waited for is read again: the condition   *)
(* on the row's own columns is tested on the new version, conditions on    *)
(* other tables are not (they were answered by the snapshot).  Locks are   *)
(* kept until the transaction ends.                                        *)
(*                                                                         *)
(* A row is [is |-> status, at |-> time]: the deadline of a ride, an       *)
(* opportunity or an offer, the assignment time of a trip, and for a       *)
(* driver's profile the time of the stored location, which every writer of *)
(* driver_locations changes under the lock of the profile.                 *)
(***************************************************************************)
EXTENDS Integers, Sequences, Relation

CONSTANTS
  Rides, Drivers,
  Openings,      \* the contents of the tables to start from
  Tx,            \* 1..n: requests served at the same time, each on a connection
  NoTx, NoRow, NoRide, NoDriver,
  Lease,         \* MarketplaceLocationMaxAge
  OfferTTL,      \* offer_decision_ttl_seconds
  MaxNow         \* bound: the clock stops here

Pairs == Rides \X Drivers
RideRow(r) == <<"ride", r>>
OppRow(p) == <<"opp", p>>
OfferRow(p) == <<"offer", p>>
TripRow(p) == <<"trip", p>>
ProfileRow(d) == <<"profile", d>>
Rows == {RideRow(r) : r \in Rides} \cup {ProfileRow(d) : d \in Drivers}
          \cup ({"opp", "offer", "trip"} \X Pairs)

Statuses ==
  [ride |-> {"none", "requested", "accepted", "cancelled", "expired"},
   opp |-> {"none", "open", "offered", "accepted", "rider_rejected", "driver_skipped",
            "window_expired", "offer_expired", "closed"},
   offer |-> {"none", "pending", "accepted", "rejected", "expired", "closed"},
   trip |-> {"none", "assigned", "in_progress", "completed", "settled", "cancelled"},
   profile |-> {"none", "online", "offline"}]

Existing == (UNION {Statuses[table] : table \in DOMAIN Statuses}) \ {"none"}
Decided == {"accepted", "cancelled", "expired"}
ActiveTrip == {"assigned", "in_progress"}

Tables == {rows \in [Rows -> [is : Existing \cup {"none"}, at : Int]] :
             \A row \in Rows : rows[row].is \in Statuses[row[1]]}

\* The rows of ride r agree.
RideAgrees(r, rows) ==
  LET is == rows[RideRow(r)].is
      trips == {d \in Drivers : rows[TripRow(<<r, d>>)].is # "none"}
  IN  /\ is = "accepted" => trips # {}
      /\ is \notin {"accepted", "cancelled"} => trips = {}
      /\ \A d, e \in trips : d = e
      /\ \A d \in Drivers :
           LET offer == rows[OfferRow(<<r, d>>)].is
               opp == rows[OppRow(<<r, d>>)].is
               trip == rows[TripRow(<<r, d>>)].is
           IN  /\ (offer = "accepted" <=> d \in trips) /\ (opp = "accepted" <=> d \in trips)
               /\ trip = "cancelled" <=> (d \in trips /\ is = "cancelled")
               /\ is \in {"accepted", "cancelled"} => offer # "pending" /\ opp # "offered"
               /\ offer = "pending" => opp = "offered" \/ (opp = "closed" /\ is = "expired")
               /\ offer = "rejected" <=> opp = "rider_rejected"

ASSUME MarketplaceTxAssumption ==
  /\ Tx \subseteq Nat /\ NoTx \notin Tx /\ NoRow \notin Rows
  /\ NoRide \notin Rides /\ NoDriver \notin Drivers
  /\ Lease \in Nat /\ OfferTTL \in Nat /\ MaxNow \in Nat
  /\ Openings \subseteq Tables
  /\ \A rows \in Openings, r \in Rides : RideAgrees(r, rows)

VARIABLES
  db,        \* committed rows
  work,      \* work[t]: the rows transaction t has written
  holder,    \* holder[row]: the transaction that has the row locked
  waits,     \* waits[t]: the locked row that t is waiting for
  tx,        \* tx[t]: the handler t runs and how far it is
  now        \* the clock of the database server

vars == <<db, work, holder, waits, tx, now>>

Ended == [job |-> "none", r |-> NoRide, d |-> NoDriver, pc |-> 0, todo |-> {},
          stamp |-> 0, start |-> 0, judged |-> 0]

NoWrites == [row \in {} |-> NoRow]

-----------------------------------------------------------------------------
(***************************************************************************)
(* Statements.  An update takes the rows of table "on" within its scope    *)
(* "of" whose status is in "from" and whose deadline is past or ahead, and *)
(* sets their status to "to".  A lock is SELECT ... FOR UPDATE.  What the  *)
(* handler tests afterwards is "check".                                    *)
(***************************************************************************)
Update(on, of, from, when, to, check) ==
  [on |-> on, of |-> of, from |-> from, when |-> when, to |-> to, check |-> check]
Set(on, of, from, to) == Update(on, of, from, "always", to, "none")
LockIn(on, of, check) == Update(on, of, Existing, "always", "same", check)
Lock(on, check) == LockIn(on, "own", check)
Read(check) == Update("nothing", "own", {}, "always", "same", check)

Expire ==
  << Update("offer", "all", {"pending"}, "past", "expired", "none"),
     Update("opp", "offerExpired", {"offered"}, "always", "offer_expired", "none"),
     Update("opp", "all", {"open"}, "past", "window_expired", "none"),
     Update("ride", "tripless", {"requested"}, "past", "expired", "none"),
     Set("offer", "decided", {"pending"}, "closed"),
     Set("opp", "decided", {"open", "offered"}, "closed") >>

LockEligible == << Lock("profile", "none"), Read("eligible") >>

MarkRideAccepted == Update("ride", "own", {"requested"}, "ahead", "accepted", "changed")

\* Wrong: the offers that lost stay pending.
CloseCompetingOpps == << Set("opp", "rivals", {"open", "offered"}, "closed") >>

CloseCompeting == << Set("offer", "rivals", {"pending"}, "closed"),
                     Set("opp", "rivals", {"open", "offered"}, "closed") >>

SelectOffer ==
  Expire \o << Lock("ride", "rideOpen"), Lock("offer", "offerActionable"),
               Lock("opp", "oppOffered") >>
    \o LockEligible
    \o << Set("offer", "own", Existing, "accepted"), Set("opp", "own", {"offered"}, "accepted"),
          Update("trip", "own", {"none"}, "always", "assigned", "driverFree"),
          MarkRideAccepted >>
    \o CloseCompeting

UpsertOffer ==
  Expire \o << Lock("ride", "rideOpen"), Lock("opp", "oppVisible") >>
    \o LockEligible
    \o << Update("offer", "own", {"none"}, "always", "pending", "changed"),
          Set("opp", "own", {"open"}, "offered") >>

RejectOffer ==
  Expire \o << Lock("ride", "rideOpen"), Lock("offer", "offerPending"),
               Set("offer", "own", Existing, "rejected"),
               Set("opp", "own", {"offered"}, "rider_rejected") >>

SkipOpportunity ==
  Expire \o << Update("opp", "rideOpen", {"open"}, "ahead", "driver_skipped", "changed") >>

\* Wrong: the trip is read without FOR UPDATE.
CancelUnlocked(of, check) ==
  Expire \o << Lock("ride", "none"), Read(check),
               Set("ride", "own", Existing, "cancelled"),
               Set("trip", "ofRide", Existing, "cancelled"),
               Set("offer", "ofRide", {"pending"}, "closed"),
               Set("opp", "ofRide", {"open", "offered"}, "closed") >>

\* Cancellation by the rider, or by the driver (whose trip must exist).
Cancel(of, check) ==
  Expire \o << Lock("ride", "none"), LockIn("trip", of, check),
               Set("ride", "own", Existing, "cancelled"),
               Set("trip", "ofRide", Existing, "cancelled"),
               Set("offer", "ofRide", {"pending"}, "closed"),
               Set("opp", "ofRide", {"open", "offered"}, "closed") >>

MoveTrip(from, to) == << Lock("trip", "tripMovable"), Set("trip", "own", {from}, to) >>

\* A heartbeat: late ones still store the location, but cannot revive presence.
UpsertCurrent ==
  << Lock("profile", "none"), Set("profile", "unfresh", {"online"}, "offline"),
     Set("profile", "own", Existing, "located") >>

GoOnline == << Lock("profile", "none"), Read("mayGoOnline"),
               Set("profile", "own", Existing, "online") >>
GoOffline == << Lock("profile", "none"), Set("profile", "own", Existing, "offline") >>

\* FOR UPDATE SKIP LOCKED, then the update under the lock.  The pass is that of
\* one driver: it judges each by themselves and never waits for any.
ExpirePresence ==
  << Set("profile", "unlocked", {"online"}, "same"),
     Set("profile", "unfresh", {"online"}, "offline") >>

Program == [none |-> << >>, select |-> SelectOffer, upsert |-> UpsertOffer,
            reject |-> RejectOffer, skip |-> SkipOpportunity,
            cancel |-> Cancel("ofRide", "cancellable"), withdraw |-> Cancel("own", "ownCancellable"),
            start |-> MoveTrip("assigned", "in_progress"),
            complete |-> MoveTrip("in_progress", "completed"),
            collect |-> MoveTrip("completed", "settled"),
            heartbeat |-> UpsertCurrent, online |-> GoOnline, offline |-> GoOffline,
            presence |-> ExpirePresence, sweep |-> Expire]

-----------------------------------------------------------------------------
(***************************************************************************)
(* What a statement sees and does.                                         *)
(***************************************************************************)
Overlay(writes, rows) ==
  [row \in Rows |-> IF row \in DOMAIN writes THEN writes[row] ELSE rows[row]]
View(t) == Overlay(work[t], db)

Statement(q) == Program[q.job][q.pc]

OwnRow(on, q) ==
  CASE on = "ride" -> RideRow(q.r)
    [] on = "profile" -> ProfileRow(q.d)
    [] OTHER -> <<on, <<q.r, q.d>>>>

Fresh(row, at) == row.at \in (at - Lease)..at

Tripless(r, view) == \A d \in Drivers : view[TripRow(<<r, d>>)].is = "none"
Driving(d, view) == \E r \in Rides : view[TripRow(<<r, d>>)].is \in ActiveTrip

InScope(q, row, view, at) ==
  LET s == Statement(q)
      own == row = OwnRow(s.on, q)
  IN  CASE s.of = "all" -> TRUE
        [] s.of = "own" -> own
        [] s.of = "ofRide" -> row[2][1] = q.r
        [] s.of = "rivals" -> row[2][1] = q.r /\ row[2][2] # q.d
        [] s.of = "offerExpired" -> view[OfferRow(row[2])].is = "expired"
        [] s.of = "tripless" -> Tripless(row[2], view)
        [] s.of = "decided" -> view[RideRow(row[2][1])].is \in Decided
        [] s.of = "rideOpen" -> /\ own
                                /\ view[RideRow(q.r)].is = "requested"
                                /\ view[RideRow(q.r)].at > at
        [] s.of = "unlocked" -> own /\ holder[row] = NoTx
        [] s.of = "unfresh" -> own /\ ~Fresh(view[row], at)

\* The condition on the row's own columns, tested again after a wait.
Matches(s, v, at) ==
  /\ v.is \in s.from
  /\ s.when = "past" => v.at <= at
  /\ s.when = "ahead" => v.at > at

Picks(q, view, at) ==
  LET s == Statement(q)
  IN  {row \in Rows : row[1] = s.on /\ Matches(s, view[row], at) /\ InScope(q, row, view, at)}

\* The new version of a row; NOW() is the start of the transaction.
Written(q, v) ==
  LET s == Statement(q)
  IN  [is |-> IF s.to \in {"same", "located"} THEN v.is ELSE s.to,
       at |-> CASE s.to = "located" -> q.start
                [] s.to = "assigned" -> q.stamp
                [] s.to = "pending" -> q.stamp + OfferTTL
                [] OTHER -> v.at]

\* Wrong: the eligibility is judged at the time of the statement that locked.
StampOfLock(q, s) == IF s.check = "eligible" THEN q.stamp ELSE now

Stamp(q, s) == now

\* Transaction q comes to statement n of its program.
At(q, n, view) ==
  LET there == [q EXCEPT !.pc = n]
      at == Stamp(q, Statement(there))
  IN  [there EXCEPT !.stamp = at, !.todo = Picks(there, view, at),
                    !.judged = IF Statement(there).check = "eligible" THEN now ELSE @]

-----------------------------------------------------------------------------
(***************************************************************************)
(* What the handler tests after a statement: it goes on, answers at once   *)
(* because the work was done before, or fails and rolls back.              *)
(***************************************************************************)
RideOpen(q, view) ==
  /\ view[RideRow(q.r)].is = "requested"
  /\ view[RideRow(q.r)].at > q.stamp
  /\ Tripless(q.r, view)

Eligible(q, view) ==
  /\ view[ProfileRow(q.d)].is = "online"
  /\ Fresh(view[ProfileRow(q.d)], q.stamp)
  /\ ~Driving(q.d, view)

Cancellable(q, view) ==
  /\ view[RideRow(q.r)].is \in {"requested", "accepted"}
  /\ \A d \in Drivers : view[TripRow(<<q.r, d>>)].is \notin {"completed", "settled", "cancelled"}

Changed(q, t) ==
  \E row \in DOMAIN work[t] :
    row = OwnRow(Statement(q).on, q) /\ work[t][row].is = Statement(q).to

Passes(t) ==
  LET q == tx[t]
      view == View(t)
      own(on) == view[OwnRow(on, q)]
      check == Statement(q).check
  IN  CASE check = "none" -> TRUE
        [] check = "rideOpen" -> RideOpen(q, view)
        [] check = "offerActionable" -> own("offer").is = "pending" /\ own("offer").at > q.stamp
        [] check = "offerPending" -> own("offer").is = "pending"
        [] check = "oppOffered" -> own("opp").is = "offered"
        [] check = "oppVisible" -> own("opp").is = "open" /\ own("opp").at > q.stamp
        [] check = "eligible" -> Eligible(q, view)
        [] check = "mayGoOnline" -> Fresh(own("profile"), q.stamp) /\ ~Driving(q.d, view)
        [] check = "driverFree" -> \A r \in Rides \ {q.r} : db[TripRow(<<r, q.d>>)].is \notin ActiveTrip
        [] check = "changed" -> Changed(q, t)
        [] check = "cancellable" -> Cancellable(q, view)
        [] check = "ownCancellable" -> own("trip").is # "none" /\ Cancellable(q, view)
        [] check = "tripMovable" -> own("trip").is \in Program[q.job][2].from

\* Repeated answers that find the work done.
DoneBefore(t) ==
  LET q == tx[t]
      view == View(t)
      check == Statement(q).check
  IN  \/ check = "offerPending" /\ view[OfferRow(<<q.r, q.d>>)].is = "rejected"
      \/ check = "cancellable" /\ view[RideRow(q.r)].is = "cancelled"
      \/ /\ check = "ownCancellable"
         /\ view[TripRow(<<q.r, q.d>>)].is = "cancelled"
         /\ view[RideRow(q.r)].is = "cancelled"
      \/ /\ check = "tripMovable"
         /\ \/ view[TripRow(<<q.r, q.d>>)].is = Program[q.job][2].to
            \/ q.job = "complete" /\ view[TripRow(<<q.r, q.d>>)].is = "settled"

-----------------------------------------------------------------------------
(***************************************************************************)
(* The requests that may arrive: clients call what they were shown.  The   *)
(* connections are interchangeable, so the requests of the opening are     *)
(* dealt out in the order of Jobs; they begin in any order.                *)
(***************************************************************************)
Jobs == <<"select", "upsert", "reject", "skip", "cancel", "withdraw", "start", "complete",
          "collect", "heartbeat", "online", "offline", "presence", "sweep">>

Having(table, statuses) == {p \in Pairs : db[<<table, p>>].is \in statuses}
Shown == {p \in Pairs : db[OppRow(p)].is # "none"}

Arguments(job) ==
  CASE job \in {"select", "reject"} -> Having("offer", {"pending"})
    [] job \in {"upsert", "skip"} -> Having("opp", {"open"})
    [] job \in {"withdraw", "start", "complete", "collect"} -> Having("trip", ActiveTrip)
    [] job = "cancel" -> {<<p[1], NoDriver>> : p \in Shown}
    [] job \in {"heartbeat", "online", "offline", "presence"} -> {<<NoRide, p[2]>> : p \in Shown}
    [] job = "sweep" -> {<<NoRide, NoDriver>>}

Init ==
  /\ db \in Openings
  /\ work = [t \in Tx |-> NoWrites]
  /\ holder = [row \in Rows |-> NoTx]
  /\ waits = [t \in Tx |-> NoRow]
  /\ now = 0
  /\ \E which \in [Tx -> 1..Len(Jobs)] :
       /\ \A t, u \in Tx : t < u => which[t] <= which[u]
       /\ \E arg \in [Tx -> UNION {Arguments(Jobs[which[t]]) : t \in Tx}] :
            /\ \A t \in Tx : arg[t] \in Arguments(Jobs[which[t]])
            /\ tx = [t \in Tx |-> [Ended EXCEPT !.job = Jobs[which[t]],
                                                !.r = arg[t][1], !.d = arg[t][2]]]

Begin(t) ==
  LET q == tx[t]
      begun == [q EXCEPT !.start = IF q.job = "heartbeat" THEN now ELSE 0]
  IN  /\ q.job # "none" /\ q.pc = 0
      /\ tx' = [tx EXCEPT ![t] = At(begun, 1, db)]
      /\ UNCHANGED <<db, work, holder, waits, now>>

\* A free row is locked, read again and written.
Take(t, row) ==
  LET q == tx[t]
      v == View(t)[row]
      s == Statement(q)
  IN  /\ holder[row] \in {NoTx, t}
      /\ waits[t] \in {NoRow, row}
      /\ holder' = [holder EXCEPT ![row] = t]
      /\ waits' = [waits EXCEPT ![t] = NoRow]
      /\ tx' = [tx EXCEPT ![t].todo = @ \ {row}]
      /\ work' = IF Matches(s, v, q.stamp) /\ s.to # "same"
                 THEN [work EXCEPT ![t] = [x \in DOMAIN work[t] \cup {row} |->
                                            IF x = row THEN Written(q, v) ELSE work[t][x]]]
                 ELSE work
      /\ UNCHANGED <<db, now>>

\* The row is locked by another transaction: wait for it.
Await(t, row) ==
  /\ holder[row] \notin {NoTx, t}
  /\ waits[t] = NoRow
  /\ Statement(tx[t]).of # "unlocked"
  /\ waits' = [waits EXCEPT ![t] = row]
  /\ UNCHANGED <<db, work, holder, tx, now>>

\* SKIP LOCKED.
PassOver(t, row) ==
  /\ holder[row] \notin {NoTx, t}
  /\ Statement(tx[t]).of = "unlocked"
  /\ tx' = [tx EXCEPT ![t].todo = @ \ {row}]
  /\ UNCHANGED <<db, work, holder, waits, now>>

Release(t) ==
  /\ holder' = [row \in Rows |-> IF holder[row] = t THEN NoTx ELSE holder[row]]
  /\ waits' = [waits EXCEPT ![t] = NoRow]
  /\ work' = [work EXCEPT ![t] = NoWrites]
  /\ UNCHANGED now

Commit(t) == db' = View(t) /\ Release(t)

\* A transaction commits at its end, the sweep after every statement.
Advance(t) ==
  LET q == tx[t]
      last == q.pc = Len(Program[q.job]) \/ ~Passes(t)
  IN  /\ q.pc > 0
      /\ q.todo = {}
      /\ Passes(t) \/ DoneBefore(t)
      /\ tx' = [tx EXCEPT ![t] = IF last THEN Ended ELSE At(q, q.pc + 1, View(t))]
      /\ IF last \/ q.job = "sweep"
         THEN Commit(t)
         ELSE UNCHANGED <<db, work, holder, waits, now>>

\* Wrong: a failed handler returns without rolling back.
Abandon(t) == tx' = [tx EXCEPT ![t] = Ended] /\ UNCHANGED <<db, work, holder, waits, now>>

Rollback(t) == tx' = [tx EXCEPT ![t] = Ended] /\ UNCHANGED db /\ Release(t)

Refuse(t) ==
  /\ tx[t].pc > 0
  /\ tx[t].todo = {}
  /\ ~Passes(t) /\ ~DoneBefore(t)
  /\ Rollback(t)

\* The request is cancelled, the connection is lost, a statement fails.
Fail(t) == tx[t].pc > 0 /\ Rollback(t)

\* deadlock_timeout: one of the transactions that wait in a ring is aborted.
InRing(t) ==
  TransitiveClosure([x, y \in Tx |-> waits[x] # NoRow /\ holder[waits[x]] = y], Tx)[t, t]

BreakDeadlock(t) == InRing(t) /\ Rollback(t)

Tick ==
  /\ now < MaxNow
  /\ now' = now + 1
  /\ UNCHANGED <<db, work, holder, waits, tx>>

\* Every request is answered.
Rest ==
  /\ now = MaxNow
  /\ \A t \in Tx : tx[t] = Ended
  /\ UNCHANGED vars

Work(t) ==
  \/ Advance(t)
  \/ Refuse(t)
  \/ BreakDeadlock(t)
  \/ \E row \in tx[t].todo : Take(t, row) \/ Await(t, row) \/ PassOver(t, row)

Next ==
  \/ \E t \in Tx : Begin(t) \/ Work(t) \/ Fail(t)
  \/ Tick
  \/ Rest

(***************************************************************************)
(* A transaction that was begun and can go on does: the server runs it,    *)
(* lock queues are first come first served and deadlocks are detected.  No *)
(* request has to arrive, nothing has to fail, the clock need not move.    *)
(***************************************************************************)
Spec == Init /\ [][Next]_vars /\ \A t \in Tx : WF_vars(Work(t))

-----------------------------------------------------------------------------
\* The ride of the contract that the rows stand for.
WinnerOf(r, rows) ==
  IF Tripless(r, rows) THEN NoDriver
                       ELSE CHOOSE d \in Drivers : rows[TripRow(<<r, d>>)].is # "none"

PhaseOf(r, rows) ==
  LET is == rows[RideRow(r)].is
      trip == rows[TripRow(<<r, WinnerOf(r, rows)>>)].is
  IN  CASE is = "requested" -> "open"
        [] is = "accepted" /\ WinnerOf(r, rows) # NoDriver ->
             IF trip = "in_progress" THEN "riding" ELSE trip
        [] OTHER -> is

Winner == [r \in Rides |-> WinnerOf(r, db)]
Phase == [r \in Rides |-> PhaseOf(r, db)]

Contract == INSTANCE RideContract WITH phase <- Phase, driver <- Winner

(***************************************************************************)
(* Whatever statements interleave, wait, fail or deadlock, each commit     *)
(* moves the rides as the contract allows: at most one ride moves, by a    *)
(* legal move, and the others at most lapse.                               *)
(***************************************************************************)
TxImplementsContract == [][db' # db => [Contract!Next]_(Contract!vars)]_vars

(***************************************************************************)
(* The committed tables agree: an accepted ride has one trip, whose driver *)
(* holds the accepted offer and opportunity; a ride that has not been      *)
(* accepted has none of the three; a trip is cancelled with its ride, and  *)
(* only with it; an accepted or cancelled ride leaves no offer waiting for *)
(* an answer; a pending offer is the answer to an opportunity, unless the  *)
(* ride lapsed; an offer and its opportunity are rejected together.        *)
(***************************************************************************)
CommittedRowsAgree == \A r \in Rides : RideAgrees(r, db)

(***************************************************************************)
(* However long its handler waited for locks, a trip is assigned before    *)
(* the ride's deadline, to a driver who at that commit is online and has   *)
(* no other trip under way, and whose location was fresh when the handler  *)
(* looked, which it did after its last wait for the driver.                *)
(***************************************************************************)
AssignedInTime ==
  [][db' # db => \A r \in Rides, d \in Drivers :
       LET p == <<r, d>>
       IN  (db[TripRow(p)].is = "none" /\ db'[TripRow(p)].is = "assigned") =>
             /\ db'[TripRow(p)].at < db[RideRow(r)].at
             /\ db[ProfileRow(d)].is = "online"
             /\ ~Driving(d, db)
             /\ \E t \in Tx :
                  /\ tx[t].job = "select" /\ <<tx[t].r, tx[t].d>> = p /\ tx'[t] = Ended
                  /\ Fresh(db[ProfileRow(d)], tx[t].judged)]_vars

\* Transaction t cannot go on before another one ends.
Blocked(t) == waits[t] # NoRow /\ holder[waits[t]] \notin {NoTx, t}

(***************************************************************************)
(* Who is blocked still needs the row, and whoever has it is at work: no   *)
(* lock outlives its handler, and no wait outlasts the need for it.  What  *)
(* is left to stop a handler is a ring of waits, which the server breaks.  *)
(***************************************************************************)
BlockedByRunning ==
  \A t \in Tx : Blocked(t) =>
    /\ waits[t] \in tx[t].todo
    /\ holder[waits[t]] \in Tx /\ tx[holder[waits[t]]].pc > 0

(***************************************************************************)
(* Every handler ends: it commits, fails or is chosen as the victim of a   *)
(* deadlock; none waits for ever.                                          *)
(***************************************************************************)
HandlersEnd == \A t \in Tx : tx[t].pc > 0 ~> tx[t] = Ended
=============================================================================
