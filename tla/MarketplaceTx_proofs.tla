------------------------ MODULE MarketplaceTx_proofs ------------------------
(***************************************************************************)
(* What the statements of the marketplace leave behind, for every number   *)
(* of rides, drivers and connections.                                      *)
(*                                                                         *)
(* A transaction is described by its record q, the rows w it has written,  *)
(* the committed rows base below them and the rows h it has locked.  What is *)
(* said of one transaction is an operator of these four values, so that    *)
(* the lemmas about a statement are about values and not about steps.      *)
(***************************************************************************)
EXTENDS MarketplaceTx, TLAPS

\* The handlers that decide a ride, move a trip, or write a driver's profile.
OnRide == {"select", "upsert", "reject", "cancel", "withdraw"}
OnTrip == {"start", "complete", "collect"}
OnProfile == {"heartbeat", "online", "offline", "presence"}
Kinds == {"none", "skip", "sweep"} \cup OnRide \cup OnTrip \cup OnProfile

\* How many statements each runs.
Length == [none |-> 0, select |-> 17, upsert |-> 12, reject |-> 10, skip |-> 7, cancel |-> 12,
           withdraw |-> 12, start |-> 2, complete |-> 2, collect |-> 2, heartbeat |-> 3,
           online |-> 3, offline |-> 2, presence |-> 2, sweep |-> 6]

\* A row of some table, or none.
RowType == [is : Existing \cup {"none"}, at : Int]

-----------------------------------------------------------------------------
(***************************************************************************)
(* The inductive invariant, in the parts that concern one transaction.     *)
(***************************************************************************)
\* The record of a transaction, and its arguments.
Shaped(q) ==
  /\ q \in [job : Kinds, r : Rides \cup {NoRide}, d : Drivers \cup {NoDriver}, pc : Nat,
            todo : SUBSET Rows, stamp : Int, start : Int, judged : Int]
  /\ q.pc <= Length[q.job]
  /\ q.job \in OnRide \cup OnTrip \cup {"skip"} => q.r \in Rides
  /\ q.job \in (OnRide \ {"cancel"}) \cup OnTrip \cup OnProfile \cup {"skip"} => q.d \in Drivers
  /\ q.pc = 0 => q.todo = {}

\* Only locked rows are written, and with what their table may hold.
Writes(q, w, h) ==
  /\ DOMAIN w \subseteq Rows \cap h
  /\ \A row \in DOMAIN w : w[row] \in RowType /\ w[row].is \in Statuses[row[1]]
  /\ q.pc = 0 => DOMAIN w = {}

\* The rows a statement has still to take were picked by its scope, and the
\* rows that made it pick them are as they were.
Targets(q, w, base) ==
  \A row \in q.todo :
    LET s == Statement(q)
        view == Overlay(w, base)
    IN  /\ row[1] = s.on
        /\ s.of \in {"own", "rideOpen", "unlocked", "unfresh"} => row = OwnRow(s.on, q)
        /\ s.of = "ofRide" => row[2][1] = q.r
        /\ s.of = "rivals" => row[2][1] = q.r /\ row[2][2] # q.d
        /\ s.of = "offerExpired" => view[OfferRow(row[2])].is = "expired"
        /\ s.of = "decided" => view[RideRow(row[2][1])].is \in Decided

\* Transaction q is through with a row in statement n.
Past(q, row, n) == q.pc > n \/ (q.pc = n /\ row \notin q.todo)

\* The changes a transaction may have made so far, table by table.
OfferMove(q, w, base, r, d) ==
  LET old == base[OfferRow(<<r, d>>)].is
      new == w[OfferRow(<<r, d>>)].is
  IN  \/ old = "pending" /\ new = "expired"
      \/ old = "pending" /\ new = "closed" /\ Overlay(w, base)[RideRow(r)].is \in Decided
      \/ /\ q.r = r /\ q.d = d /\ q.pc >= 9
         /\ \/ q.job = "select" /\ old = "pending" /\ new = "accepted"
            \/ q.job = "upsert" /\ old = "none" /\ new = "pending"
            \/ q.job = "reject" /\ old = "pending" /\ new = "rejected"

OppMove(q, w, base, r, d) ==
  LET old == base[OppRow(<<r, d>>)].is
      new == w[OppRow(<<r, d>>)].is
  IN  \/ old = "open" /\ new \in {"window_expired", "driver_skipped"}
      \/ /\ old = "offered" /\ new = "offer_expired"
         /\ Overlay(w, base)[OfferRow(<<r, d>>)].is = "expired"
      \/ /\ old \in {"open", "offered"} /\ new = "closed"
         /\ Overlay(w, base)[RideRow(r)].is \in Decided
      \/ /\ q.r = r /\ q.d = d /\ q.pc >= 9
         /\ \/ q.job = "select" /\ old = "offered" /\ new = "accepted"
            \/ q.job = "upsert" /\ old = "open" /\ new = "offered"
            \/ q.job = "reject" /\ old = "offered" /\ new = "rider_rejected"

RideMove(q, w, base, r) ==
  LET old == base[RideRow(r)].is
      new == w[RideRow(r)].is
  IN  /\ w[RideRow(r)].at = base[RideRow(r)].at
      /\ \/ old = "requested" /\ new = "expired"
         \/ /\ q.r = r /\ q.pc >= 9
            /\ \/ q.job = "select" /\ old = "requested" /\ new = "accepted"
               \/ q.job \in {"cancel", "withdraw"} /\ old \in {"requested", "accepted"}
                    /\ new = "cancelled"

TripMove(q, w, base, r, d) ==
  LET old == base[TripRow(<<r, d>>)].is
      new == w[TripRow(<<r, d>>)].is
  IN  /\ q.r = r
      /\ \/ /\ q.job = "select" /\ q.d = d /\ Past(q, TripRow(<<r, d>>), 14)
            /\ old = "none" /\ new = "assigned"
         \/ /\ q.job \in {"cancel", "withdraw"} /\ q.pc >= 10
            /\ old \in ActiveTrip /\ new = "cancelled"
         \/ q.job = "start" /\ q.d = d /\ old = "assigned" /\ new = "in_progress"
         \/ q.job = "complete" /\ q.d = d /\ old = "in_progress" /\ new = "completed"
         \/ q.job = "collect" /\ q.d = d /\ old = "completed" /\ new = "settled"

Moves(q, w, base) ==
  /\ \A r \in Rides : RideRow(r) \in DOMAIN w => RideMove(q, w, base, r)
  /\ \A r \in Rides, d \in Drivers :
       /\ OfferRow(<<r, d>>) \in DOMAIN w => OfferMove(q, w, base, r, d)
       /\ OppRow(<<r, d>>) \in DOMAIN w => OppMove(q, w, base, r, d)
       /\ TripRow(<<r, d>>) \in DOMAIN w => TripMove(q, w, base, r, d)
  /\ \A d \in Drivers : ProfileRow(d) \in DOMAIN w =>
       q.job \in OnProfile /\ base[ProfileRow(d)].is # "none"

\* The row is locked by the transaction, or there is none.
Held(w, base, h, row) == row \in h \/ Overlay(w, base)[row].is = "none"

\* What the handlers have locked and seen by the statement they are at.
RideHeld(q, w, base, h) ==
  /\ Past(q, RideRow(q.r), 7) => Held(w, base, h, RideRow(q.r))
  /\ q.pc >= 9 => RideRow(q.r) \in h

SelectSoFar(q, w, base, h) ==
  LET view == Overlay(w, base)
      p == <<q.r, q.d>>
      ride == view[RideRow(q.r)]
  IN  /\ Past(q, OfferRow(p), 8) => Held(w, base, h, OfferRow(p))
      /\ Past(q, OppRow(p), 9) => Held(w, base, h, OppRow(p))
      /\ Past(q, ProfileRow(q.d), 10) => Held(w, base, h, ProfileRow(q.d))
      /\ q.pc \in 8..14 => ride.is = "requested"
      /\ q.pc = 15 => ride.is \in {"requested", "accepted"}
      /\ q.pc >= 16 => ride.is = "accepted" /\ RideRow(q.r) \in DOMAIN w
      /\ q.pc >= 9 => view[OfferRow(p)].is =
                        IF Past(q, OfferRow(p), 12) THEN "accepted" ELSE "pending"
      /\ q.pc >= 10 => view[OppRow(p)].is =
                        IF Past(q, OppRow(p), 13) THEN "accepted" ELSE "offered"
      /\ q.pc = 11 => q.judged = q.stamp
      /\ q.pc >= 12 => /\ view[ProfileRow(q.d)].is = "online"
                       /\ Fresh(view[ProfileRow(q.d)], q.judged)
      /\ Past(q, TripRow(p), 14) => /\ TripRow(p) \in DOMAIN w
                                    /\ view[TripRow(p)].is = "assigned"
                                    /\ view[TripRow(p)].at <= q.stamp
      /\ q.pc >= 15 => /\ \A r \in Rides \ {q.r} : base[TripRow(<<r, q.d>>)].is \notin ActiveTrip
                       /\ ride.is = "accepted" => view[TripRow(p)].at < ride.at
      /\ \A d \in Drivers \ {q.d} :
           /\ Past(q, OfferRow(<<q.r, d>>), 16) => view[OfferRow(<<q.r, d>>)].is # "pending"
           /\ Past(q, OppRow(<<q.r, d>>), 17) => view[OppRow(<<q.r, d>>)].is # "offered"

UpsertSoFar(q, w, base, h) ==
  LET view == Overlay(w, base)
      p == <<q.r, q.d>>
  IN  /\ Past(q, OppRow(p), 8) => Held(w, base, h, OppRow(p))
      /\ q.pc >= 8 => view[RideRow(q.r)].is = "requested"
      /\ q.pc >= 9 => view[OppRow(p)].is = IF Past(q, OppRow(p), 12) THEN "offered" ELSE "open"
      /\ q.pc >= 12 => view[OfferRow(p)].is = "pending" /\ OfferRow(p) \in h

RejectSoFar(q, w, base, h) ==
  LET view == Overlay(w, base)
      p == <<q.r, q.d>>
  IN  /\ Past(q, OfferRow(p), 8) => Held(w, base, h, OfferRow(p))
      /\ q.pc >= 8 => view[RideRow(q.r)].is = "requested"
      /\ q.pc >= 9 => /\ view[OfferRow(p)].is =
                           IF Past(q, OfferRow(p), 9) THEN "rejected" ELSE "pending"
                      /\ view[OppRow(p)].is =
                           IF Past(q, OppRow(p), 10) THEN "rider_rejected" ELSE "offered"

CancelSoFar(q, w, base, h) ==
  LET view == Overlay(w, base)
      ride == view[RideRow(q.r)].is
  IN  /\ q.pc >= 9 => IF Past(q, RideRow(q.r), 9) THEN ride = "cancelled"
                                                  ELSE ride \in {"requested", "accepted"}
      /\ \A d \in Drivers :
           LET trip == TripRow(<<q.r, d>>)
           IN  /\ Past(q, trip, 8) /\ (q.job = "cancel" \/ q.d = d) => Held(w, base, h, trip)
               /\ q.pc >= 9 => /\ Held(w, base, h, trip)
                               /\ IF Past(q, trip, 10)
                                  THEN view[trip].is \in {"none", "cancelled"}
                                  ELSE view[trip].is \in {"none"} \cup ActiveTrip
               /\ Past(q, OfferRow(<<q.r, d>>), 11) => view[OfferRow(<<q.r, d>>)].is # "pending"
               /\ Past(q, OppRow(<<q.r, d>>), 12) => view[OppRow(<<q.r, d>>)].is # "offered"

SoFar(q, w, base, h) ==
  /\ q.job \in OnRide => RideHeld(q, w, base, h)
  /\ q.job = "select" => SelectSoFar(q, w, base, h)
  /\ q.job = "upsert" => UpsertSoFar(q, w, base, h)
  /\ q.job = "reject" => RejectSoFar(q, w, base, h)
  /\ q.job \in {"cancel", "withdraw"} => CancelSoFar(q, w, base, h)

\* A transaction is as it should be.
Good(q, w, base, h) ==
  /\ Shaped(q)
  /\ Writes(q, w, h)
  /\ Targets(q, w, base)
  /\ Moves(q, w, base)
  /\ SoFar(q, w, base, h)

Locked(t) == {row \in Rows : holder[row] = t}

\* The inductive invariant.
Inv ==
  /\ DOMAIN tx = Tx /\ DOMAIN work = Tx /\ holder \in [Rows -> Tx \cup {NoTx}]
  /\ db \in Tables
  /\ now \in Nat
  /\ \A r \in Rides : RideAgrees(r, db)
  /\ \A t \in Tx : tx[t].stamp <= now /\ Good(tx[t], work[t], db, Locked(t))

-----------------------------------------------------------------------------
(***************************************************************************)
(* Rows.                                                                   *)
(***************************************************************************)
\* A row tells its table and its key.
LEMMA RowParts ==
  /\ \A r : RideRow(r)[1] = "ride" /\ RideRow(r)[2] = r
  /\ \A d : ProfileRow(d)[1] = "profile" /\ ProfileRow(d)[2] = d
  /\ \A p : /\ OfferRow(p)[1] = "offer" /\ OfferRow(p)[2] = p
            /\ OppRow(p)[1] = "opp" /\ OppRow(p)[2] = p
            /\ TripRow(p)[1] = "trip" /\ TripRow(p)[2] = p
BY DEF RideRow, ProfileRow, OfferRow, OppRow, TripRow

\* The rows of the tables.
LEMMA RowsAre ==
  /\ \A r \in Rides : RideRow(r) \in Rows
  /\ \A d \in Drivers : ProfileRow(d) \in Rows
  /\ \A r \in Rides, d \in Drivers :
       OfferRow(<<r, d>>) \in Rows /\ OppRow(<<r, d>>) \in Rows /\ TripRow(<<r, d>>) \in Rows
BY DEF Rows, Pairs, RideRow, ProfileRow, OfferRow, OppRow, TripRow

\* There are no others.
LEMMA RowKinds ==
  ASSUME NEW row \in Rows
  PROVE  \/ \E r \in Rides : row = RideRow(r)
         \/ \E d \in Drivers : row = ProfileRow(d)
         \/ \E r \in Rides, d \in Drivers :
              row \in {OfferRow(<<r, d>>), OppRow(<<r, d>>), TripRow(<<r, d>>)}
BY DEF Rows, Pairs, RideRow, ProfileRow, OfferRow, OppRow, TripRow

\* A row is of one of the five tables.
LEMMA RowTables == \A row \in Rows : row[1] \in {"ride", "opp", "offer", "trip", "profile"}
BY DEF Rows, RideRow, ProfileRow

\* The row of a table that belongs to a transaction.
LEMMA OwnRowIs ==
  ASSUME NEW q
  PROVE  /\ OwnRow("ride", q) = RideRow(q.r)
         /\ OwnRow("profile", q) = ProfileRow(q.d)
         /\ OwnRow("offer", q) = OfferRow(<<q.r, q.d>>)
         /\ OwnRow("opp", q) = OppRow(<<q.r, q.d>>)
         /\ OwnRow("trip", q) = TripRow(<<q.r, q.d>>)
BY DEF OwnRow, OfferRow, OppRow, TripRow

\* What a transaction sees of a row.
LEMMA Sees ==
  ASSUME NEW w, NEW base, NEW row \in Rows
  PROVE  Overlay(w, base)[row] = IF row \in DOMAIN w THEN w[row] ELSE base[row]
BY DEF Overlay

-----------------------------------------------------------------------------
(***************************************************************************)
(* The text of the programs.                                               *)
(***************************************************************************)
Expiring == {"skip", "sweep"} \cup OnRide

\* The six statements of the sweep.
LEMMA ExpireIs ==
  /\ Len(Expire) = 6
  /\ Expire[1] = Update("offer", "all", {"pending"}, "past", "expired", "none")
  /\ Expire[2] = Update("opp", "offerExpired", {"offered"}, "always", "offer_expired", "none")
  /\ Expire[3] = Update("opp", "all", {"open"}, "past", "window_expired", "none")
  /\ Expire[4] = Update("ride", "tripless", {"requested"}, "past", "expired", "none")
  /\ Expire[5] = Set("offer", "decided", {"pending"}, "closed")
  /\ Expire[6] = Set("opp", "decided", {"open", "offered"}, "closed")
BY DEF Expire

\* Every program is as long as it says, and the marketplace handlers begin
\* with the sweep.
LEMMA Lengths == \A job \in Kinds : Len(Program[job]) = Length[job]
<1> USE DEF Program, Length
<1>1. Len(Program["select"]) = Length["select"]
  BY DEF SelectOffer, Expire, LockEligible, CloseCompeting
<1>2. Len(Program["upsert"]) = Length["upsert"]
  BY DEF UpsertOffer, Expire, LockEligible
<1>3. Len(Program["reject"]) = Length["reject"]
  BY DEF RejectOffer, Expire
<1>4. Len(Program["skip"]) = Length["skip"]
  BY DEF SkipOpportunity, Expire
<1>5. /\ Len(Program["cancel"]) = Length["cancel"]
      /\ Len(Program["withdraw"]) = Length["withdraw"]
  BY DEF Cancel, Expire
<1>6. Len(Program["sweep"]) = Length["sweep"]
  BY DEF Expire
<1>7. /\ Len(Program["start"]) = Length["start"]
      /\ Len(Program["complete"]) = Length["complete"]
      /\ Len(Program["collect"]) = Length["collect"]
  BY DEF MoveTrip
<1>8. /\ Len(Program["heartbeat"]) = Length["heartbeat"]
      /\ Len(Program["online"]) = Length["online"]
      /\ Len(Program["offline"]) = Length["offline"]
      /\ Len(Program["presence"]) = Length["presence"]
  BY DEF UpsertCurrent, GoOnline, GoOffline, ExpirePresence
<1>9. Len(Program["none"]) = Length["none"]
  OBVIOUS
<1> HIDE DEF Program, Length
<1>10. QED
  BY <1>1, <1>2, <1>3, <1>4, <1>5, <1>6, <1>7, <1>8, <1>9 DEF Kinds, OnRide, OnTrip, OnProfile

\* The statements that a handler runs for the sweep.
LEMMA ExpireText ==
  ASSUME NEW q, q.job \in Expiring, q.pc \in 1..6
  PROVE  Statement(q) = Expire[q.pc]
<1> USE DEF Statement, Program, Expiring, OnRide
<1>1. CASE q.job = "select"
  BY <1>1 DEF SelectOffer, Expire
<1>2. CASE q.job = "upsert"
  BY <1>2 DEF UpsertOffer, Expire
<1>3. CASE q.job = "reject"
  BY <1>3 DEF RejectOffer, Expire
<1>4. CASE q.job = "skip"
  BY <1>4 DEF SkipOpportunity, Expire
<1>5. CASE q.job = "cancel"
  BY <1>5 DEF Cancel, Expire
<1>6. CASE q.job = "withdraw"
  BY <1>6 DEF Cancel, Expire
<1>7. CASE q.job = "sweep"
  BY <1>7 DEF Expire
<1>8. QED BY <1>1, <1>2, <1>3, <1>4, <1>5, <1>6, <1>7

\* The statements of SelectOffer after the sweep.
LEMMA SelectText ==
  ASSUME NEW q, q.job = "select"
  PROVE  /\ q.pc = 7 => Statement(q) = Lock("ride", "rideOpen")
         /\ q.pc = 8 => Statement(q) = Lock("offer", "offerActionable")
         /\ q.pc = 9 => Statement(q) = Lock("opp", "oppOffered")
         /\ q.pc = 10 => Statement(q) = Lock("profile", "none")
         /\ q.pc = 11 => Statement(q) = Read("eligible")
         /\ q.pc = 12 => Statement(q) = Set("offer", "own", Existing, "accepted")
         /\ q.pc = 13 => Statement(q) = Set("opp", "own", {"offered"}, "accepted")
         /\ q.pc = 14 => Statement(q) = Update("trip", "own", {"none"}, "always",
                                               "assigned", "driverFree")
         /\ q.pc = 15 => Statement(q) = MarkRideAccepted
         /\ q.pc = 16 => Statement(q) = Set("offer", "rivals", {"pending"}, "closed")
         /\ q.pc = 17 => Statement(q) = Set("opp", "rivals", {"open", "offered"}, "closed")
BY DEF Statement, Program, SelectOffer, Expire, LockEligible, CloseCompeting

\* Those of Upsert.
LEMMA UpsertText ==
  ASSUME NEW q, q.job = "upsert"
  PROVE  /\ q.pc = 7 => Statement(q) = Lock("ride", "rideOpen")
         /\ q.pc = 8 => Statement(q) = Lock("opp", "oppVisible")
         /\ q.pc = 9 => Statement(q) = Lock("profile", "none")
         /\ q.pc = 10 => Statement(q) = Read("eligible")
         /\ q.pc = 11 => Statement(q) = Update("offer", "own", {"none"}, "always",
                                               "pending", "changed")
         /\ q.pc = 12 => Statement(q) = Set("opp", "own", {"open"}, "offered")
BY DEF Statement, Program, UpsertOffer, Expire, LockEligible

\* Those of Reject.
LEMMA RejectText ==
  ASSUME NEW q, q.job = "reject"
  PROVE  /\ q.pc = 7 => Statement(q) = Lock("ride", "rideOpen")
         /\ q.pc = 8 => Statement(q) = Lock("offer", "offerPending")
         /\ q.pc = 9 => Statement(q) = Set("offer", "own", Existing, "rejected")
         /\ q.pc = 10 => Statement(q) = Set("opp", "own", {"offered"}, "rider_rejected")
BY DEF Statement, Program, RejectOffer, Expire

\* That of Skip.
LEMMA SkipText ==
  ASSUME NEW q, q.job = "skip", q.pc = 7
  PROVE  Statement(q) = Update("opp", "rideOpen", {"open"}, "ahead", "driver_skipped", "changed")
BY DEF Statement, Program, SkipOpportunity, Expire

\* Those of both cancellations.
LEMMA CancelText ==
  ASSUME NEW q, q.job \in {"cancel", "withdraw"}
  PROVE  /\ q.pc = 7 => Statement(q) = Lock("ride", "none")
         /\ q.pc = 8 /\ q.job = "cancel" => Statement(q) = LockIn("trip", "ofRide", "cancellable")
         /\ q.pc = 8 /\ q.job = "withdraw" => Statement(q) = LockIn("trip", "own", "ownCancellable")
         /\ q.pc = 9 => Statement(q) = Set("ride", "own", Existing, "cancelled")
         /\ q.pc = 10 => Statement(q) = Set("trip", "ofRide", Existing, "cancelled")
         /\ q.pc = 11 => Statement(q) = Set("offer", "ofRide", {"pending"}, "closed")
         /\ q.pc = 12 => Statement(q) = Set("opp", "ofRide", {"open", "offered"}, "closed")
BY DEF Statement, Program, Cancel, Expire

\* Those of Start, Complete and ConfirmCashCollected.
LEMMA TripText ==
  ASSUME NEW q, q.job \in OnTrip
  PROVE  /\ q.pc = 1 => Statement(q) = Lock("trip", "tripMovable")
         /\ q.pc = 2 /\ q.job = "start" =>
              Statement(q) = Set("trip", "own", {"assigned"}, "in_progress")
         /\ q.pc = 2 /\ q.job = "complete" =>
              Statement(q) = Set("trip", "own", {"in_progress"}, "completed")
         /\ q.pc = 2 /\ q.job = "collect" =>
              Statement(q) = Set("trip", "own", {"completed"}, "settled")
BY DEF Statement, Program, MoveTrip, OnTrip

\* Those about a driver's profile.
LEMMA ProfileText ==
  ASSUME NEW q, q.job \in OnProfile, q.pc \in 1..Length[q.job]
  PROVE  /\ Statement(q).on \in {"profile", "nothing"}
         /\ Statement(q).of \in {"own", "unfresh", "unlocked"}
         /\ Statement(q).to \in {"same", "located", "online", "offline"}
         /\ "none" \notin Statement(q).from
<1> USE DEF Statement, Program, OnProfile, Length, Set, Lock, LockIn, Read, Update, Existing
<1>1. CASE q.job = "heartbeat" BY <1>1 DEF UpsertCurrent
<1>2. CASE q.job = "online" BY <1>2 DEF GoOnline
<1>3. CASE q.job = "offline" BY <1>3 DEF GoOffline
<1>4. CASE q.job = "presence" BY <1>4 DEF ExpirePresence
<1>5. QED BY <1>1, <1>2, <1>3, <1>4

\* A statement's place among the programs.
LEMMA Place ==
  ASSUME NEW q, Shaped(q), q.pc > 0
  PROVE  \/ q.job \in Expiring /\ q.pc \in 1..6
         \/ q.job = "select" /\ q.pc \in 7..17
         \/ q.job = "upsert" /\ q.pc \in 7..12
         \/ q.job = "reject" /\ q.pc \in 7..10
         \/ q.job \in {"cancel", "withdraw"} /\ q.pc \in 7..12
         \/ q.job = "skip" /\ q.pc = 7
         \/ q.job \in OnTrip /\ q.pc \in 1..2
         \/ q.job \in OnProfile /\ q.pc \in 1..Length[q.job]
<1>1. q.job \in Kinds /\ q.pc \in Nat /\ q.pc <= Length[q.job]
  BY DEF Shaped
<1>2. CASE q.job \in Expiring
  BY <1>1, <1>2 DEF Expiring, OnRide, Length
<1>3. CASE q.job \in OnTrip
  BY <1>1, <1>3 DEF OnTrip, Length
<1>4. CASE q.job \in OnProfile
  BY <1>1, <1>4 DEF OnProfile, Length
<1>5. CASE q.job = "none"
  BY <1>1, <1>5 DEF Length
<1>6. QED BY <1>1, <1>2, <1>3, <1>4, <1>5 DEF Kinds, Expiring

\* The statements on offers.
LEMMA OfferStatements ==
  ASSUME NEW q, Shaped(q), q.pc > 0, Statement(q).on = "offer", Statement(q).to # "same"
  PROVE  LET s == Statement(q)
         IN  \/ q.pc = 1 /\ s.of = "all" /\ s.from = {"pending"} /\ s.to = "expired"
             \/ q.pc = 5 /\ s.of = "decided" /\ s.from = {"pending"} /\ s.to = "closed"
             \/ q.job = "select" /\ q.pc = 12 /\ s.of = "own" /\ s.to = "accepted"
             \/ q.job = "upsert" /\ q.pc = 11 /\ s.of = "own" /\ s.from = {"none"} /\ s.to = "pending"
             \/ q.job = "reject" /\ q.pc = 9 /\ s.of = "own" /\ s.to = "rejected"
             \/ /\ q.job = "select" /\ q.pc = 16 /\ s.of = "rivals"
                /\ s.from = {"pending"} /\ s.to = "closed"
             \/ /\ q.job \in {"cancel", "withdraw"} /\ q.pc = 11 /\ s.of = "ofRide"
                /\ s.from = {"pending"} /\ s.to = "closed"
BY Place, ExpireText, ExpireIs, SelectText, UpsertText, RejectText, SkipText, CancelText, TripText,
   ProfileText DEF Set, Lock, LockIn, Read, Update, MarkRideAccepted, OnTrip

\* The statements on opportunities.
LEMMA OppStatements ==
  ASSUME NEW q, Shaped(q), q.pc > 0, Statement(q).on = "opp", Statement(q).to # "same"
  PROVE  LET s == Statement(q)
         IN  \/ q.pc = 2 /\ s.of = "offerExpired" /\ s.from = {"offered"} /\ s.to = "offer_expired"
             \/ q.pc = 3 /\ s.of = "all" /\ s.from = {"open"} /\ s.to = "window_expired"
             \/ q.pc = 6 /\ s.of = "decided" /\ s.from = {"open", "offered"} /\ s.to = "closed"
             \/ /\ q.job = "skip" /\ q.pc = 7
                /\ s.of = "rideOpen" /\ s.from = {"open"} /\ s.to = "driver_skipped"
             \/ /\ q.job = "select" /\ q.pc = 13
                /\ s.of = "own" /\ s.from = {"offered"} /\ s.to = "accepted"
             \/ q.job = "upsert" /\ q.pc = 12 /\ s.of = "own" /\ s.from = {"open"} /\ s.to = "offered"
             \/ /\ q.job = "reject" /\ q.pc = 10 /\ s.of = "own"
                /\ s.from = {"offered"} /\ s.to = "rider_rejected"
             \/ /\ q.job = "select" /\ q.pc = 17 /\ s.of = "rivals"
                /\ s.from = {"open", "offered"} /\ s.to = "closed"
             \/ /\ q.job \in {"cancel", "withdraw"} /\ q.pc = 12 /\ s.of = "ofRide"
                /\ s.from = {"open", "offered"} /\ s.to = "closed"
BY Place, ExpireText, ExpireIs, SelectText, UpsertText, RejectText, SkipText, CancelText, TripText,
   ProfileText DEF Set, Lock, LockIn, Read, Update, MarkRideAccepted, OnTrip

\* The statements on rides.
LEMMA RideStatements ==
  ASSUME NEW q, Shaped(q), q.pc > 0, Statement(q).on = "ride", Statement(q).to # "same"
  PROVE  LET s == Statement(q)
         IN  \/ q.pc = 4 /\ s.of = "tripless" /\ s.from = {"requested"} /\ s.to = "expired"
             \/ /\ q.job = "select" /\ q.pc = 15 /\ s.of = "own" /\ s.from = {"requested"}
                /\ s.when = "ahead" /\ s.to = "accepted"
             \/ q.job \in {"cancel", "withdraw"} /\ q.pc = 9 /\ s.of = "own" /\ s.to = "cancelled"
BY Place, ExpireText, ExpireIs, SelectText, UpsertText, RejectText, SkipText, CancelText, TripText,
   ProfileText DEF Set, Lock, LockIn, Read, Update, MarkRideAccepted, OnTrip

\* The statements on trips.
LEMMA TripStatements ==
  ASSUME NEW q, Shaped(q), q.pc > 0, Statement(q).on = "trip", Statement(q).to # "same"
  PROVE  LET s == Statement(q)
         IN  \/ /\ q.job = "select" /\ q.pc = 14 /\ s.of = "own"
                /\ s.from = {"none"} /\ s.to = "assigned"
             \/ q.job \in {"cancel", "withdraw"} /\ q.pc = 10 /\ s.of = "ofRide" /\ s.to = "cancelled"
             \/ /\ q.job \in OnTrip /\ q.pc = 2 /\ s.of = "own"
                /\ \/ q.job = "start" /\ s.from = {"assigned"} /\ s.to = "in_progress"
                   \/ q.job = "complete" /\ s.from = {"in_progress"} /\ s.to = "completed"
                   \/ q.job = "collect" /\ s.from = {"completed"} /\ s.to = "settled"
BY Place, ExpireText, ExpireIs, SelectText, UpsertText, RejectText, SkipText, CancelText, TripText,
   ProfileText DEF Set, Lock, LockIn, Read, Update, MarkRideAccepted, OnTrip

\* The statements on profiles.
LEMMA ProfileStatements ==
  ASSUME NEW q, Shaped(q), q.pc > 0, Statement(q).on = "profile", Statement(q).to # "same"
  PROVE  /\ q.job \in OnProfile
         /\ Statement(q).to \in {"located", "online", "offline"}
         /\ "none" \notin Statement(q).from
BY Place, ExpireText, ExpireIs, SelectText, UpsertText, RejectText, SkipText, CancelText, TripText,
   ProfileText DEF Set, Lock, LockIn, Read, Update, MarkRideAccepted, OnTrip

\* There are no statements on anything else, and no scope but those.
LEMMA Statements ==
  ASSUME NEW q, Shaped(q), q.pc > 0
  PROVE  LET s == Statement(q)
         IN  /\ s.on \in {"ride", "opp", "offer", "trip", "profile", "nothing"}
             /\ s.of \in {"all", "own", "ofRide", "rivals", "offerExpired", "tripless", "decided",
                          "rideOpen", "unlocked", "unfresh"}
             /\ s.of = "offerExpired" => s.on = "opp"
             /\ s.of = "decided" => s.on \in {"offer", "opp"}
             /\ s.of \in {"ofRide", "rivals"} => s.on \in {"offer", "opp", "trip"}
             /\ s.of = "unlocked" => q.job \in OnProfile
<1>1. CASE q.job \in OnProfile
  BY <1>1, Place, ProfileText DEF OnProfile, OnTrip, Expiring, OnRide
<1>2. CASE q.job \notin OnProfile
  BY <1>2, Place, ExpireText, ExpireIs, SelectText, UpsertText, RejectText, SkipText, CancelText,
     TripText DEF Set, Lock, LockIn, Read, Update, MarkRideAccepted, OnTrip
<1>3. QED BY <1>1, <1>2

-----------------------------------------------------------------------------
(***************************************************************************)
(* A statement takes a row.                                                *)
(***************************************************************************)
Matching(q, w, base, row) ==
  Matches(Statement(q), Overlay(w, base)[row], q.stamp) /\ Statement(q).to # "same"

\* The writes of a transaction after a row is taken.
Wrote(q, w, base, row) ==
  IF Matching(q, w, base, row)
  THEN [x \in DOMAIN w \cup {row} |->
          IF x = row THEN Written(q, Overlay(w, base)[row]) ELSE w[x]]
  ELSE w

Taking(q, w, base, h, row, q2, w2, h2) ==
  /\ Good(q, w, base, h) /\ base \in Tables /\ \A r \in Rides : RideAgrees(r, base)
  /\ q.pc > 0 /\ row \in q.todo
  /\ q2 = [q EXCEPT !.todo = @ \ {row}]
  /\ w2 = Wrote(q, w, base, row)
  /\ h2 = h \cup {row}

\* What a transaction sees is typed.
LEMMA SeesTyped ==
  ASSUME NEW q, NEW w, NEW base \in Tables, NEW h, Writes(q, w, h), NEW row \in Rows
  PROVE  /\ Overlay(w, base)[row] \in RowType
         /\ Overlay(w, base)[row].is \in Statuses[row[1]]
BY Sees DEF Writes, Tables, RowType

\* The record of a transaction that has taken a row.
LEMMA TakenRecord ==
  ASSUME NEW q, Shaped(q), NEW row
  PROVE  LET q2 == [q EXCEPT !.todo = @ \ {row}]
         IN  /\ Shaped(q2)
             /\ q2.job = q.job /\ q2.r = q.r /\ q2.d = q.d /\ q2.pc = q.pc
             /\ q2.stamp = q.stamp /\ q2.judged = q.judged
             /\ q2.todo = q.todo \ {row}
             /\ Statement(q2) = Statement(q)
BY DEF Shaped, Statement

\* A row that does not match is left as it is.
LEMMA Unmatched ==
  ASSUME NEW q, NEW w, NEW base, NEW row, ~Matching(q, w, base, row)
  PROVE  Wrote(q, w, base, row) = w
BY DEF Wrote

\* A row that matches is written, and no other.
LEMMA Matched ==
  ASSUME NEW q, NEW w, NEW base, NEW row, Matching(q, w, base, row)
  PROVE  LET w2 == Wrote(q, w, base, row)
         IN  /\ \A x : x \in DOMAIN w2 <=> x \in DOMAIN w \/ x = row
             /\ w2[row] = Written(q, Overlay(w, base)[row])
             /\ \A x \in DOMAIN w : x # row => w2[x] = w[x]
<1>1. Wrote(q, w, base, row) = [x \in DOMAIN w \cup {row} |->
                                  IF x = row THEN Written(q, Overlay(w, base)[row]) ELSE w[x]]
  BY DEF Wrote
<1>2. QED BY <1>1

\* The transaction sees what it wrote, and the other rows as before.
LEMMA MatchedSees ==
  ASSUME NEW q, NEW w, NEW base, NEW row \in Rows, Matching(q, w, base, row)
  PROVE  Overlay(Wrote(q, w, base, row), base)[row] = Written(q, Overlay(w, base)[row])
BY Matched, Sees

\* The other rows are seen as before.
LEMMA OthersSeen ==
  ASSUME NEW q, NEW w, NEW base, NEW row \in Rows, NEW x \in Rows, x # row
  PROVE  /\ Overlay(Wrote(q, w, base, row), base)[x] = Overlay(w, base)[x]
         /\ x \in DOMAIN Wrote(q, w, base, row) <=> x \in DOMAIN w
<1>1. CASE ~Matching(q, w, base, row)
  BY <1>1, Unmatched
<1>2. CASE Matching(q, w, base, row)
  BY <1>2, Matched, Sees
<1>3. QED BY <1>1, <1>2

\* The new version of a row.
LEMMA WrittenIs ==
  ASSUME NEW q, NEW v, v \in RowType, q.stamp \in Int, q.start \in Int
  PROVE  LET s == Statement(q)
             new == Written(q, v)
         IN  /\ s.to \in {"same", "located"} => new.is = v.is
             /\ s.to \notin {"same", "located"} => new.is = s.to
             /\ new.at \in Int
             /\ s.to = "assigned" => new.at = q.stamp
             /\ s.to \notin {"located", "assigned", "pending"} => new.at = v.at
             /\ new.is \in Existing \cup {"none"} => new \in RowType
<1> DEFINE s == Statement(q)
           at == CASE s.to = "located" -> q.start
                   [] s.to = "assigned" -> q.stamp
                   [] s.to = "pending" -> q.stamp + OfferTTL
                   [] OTHER -> v.at
<1>1. /\ s.to = "located" => at = q.start
      /\ s.to = "assigned" => at = q.stamp
      /\ s.to = "pending" => at = q.stamp + OfferTTL
      /\ s.to \notin {"located", "assigned", "pending"} => at = v.at
  BY Zenon
<1>2. Written(q, v) = [is |-> IF s.to \in {"same", "located"} THEN v.is ELSE s.to, at |-> at]
  BY DEF Written
<1>3. v.at \in Int /\ v.is \in Existing \cup {"none"}
  BY DEF RowType
<1> HIDE DEF at, s
<1>4. at \in Int
  BY <1>1, <1>3, MarketplaceTxAssumption
<1>5. QED BY <1>1, <1>2, <1>3, <1>4 DEF RowType, s

\* What the tables may hold.
LEMMA StatusesAre ==
  /\ Statuses["ride"] = {"none", "requested", "accepted", "cancelled", "expired"}
  /\ Statuses["opp"] = {"none", "open", "offered", "accepted", "rider_rejected",
                        "driver_skipped", "window_expired", "offer_expired", "closed"}
  /\ Statuses["offer"] = {"none", "pending", "accepted", "rejected", "expired", "closed"}
  /\ Statuses["trip"] = {"none", "assigned", "in_progress", "completed", "settled", "cancelled"}
  /\ Statuses["profile"] = {"none", "online", "offline"}
BY DEF Statuses

\* What a table may hold is a status, or no row.
LEMMA ExistingAre ==
  \A table \in {"ride", "opp", "offer", "trip", "profile"} :
    Statuses[table] \subseteq Existing \cup {"none"}
<1>1. DOMAIN Statuses = {"ride", "opp", "offer", "trip", "profile"}
  BY DEF Statuses
<1>2. \A x : x \in Existing <=> x # "none" /\ \E table \in DOMAIN Statuses : x \in Statuses[table]
  BY DEF Existing
<1>3. QED BY <1>1, <1>2

\* What the statements write is what their table may hold.
LEMMA WrittenTyped ==
  ASSUME NEW q, Shaped(q), q.pc > 0, NEW row \in Rows, row[1] = Statement(q).on,
         Statement(q).to # "same", NEW v, v \in RowType, v.is \in Statuses[row[1]]
  PROVE  Written(q, v) \in RowType /\ Written(q, v).is \in Statuses[row[1]]
<1> DEFINE to == Statement(q).to
<1>1. row[1] \in {"ride", "opp", "offer", "trip", "profile"}
  BY RowTables
<1> HIDE DEF to
<1>2. to = "located" \/ to \in Statuses[row[1]]
  <2>1. CASE row[1] = "ride"
    <3>1. to \in {"expired", "accepted", "cancelled"} BY <2>1, RideStatements DEF to
    <3>2. QED BY <2>1, <3>1, StatusesAre
  <2>2. CASE row[1] = "offer"
    <3>1. to \in {"expired", "closed", "accepted", "pending", "rejected"}
      BY <2>2, OfferStatements DEF to
    <3>2. QED BY <2>2, <3>1, StatusesAre
  <2>3. CASE row[1] = "opp"
    <3>1. to \in {"offer_expired", "window_expired", "closed", "driver_skipped", "accepted",
                  "offered", "rider_rejected"}
      BY <2>3, OppStatements DEF to
    <3>2. QED BY <2>3, <3>1, StatusesAre
  <2>4. CASE row[1] = "trip"
    <3>1. to \in {"assigned", "cancelled", "in_progress", "completed", "settled"}
      BY <2>4, TripStatements DEF to
    <3>2. QED BY <2>4, <3>1, StatusesAre
  <2>5. CASE row[1] = "profile"
    <3>1. to \in {"located", "online", "offline"} BY <2>5, ProfileStatements DEF to
    <3>2. QED BY <2>5, <3>1, StatusesAre
  <2>6. QED BY <1>1, <2>1, <2>2, <2>3, <2>4, <2>5
<1>3. to = "located" \/ to \in Existing \cup {"none"}
  BY <1>1, <1>2, ExistingAre
<1>4. q.stamp \in Int /\ q.start \in Int
  BY DEF Shaped
<1>5. v.is \in Existing \cup {"none"}
  BY DEF RowType
<1>6. QED BY <1>2, <1>3, <1>4, <1>5, WrittenIs DEF to

\* What is written is locked and of its table.
LEMMA TakeWrites ==
  ASSUME NEW q, NEW w, NEW base, NEW h, NEW row, NEW q2, NEW w2, NEW h2,
         Taking(q, w, base, h, row, q2, w2, h2)
  PROVE  Writes(q2, w2, h2)
<1>1. /\ Shaped(q) /\ Writes(q, w, h) /\ Targets(q, w, base) /\ base \in Tables
      /\ q.pc > 0 /\ row \in q.todo /\ w2 = Wrote(q, w, base, row) /\ h2 = h \cup {row}
  BY DEF Taking, Good
<1>2. row \in Rows /\ q2.pc = q.pc
  <2>1. row \in Rows BY <1>1 DEF Shaped
  <2>2. q2.pc = q.pc BY <1>1, TakenRecord DEF Taking
  <2>3. QED BY <2>1, <2>2
<1>3. row[1] = Statement(q).on
  BY <1>1 DEF Targets
<1>4. CASE ~Matching(q, w, base, row)
  <2>1. w2 = w BY <1>1, <1>4, Unmatched
  <2>2. QED BY <1>1, <1>2, <2>1 DEF Writes
<1>5. CASE Matching(q, w, base, row)
  <2>1. Written(q, Overlay(w, base)[row]) \in RowType
        /\ Written(q, Overlay(w, base)[row]).is \in Statuses[row[1]]
    BY <1>1, <1>2, <1>3, <1>5, SeesTyped, WrittenTyped DEF Matching
  <2>2. /\ \A x : x \in DOMAIN w2 <=> x \in DOMAIN w \/ x = row
        /\ w2[row] = Written(q, Overlay(w, base)[row])
        /\ \A x \in DOMAIN w : x # row => w2[x] = w[x]
    BY <1>1, <1>5, Matched
  <2>3. DOMAIN w2 \subseteq Rows \cap h2
    BY <1>1, <1>2, <2>2 DEF Writes
  <2>4. ASSUME NEW x \in DOMAIN w2
        PROVE  w2[x] \in RowType /\ w2[x].is \in Statuses[x[1]]
    BY <1>1, <2>1, <2>2, <2>4 DEF Writes
  <2>5. QED BY <1>1, <1>2, <2>3, <2>4 DEF Writes
<1>6. QED BY <1>4, <1>5

\* What is known when a row is taken.
LEMMA TakeFacts ==
  ASSUME NEW q, NEW w, NEW base, NEW h, NEW row, NEW q2, NEW w2, NEW h2,
         Taking(q, w, base, h, row, q2, w2, h2)
  PROVE  /\ Shaped(q) /\ Writes(q, w, h) /\ Targets(q, w, base) /\ Moves(q, w, base)
         /\ SoFar(q, w, base, h)
         /\ base \in Tables /\ (\A r \in Rides : RideAgrees(r, base))
         /\ q.pc \in Nat /\ q.pc > 0 /\ row \in Rows /\ row \in q.todo
         /\ row[1] = Statement(q).on
         /\ Shaped(q2) /\ Statement(q2) = Statement(q)
         /\ q2.job = q.job /\ q2.r = q.r /\ q2.d = q.d /\ q2.pc = q.pc
         /\ q2.stamp = q.stamp /\ q2.judged = q.judged
         /\ q2.todo = q.todo \ {row}
         /\ h2 = h \cup {row}
<1>1. /\ Shaped(q) /\ Writes(q, w, h) /\ Targets(q, w, base) /\ Moves(q, w, base)
      /\ SoFar(q, w, base, h)
      /\ base \in Tables /\ (\A r \in Rides : RideAgrees(r, base))
      /\ q.pc > 0 /\ row \in q.todo
      /\ q2 = [q EXCEPT !.todo = @ \ {row}]
      /\ h2 = h \cup {row}
  BY DEF Taking, Good
<1>2. q.pc \in Nat /\ row \in Rows
  BY <1>1 DEF Shaped
<1>3. row[1] = Statement(q).on
  BY <1>1 DEF Targets
<1>4. QED BY <1>1, <1>2, <1>3, TakenRecord

\* What it sees when a row is taken.
LEMMA TakeSees ==
  ASSUME NEW q, NEW w, NEW base, NEW h, NEW row, NEW q2, NEW w2, NEW h2,
         Taking(q, w, base, h, row, q2, w2, h2)
  PROVE  LET s == Statement(q)
             old == Overlay(w, base)[row]
             new == Overlay(w2, base)[row]
         IN  /\ \A x \in Rows : x # row =>
                  /\ Overlay(w2, base)[x] = Overlay(w, base)[x]
                  /\ x \in DOMAIN w2 <=> x \in DOMAIN w
                  /\ x \in DOMAIN w => w2[x] = w[x]
             /\ ~Matching(q, w, base, row) => w2 = w
             /\ Matching(q, w, base, row) =>
                  /\ row \in DOMAIN w2 /\ w2[row] = new
                  /\ old.is \in s.from /\ s.to # "same"
                  /\ s.to = "located" => new.is = old.is
                  /\ s.to # "located" => new.is = s.to
                  /\ s.to = "assigned" => new.at = q.stamp
                  /\ s.to \notin {"located", "assigned", "pending"} => new.at = old.at
                  /\ s.when = "ahead" => old.at > q.stamp
<1>1. w2 = Wrote(q, w, base, row)
  BY DEF Taking
<1>2. /\ row \in Rows /\ Shaped(q) /\ Writes(q, w, h) /\ base \in Tables
  BY TakeFacts
<1>3. ASSUME NEW x \in Rows, x # row
      PROVE  /\ Overlay(w2, base)[x] = Overlay(w, base)[x]
             /\ x \in DOMAIN w2 <=> x \in DOMAIN w
             /\ x \in DOMAIN w => w2[x] = w[x]
  <2>1. CASE Matching(q, w, base, row)
    BY <1>1, <1>2, <1>3, <2>1, OthersSeen, Matched
  <2>2. CASE ~Matching(q, w, base, row)
    BY <1>1, <1>2, <1>3, <2>2, Unmatched
  <2>3. QED BY <2>1, <2>2
<1>4. ~Matching(q, w, base, row) => w2 = w
  BY <1>1, Unmatched
<1>5. ASSUME Matching(q, w, base, row)
      PROVE  LET s == Statement(q)
                 old == Overlay(w, base)[row]
                 new == Overlay(w2, base)[row]
             IN  /\ row \in DOMAIN w2 /\ w2[row] = new
                 /\ old.is \in s.from /\ s.to # "same"
                 /\ s.to = "located" => new.is = old.is
                 /\ s.to # "located" => new.is = s.to
                 /\ s.to = "assigned" => new.at = q.stamp
                 /\ s.to \notin {"located", "assigned", "pending"} => new.at = old.at
                 /\ s.when = "ahead" => old.at > q.stamp
  <2>1. Overlay(w, base)[row] \in RowType
    BY <1>2, SeesTyped
  <2>2. q.stamp \in Int /\ q.start \in Int
    BY <1>2 DEF Shaped
  <2>3. Overlay(w2, base)[row] = Written(q, Overlay(w, base)[row])
    BY <1>1, <1>2, <1>5, MatchedSees
  <2>4. row \in DOMAIN w2 /\ w2[row] = Written(q, Overlay(w, base)[row])
    BY <1>1, <1>5, Matched
  <2>5. Matches(Statement(q), Overlay(w, base)[row], q.stamp) /\ Statement(q).to # "same"
    BY <1>5 DEF Matching
  <2>6. QED BY <2>1, <2>2, <2>3, <2>4, <2>5, WrittenIs DEF Matches
<1>6. QED BY <1>3, <1>4, <1>5

\* Where the row is, when the statement has a scope.
LEMMA TakeScope ==
  ASSUME NEW q, NEW w, NEW base, NEW h, NEW row, NEW q2, NEW w2, NEW h2,
         Taking(q, w, base, h, row, q2, w2, h2),
         NEW r, NEW d, row \in {OfferRow(<<r, d>>), OppRow(<<r, d>>), TripRow(<<r, d>>)}
  PROVE  LET s == Statement(q)
             view == Overlay(w, base)
         IN  /\ s.of \in {"own", "rideOpen"} => r = q.r /\ d = q.d
             /\ s.of = "ofRide" => r = q.r
             /\ s.of = "rivals" => r = q.r /\ d # q.d
             /\ s.of = "offerExpired" => view[OfferRow(<<r, d>>)].is = "expired"
             /\ s.of = "decided" => view[RideRow(r)].is \in Decided
<1>1. row[2] = <<r, d>>
  BY RowParts
<1>2. row[1] = Statement(q).on /\ row[1] \in {"offer", "opp", "trip"}
  BY TakeFacts, RowParts
<1>3. OwnRow(row[1], q)[2] = <<q.r, q.d>>
  <2>1. /\ OwnRow("offer", q)[2] = <<q.r, q.d>>
        /\ OwnRow("opp", q)[2] = <<q.r, q.d>>
        /\ OwnRow("trip", q)[2] = <<q.r, q.d>>
    BY DEF OwnRow
  <2>2. QED BY <1>2, <2>1
<1>4. Targets(q, w, base) /\ row \in q.todo
  BY TakeFacts
<1>5. QED BY <1>1, <1>2, <1>3, <1>4 DEF Targets

\* A transaction is through with a row when it was before, or has taken it.
LEMMA TakePast ==
  ASSUME NEW q, NEW w, NEW base, NEW h, NEW row, NEW q2, NEW w2, NEW h2,
         Taking(q, w, base, h, row, q2, w2, h2), NEW x, NEW n
  PROVE  Past(q2, x, n) <=> Past(q, x, n) \/ (x = row /\ q.pc = n)
BY TakeFacts DEF Past

\* A verdict the scope of a later statement goes by stands: an offer that ran
\* out stays so, and a ride that was decided stays decided.
Stands(view, view2) ==
  /\ \A r \in Rides, d \in Drivers :
       view[OfferRow(<<r, d>>)].is = "expired" => view2[OfferRow(<<r, d>>)].is = "expired"
  /\ \A r \in Rides : view[RideRow(r)].is \in Decided => view2[RideRow(r)].is \in Decided

\* A statement undoes none of it.
LEMMA TakeStands ==
  ASSUME NEW q, NEW w, NEW base, NEW h, NEW row, NEW q2, NEW w2, NEW h2,
         Taking(q, w, base, h, row, q2, w2, h2)
  PROVE  Stands(Overlay(w, base), Overlay(w2, base))
<1> DEFINE view == Overlay(w, base)
           view2 == Overlay(w2, base)
           s == Statement(q)
<1> HIDE DEF view, view2, s
<1>1. ASSUME NEW r \in Rides, NEW d \in Drivers, view[OfferRow(<<r, d>>)].is = "expired"
      PROVE  view2[OfferRow(<<r, d>>)].is = "expired"
  <2>1. CASE row # OfferRow(<<r, d>>) \/ ~Matching(q, w, base, row)
    BY <1>1, <2>1, TakeSees, RowsAre DEF view, view2
  <2>2. CASE row = OfferRow(<<r, d>>) /\ Matching(q, w, base, row)
    <3>1. s.on = "offer" /\ s.to # "same" /\ view[row].is \in s.from /\ view[row].is = "expired"
      BY <1>1, <2>2, TakeFacts, TakeSees, RowParts DEF view, s
    <3>2. \/ q.job = "select" /\ q.pc = 12
          \/ q.job = "reject" /\ q.pc = 9
      BY <3>1, TakeFacts, OfferStatements DEF s
    <3>3. r = q.r /\ d = q.d
      BY <2>2, <3>1, <3>2, TakeScope, TakeFacts, OfferStatements DEF s
    <3>4. view[OfferRow(<<q.r, q.d>>)].is = "pending"
      BY <2>2, <3>2, <3>3, TakeFacts DEF SoFar, SelectSoFar, RejectSoFar, Past, view
    <3>5. QED BY <3>1, <3>3, <3>4, <2>2
  <2>3. QED BY <2>1, <2>2
<1>2. ASSUME NEW r \in Rides, view[RideRow(r)].is \in Decided
      PROVE  view2[RideRow(r)].is \in Decided
  <2>1. CASE row # RideRow(r) \/ ~Matching(q, w, base, row)
    BY <1>2, <2>1, TakeSees, RowsAre DEF view, view2
  <2>2. CASE row = RideRow(r) /\ Matching(q, w, base, row)
    <3>1. /\ s.on = "ride" /\ s.to # "same" /\ view[row].is \in s.from
          /\ s.to # "located" => view2[row].is = s.to
      BY <2>2, TakeFacts, TakeSees, RowParts DEF view, view2, s
    <3>2. s.from = {"requested"} \/ s.to = "cancelled"
      BY <3>1, TakeFacts, RideStatements DEF s
    <3>3. QED BY <1>2, <2>2, <3>1, <3>2 DEF Decided
  <2>3. QED BY <2>1, <2>2
<1>3. QED BY <1>1, <1>2 DEF Stands, view, view2

\* The rows that are keyed by a ride and a driver.
LEMMA PairRows ==
  ASSUME NEW row \in Rows, row[1] \in {"offer", "opp", "trip"}
  PROVE  \E r \in Rides, d \in Drivers : row[2] = <<r, d>>
<1>1. CASE \E r \in Rides : row = RideRow(r)
  BY <1>1, RowParts
<1>2. CASE \E d \in Drivers : row = ProfileRow(d)
  BY <1>2, RowParts
<1>3. CASE \E r \in Rides, d \in Drivers :
             row \in {OfferRow(<<r, d>>), OppRow(<<r, d>>), TripRow(<<r, d>>)}
  BY <1>3, RowParts
<1>4. QED BY <1>1, <1>2, <1>3, RowKinds

\* While the verdicts stand, so do the rows still to take.
LEMMA TargetsStand ==
  ASSUME NEW q, Shaped(q), NEW w, NEW base, Targets(q, w, base), q.pc > 0,
         NEW q2, q2.job = q.job, q2.r = q.r, q2.d = q.d, Statement(q2) = Statement(q),
         q2.todo \subseteq q.todo,
         NEW w2, NEW base2, Stands(Overlay(w, base), Overlay(w2, base2))
  PROVE  Targets(q2, w2, base2)
<1> SUFFICES ASSUME NEW row \in q2.todo
             PROVE  LET s == Statement(q)
                        view == Overlay(w2, base2)
                    IN  /\ row[1] = s.on
                        /\ s.of \in {"own", "rideOpen", "unlocked", "unfresh"} => row = OwnRow(s.on, q2)
                        /\ s.of = "ofRide" => row[2][1] = q.r
                        /\ s.of = "rivals" => row[2][1] = q.r /\ row[2][2] # q.d
                        /\ s.of = "offerExpired" => view[OfferRow(row[2])].is = "expired"
                        /\ s.of = "decided" => view[RideRow(row[2][1])].is \in Decided
  BY DEF Targets
<1> DEFINE s == Statement(q)
           view == Overlay(w, base)
           view2 == Overlay(w2, base2)
<1>1. /\ row[1] = s.on
      /\ s.of \in {"own", "rideOpen", "unlocked", "unfresh"} => row = OwnRow(s.on, q)
      /\ s.of = "ofRide" => row[2][1] = q.r
      /\ s.of = "rivals" => row[2][1] = q.r /\ row[2][2] # q.d
      /\ s.of = "offerExpired" => view[OfferRow(row[2])].is = "expired"
      /\ s.of = "decided" => view[RideRow(row[2][1])].is \in Decided
  BY DEF Targets
<1>2. row \in Rows
  BY DEF Shaped
<1>3. OwnRow(s.on, q2) = OwnRow(s.on, q)
  BY DEF OwnRow
<1>4. ASSUME s.of \in {"offerExpired", "decided"}
      PROVE  \E r \in Rides, d \in Drivers : row[2] = <<r, d>>
  <2>1. row[1] \in {"offer", "opp"}
    BY <1>1, <1>4, Statements
  <2>2. QED BY <1>2, <2>1, PairRows
<1>5. s.of = "offerExpired" => view2[OfferRow(row[2])].is = "expired"
  BY <1>1, <1>4 DEF Stands
<1>6. s.of = "decided" => view2[RideRow(row[2][1])].is \in Decided
  <2> HAVE s.of = "decided"
  <2>1. PICK r \in Rides, d \in Drivers : row[2] = <<r, d>>
    BY <1>4
  <2>2. row[2][1] = r
    BY <2>1
  <2>3. QED BY <1>1, <2>2 DEF Stands
<1>7. QED BY <1>1, <1>3, <1>5, <1>6

\* The rows still to be taken are picked as before.
LEMMA TakeTargets ==
  ASSUME NEW q, NEW w, NEW base, NEW h, NEW row, NEW q2, NEW w2, NEW h2,
         Taking(q, w, base, h, row, q2, w2, h2)
  PROVE  Targets(q2, w2, base)
<1>1. /\ Shaped(q) /\ Targets(q, w, base) /\ q.pc > 0
      /\ q2.job = q.job /\ q2.r = q.r /\ q2.d = q.d /\ Statement(q2) = Statement(q)
      /\ q2.todo \subseteq q.todo
  BY TakeFacts
<1>2. Stands(Overlay(w, base), Overlay(w2, base))
  BY TakeStands
<1>3. QED BY <1>1, <1>2, TargetsStand

\* What a transaction that takes a row may have done to an offer.
LEMMA TakeOffers ==
  ASSUME NEW q, NEW w, NEW base, NEW h, NEW row, NEW q2, NEW w2, NEW h2,
         Taking(q, w, base, h, row, q2, w2, h2),
         NEW r \in Rides, NEW d \in Drivers, OfferRow(<<r, d>>) \in DOMAIN w2
  PROVE  OfferMove(q2, w2, base, r, d)
<1> DEFINE x == OfferRow(<<r, d>>)
           view == Overlay(w, base)
           view2 == Overlay(w2, base)
           s == Statement(q)
<1>1. x \in Rows
  BY RowsAre
<1>2. Stands(view, view2)
  BY TakeStands
<1>3. q2.job = q.job /\ q2.r = q.r /\ q2.d = q.d /\ q2.pc = q.pc
  BY TakeFacts
<1> HIDE DEF view, view2, s
<1>4. CASE x # row \/ ~Matching(q, w, base, row)
  <2>1. x \in DOMAIN w /\ w2[x] = w[x]
    BY <1>1, <1>4, TakeSees
  <2>2. OfferMove(q, w, base, r, d)
    BY <2>1, TakeFacts DEF Moves
  <2>3. QED BY <1>2, <1>3, <2>1, <2>2 DEF OfferMove, Stands, view, view2
<1>5. CASE x = row /\ Matching(q, w, base, row)
  <2>1. /\ s.on = "offer" /\ s.to # "same" /\ view[x].is \in s.from
        /\ s.to # "located" => w2[x].is = s.to
    BY <1>5, TakeFacts, TakeSees, RowParts DEF view, view2, s
  <2>2. /\ s.of \in {"own", "rideOpen"} => r = q.r /\ d = q.d
        /\ s.of = "ofRide" => r = q.r
        /\ s.of = "rivals" => r = q.r /\ d # q.d
        /\ s.of = "decided" => view[RideRow(r)].is \in Decided
    BY <1>5, TakeScope DEF view, s
  <2>3. view[x] = IF x \in DOMAIN w THEN w[x] ELSE base[x]
    BY <1>1, Sees DEF view
  <2>4. x \in DOMAIN w => OfferMove(q, w, base, r, d)
    BY TakeFacts DEF Moves
  <2>5. view2[RideRow(r)].is \in Decided <=> view[RideRow(r)].is \in Decided
    BY <1>5, TakeSees, RowsAre, RowParts DEF view, view2
  <2>6. CASE s.to \in {"expired", "closed"} /\ s.from = {"pending"}
    <3>1. q.pc \in {1, 5} \/ q.job \in {"select", "cancel", "withdraw"}
      BY <2>1, <2>6, TakeFacts, OfferStatements DEF s
    <3>2. x \notin DOMAIN w
      BY <2>1, <2>3, <2>4, <2>6, <3>1 DEF OfferMove
    <3>3. s.to = "closed" => view[RideRow(r)].is \in Decided
      <4>1. CASE s.of = "decided"
        BY <2>2, <4>1
      <4>2. CASE q.job = "select" /\ q.pc = 16 /\ s.of = "rivals"
        <5>1. view[RideRow(q.r)].is = "accepted"
          <6>1. SelectSoFar(q, w, base, h) /\ q.pc >= 16
            BY <4>2, TakeFacts DEF SoFar
          <6>2. QED BY <6>1 DEF SelectSoFar, view
        <5>2. QED BY <2>2, <4>2, <5>1 DEF Decided
      <4>3. CASE q.job \in {"cancel", "withdraw"} /\ q.pc = 11 /\ s.of = "ofRide"
        <5>1. view[RideRow(q.r)].is = "cancelled"
          BY <4>3, TakeFacts DEF SoFar, CancelSoFar, Past, view
        <5>2. QED BY <2>2, <4>3, <5>1 DEF Decided
      <4>4. QED BY <2>1, <2>6, <4>1, <4>2, <4>3, TakeFacts, OfferStatements DEF s
    <3>4. QED BY <2>1, <2>3, <2>5, <2>6, <3>2, <3>3 DEF OfferMove, view2
  <2>7. CASE q.job = "select" /\ q.pc = 12 /\ s.of = "own" /\ s.to = "accepted"
    <3>1. view[x].is = "pending"
      BY <1>5, <2>2, <2>7, TakeFacts DEF SoFar, SelectSoFar, Past, view
    <3>2. QED BY <1>3, <2>1, <2>2, <2>3, <2>4, <2>7, <3>1 DEF OfferMove
  <2>8. CASE q.job = "upsert" /\ q.pc = 11 /\ s.of = "own" /\ s.from = {"none"} /\ s.to = "pending"
    BY <1>3, <2>1, <2>2, <2>3, <2>4, <2>8 DEF OfferMove
  <2>9. CASE q.job = "reject" /\ q.pc = 9 /\ s.of = "own" /\ s.to = "rejected"
    <3>1. view[x].is = "pending"
      BY <1>5, <2>2, <2>9, TakeFacts DEF SoFar, RejectSoFar, Past, view
    <3>2. QED BY <1>3, <2>1, <2>2, <2>3, <2>4, <2>9, <3>1 DEF OfferMove
  <2>10. QED BY <2>1, <2>6, <2>7, <2>8, <2>9, TakeFacts, OfferStatements DEF s
<1>6. QED BY <1>4, <1>5

\* To an opportunity.
LEMMA TakeOpps ==
  ASSUME NEW q, NEW w, NEW base, NEW h, NEW row, NEW q2, NEW w2, NEW h2,
         Taking(q, w, base, h, row, q2, w2, h2),
         NEW r \in Rides, NEW d \in Drivers, OppRow(<<r, d>>) \in DOMAIN w2
  PROVE  OppMove(q2, w2, base, r, d)
<1> DEFINE x == OppRow(<<r, d>>)
           view == Overlay(w, base)
           view2 == Overlay(w2, base)
           s == Statement(q)
<1>1. x \in Rows
  BY RowsAre
<1>2. Stands(view, view2)
  BY TakeStands
<1>3. q2.job = q.job /\ q2.r = q.r /\ q2.d = q.d /\ q2.pc = q.pc
  BY TakeFacts
<1> HIDE DEF view, view2, s
<1>4. CASE x # row \/ ~Matching(q, w, base, row)
  <2>1. x \in DOMAIN w /\ w2[x] = w[x]
    BY <1>1, <1>4, TakeSees
  <2>2. OppMove(q, w, base, r, d)
    BY <2>1, TakeFacts DEF Moves
  <2>3. QED BY <1>2, <1>3, <2>1, <2>2 DEF OppMove, Stands, view, view2
<1>5. CASE x = row /\ Matching(q, w, base, row)
  <2>1. /\ s.on = "opp" /\ s.to # "same" /\ view[x].is \in s.from
        /\ s.to # "located" => w2[x].is = s.to
    BY <1>5, TakeFacts, TakeSees, RowParts DEF view, view2, s
  <2>2. /\ s.of \in {"own", "rideOpen"} => r = q.r /\ d = q.d
        /\ s.of = "ofRide" => r = q.r
        /\ s.of = "rivals" => r = q.r /\ d # q.d
        /\ s.of = "decided" => view[RideRow(r)].is \in Decided
        /\ s.of = "offerExpired" => view[OfferRow(<<r, d>>)].is = "expired"
    BY <1>5, TakeScope DEF view, s
  <2>3. view[x] = IF x \in DOMAIN w THEN w[x] ELSE base[x]
    BY <1>1, Sees DEF view
  <2>4. x \in DOMAIN w => OppMove(q, w, base, r, d)
    BY TakeFacts DEF Moves
  <2>5. /\ view[RideRow(r)].is \in Decided => view2[RideRow(r)].is \in Decided
        /\ view[OfferRow(<<r, d>>)].is = "expired" => view2[OfferRow(<<r, d>>)].is = "expired"
    BY <1>2 DEF Stands
  <2>6. CASE s.to = "offer_expired" /\ s.from = {"offered"} /\ s.of = "offerExpired" /\ q.pc = 2
    BY <2>1, <2>2, <2>3, <2>4, <2>5, <2>6 DEF OppMove, view2
  <2>7. CASE s.to \in {"window_expired", "driver_skipped"} /\ s.from = {"open"}
    BY <2>1, <2>3, <2>4, <2>7 DEF OppMove
  <2>8. CASE s.to = "closed" /\ s.from = {"open", "offered"}
    <3>1. q.pc = 6 \/ q.job \in {"select", "cancel", "withdraw"}
      BY <2>1, <2>8, TakeFacts, OppStatements DEF s
    <3>2. x \notin DOMAIN w
      BY <2>1, <2>3, <2>4, <2>8, <3>1 DEF OppMove
    <3>3. view[RideRow(r)].is \in Decided
      <4>1. CASE s.of = "decided"
        BY <2>2, <4>1
      <4>2. CASE q.job = "select" /\ q.pc = 17 /\ s.of = "rivals"
        <5>1. view[RideRow(q.r)].is = "accepted"
          <6>1. SelectSoFar(q, w, base, h) /\ q.pc >= 16
            BY <4>2, TakeFacts DEF SoFar
          <6>2. QED BY <6>1 DEF SelectSoFar, view
        <5>2. QED BY <2>2, <4>2, <5>1 DEF Decided
      <4>3. CASE q.job \in {"cancel", "withdraw"} /\ q.pc = 12 /\ s.of = "ofRide"
        <5>1. view[RideRow(q.r)].is = "cancelled"
          BY <4>3, TakeFacts DEF SoFar, CancelSoFar, Past, view
        <5>2. QED BY <2>2, <4>3, <5>1 DEF Decided
      <4>4. QED BY <2>1, <2>8, <4>1, <4>2, <4>3, TakeFacts, OppStatements DEF s
    <3>4. QED BY <2>1, <2>3, <2>5, <2>8, <3>2, <3>3 DEF OppMove, view2
  <2>9. CASE /\ s.of = "own" /\ q.pc >= 9
             /\ \/ q.job = "select" /\ s.from = {"offered"} /\ s.to = "accepted"
                \/ q.job = "upsert" /\ s.from = {"open"} /\ s.to = "offered"
                \/ q.job = "reject" /\ s.from = {"offered"} /\ s.to = "rider_rejected"
    BY <1>3, <2>1, <2>2, <2>3, <2>4, <2>9 DEF OppMove
  <2>10. QED BY <2>1, <2>6, <2>7, <2>8, <2>9, TakeFacts, OppStatements DEF s
<1>6. QED BY <1>4, <1>5

\* To a ride.
LEMMA TakeRides ==
  ASSUME NEW q, NEW w, NEW base, NEW h, NEW row, NEW q2, NEW w2, NEW h2,
         Taking(q, w, base, h, row, q2, w2, h2),
         NEW r \in Rides, RideRow(r) \in DOMAIN w2
  PROVE  RideMove(q2, w2, base, r)
<1> DEFINE x == RideRow(r)
           view == Overlay(w, base)
           view2 == Overlay(w2, base)
           s == Statement(q)
<1>1. x \in Rows
  BY RowsAre
<1>2. q2.job = q.job /\ q2.r = q.r /\ q2.d = q.d /\ q2.pc = q.pc
  BY TakeFacts
<1> HIDE DEF view, view2, s
<1>3. CASE x # row \/ ~Matching(q, w, base, row)
  <2>1. x \in DOMAIN w /\ w2[x] = w[x]
    BY <1>1, <1>3, TakeSees
  <2>2. RideMove(q, w, base, r)
    BY <2>1, TakeFacts DEF Moves
  <2>3. QED BY <1>2, <2>1, <2>2 DEF RideMove
<1>4. CASE x = row /\ Matching(q, w, base, row)
  <2>1. /\ s.on = "ride" /\ s.to # "same" /\ view[x].is \in s.from
        /\ s.to # "located" => w2[x].is = s.to
        /\ s.to \notin {"located", "assigned", "pending"} => w2[x].at = view[x].at
    BY <1>4, TakeFacts, TakeSees, RowParts DEF view, view2, s
  <2>2. s.of = "own" => r = q.r
    <3>1. s.of = "own" => x = OwnRow("ride", q)
      BY <1>4, <2>1, TakeFacts DEF Targets, s
    <3>2. OwnRow("ride", q) = RideRow(q.r)
      BY OwnRowIs
    <3>3. RideRow(r)[2] = r /\ RideRow(q.r)[2] = q.r
      BY RowParts
    <3>4. QED BY <3>1, <3>2, <3>3
  <2>3. view[x] = IF x \in DOMAIN w THEN w[x] ELSE base[x]
    BY <1>1, Sees DEF view
  <2>4. x \in DOMAIN w => RideMove(q, w, base, r)
    BY TakeFacts DEF Moves
  <2>5. CASE q.pc = 4 /\ s.from = {"requested"} /\ s.to = "expired"
    BY <2>1, <2>3, <2>4, <2>5 DEF RideMove
  <2>6. CASE q.job = "select" /\ q.pc = 15 /\ s.of = "own" /\ s.from = {"requested"} /\ s.to = "accepted"
    BY <1>2, <2>1, <2>2, <2>3, <2>4, <2>6 DEF RideMove
  <2>7. CASE q.job \in {"cancel", "withdraw"} /\ q.pc = 9 /\ s.of = "own" /\ s.to = "cancelled"
    <3>1. view[x].is \in {"requested", "accepted"}
      BY <1>4, <2>2, <2>7, TakeFacts DEF SoFar, CancelSoFar, Past, view
    <3>2. QED BY <1>2, <2>1, <2>2, <2>3, <2>4, <2>7, <3>1 DEF RideMove
  <2>8. QED BY <2>1, <2>5, <2>6, <2>7, TakeFacts, RideStatements DEF s
<1>5. QED BY <1>3, <1>4

\* To a trip.
LEMMA TakeTrips ==
  ASSUME NEW q, NEW w, NEW base, NEW h, NEW row, NEW q2, NEW w2, NEW h2,
         Taking(q, w, base, h, row, q2, w2, h2),
         NEW r \in Rides, NEW d \in Drivers, TripRow(<<r, d>>) \in DOMAIN w2
  PROVE  TripMove(q2, w2, base, r, d)
<1> DEFINE x == TripRow(<<r, d>>)
           view == Overlay(w, base)
           view2 == Overlay(w2, base)
           s == Statement(q)
<1>1. x \in Rows
  BY RowsAre
<1>2. q2.job = q.job /\ q2.r = q.r /\ q2.d = q.d /\ q2.pc = q.pc
  BY TakeFacts
<1> HIDE DEF view, view2, s
<1>3. CASE x # row \/ ~Matching(q, w, base, row)
  <2>1. x \in DOMAIN w /\ w2[x] = w[x]
    BY <1>1, <1>3, TakeSees
  <2>2. TripMove(q, w, base, r, d)
    BY <2>1, TakeFacts DEF Moves
  <2>3. Past(q, x, 14) => Past(q2, x, 14)
    BY TakePast
  <2>4. QED BY <1>2, <2>1, <2>2, <2>3 DEF TripMove
<1>4. CASE x = row /\ Matching(q, w, base, row)
  <2>1. /\ s.on = "trip" /\ s.to # "same" /\ view[x].is \in s.from
        /\ s.to # "located" => w2[x].is = s.to
    BY <1>4, TakeFacts, TakeSees, RowParts DEF view, view2, s
  <2>2. /\ s.of = "own" => r = q.r /\ d = q.d
        /\ s.of = "ofRide" => r = q.r
    BY <1>4, TakeScope DEF view, s
  <2>3. view[x] = IF x \in DOMAIN w THEN w[x] ELSE base[x]
    BY <1>1, Sees DEF view
  <2>4. x \in DOMAIN w => TripMove(q, w, base, r, d)
    BY TakeFacts DEF Moves
  <2>5. CASE /\ q.job = "select" /\ q.pc = 14 /\ s.of = "own"
             /\ s.from = {"none"} /\ s.to = "assigned"
    <3>1. Past(q2, x, 14)
      BY <1>4, <2>5, TakePast
    <3>2. QED BY <1>2, <2>1, <2>2, <2>3, <2>4, <2>5, <3>1 DEF TripMove
  <2>6. CASE q.job \in {"cancel", "withdraw"} /\ q.pc = 10 /\ s.of = "ofRide" /\ s.to = "cancelled"
    <3>1. view[x].is \in {"none"} \cup ActiveTrip
      BY <1>4, <2>2, <2>6, TakeFacts DEF SoFar, CancelSoFar, Past, view
    <3>2. s.from = Existing
      BY <2>6, CancelText DEF Set, Update, s
    <3>3. view[x].is \in ActiveTrip
      BY <2>1, <3>1, <3>2 DEF Existing
    <3>4. QED BY <1>2, <2>1, <2>2, <2>3, <2>4, <2>6, <3>3 DEF TripMove, ActiveTrip
  <2>7. CASE /\ q.job \in OnTrip /\ q.pc = 2 /\ s.of = "own"
             /\ \/ q.job = "start" /\ s.from = {"assigned"} /\ s.to = "in_progress"
                \/ q.job = "complete" /\ s.from = {"in_progress"} /\ s.to = "completed"
                \/ q.job = "collect" /\ s.from = {"completed"} /\ s.to = "settled"
    BY <1>2, <2>1, <2>2, <2>3, <2>4, <2>7 DEF TripMove, OnTrip
  <2>8. QED BY <2>1, <2>5, <2>6, <2>7, TakeFacts, TripStatements DEF s
<1>5. QED BY <1>3, <1>4

\* To every row.
LEMMA TakeMoves ==
  ASSUME NEW q, NEW w, NEW base, NEW h, NEW row, NEW q2, NEW w2, NEW h2,
         Taking(q, w, base, h, row, q2, w2, h2)
  PROVE  Moves(q2, w2, base)
<1>1. ASSUME NEW d \in Drivers, ProfileRow(d) \in DOMAIN w2
      PROVE  q2.job \in OnProfile /\ base[ProfileRow(d)].is # "none"
  <2>1. CASE ProfileRow(d) # row \/ ~Matching(q, w, base, row)
    <3>1. ProfileRow(d) \in DOMAIN w
      BY <1>1, <2>1, TakeSees, RowsAre
    <3>2. QED BY <3>1, TakeFacts DEF Moves
  <2>2. CASE ProfileRow(d) = row /\ Matching(q, w, base, row)
    <3>1. /\ Statement(q).on = "profile" /\ Statement(q).to # "same"
          /\ Overlay(w, base)[row].is \in Statement(q).from
      BY <2>2, TakeFacts, TakeSees, RowParts
    <3>2. q.job \in OnProfile /\ Overlay(w, base)[row].is # "none"
      BY <3>1, TakeFacts, ProfileStatements
    <3>3. Overlay(w, base)[row] = IF row \in DOMAIN w THEN w[row] ELSE base[row]
      BY TakeFacts, Sees
    <3>4. row \in DOMAIN w => base[row].is # "none"
      BY <2>2, TakeFacts DEF Moves
    <3>5. q2.job = q.job
      BY TakeFacts
    <3>6. QED BY <2>2, <3>2, <3>3, <3>4, <3>5
  <2>3. QED BY <2>1, <2>2
<1>2. QED BY <1>1, TakeOffers, TakeOpps, TakeRides, TakeTrips DEF Moves

\* A row that was held is, and so is the one just taken.
LEMMA TakeHeld ==
  ASSUME NEW q, NEW w, NEW base, NEW h, NEW row, NEW q2, NEW w2, NEW h2,
         Taking(q, w, base, h, row, q2, w2, h2), NEW x \in Rows,
         Held(w, base, h, x) \/ x = row
  PROVE  Held(w2, base, h2, x)
BY TakeFacts, TakeSees DEF Held

\* The ride of the handler is held.
LEMMA TakeRideHeld ==
  ASSUME NEW q, NEW w, NEW base, NEW h, NEW row, NEW q2, NEW w2, NEW h2,
         Taking(q, w, base, h, row, q2, w2, h2), q.job \in OnRide
  PROVE  RideHeld(q2, w2, base, h2)
<1>1. RideHeld(q, w, base, h) /\ q.r \in Rides
  BY TakeFacts DEF SoFar, Shaped
<1>2. RideRow(q.r) \in Rows
  BY <1>1, RowsAre
<1>3. Past(q2, RideRow(q.r), 7) => Held(w2, base, h2, RideRow(q.r))
  BY <1>1, <1>2, TakePast, TakeHeld DEF RideHeld
<1>4. q2.pc = q.pc /\ q2.r = q.r /\ h \subseteq h2
  BY TakeFacts
<1>5. QED BY <1>1, <1>3, <1>4 DEF RideHeld

\* A row looks as before, unless it was taken and matched.
LEMMA TakeEffect ==
  ASSUME NEW q, NEW w, NEW base, NEW h, NEW row, NEW q2, NEW w2, NEW h2,
         Taking(q, w, base, h, row, q2, w2, h2), NEW x \in Rows
  PROVE  LET s == Statement(q)
             old == Overlay(w, base)[x]
             new == Overlay(w2, base)[x]
         IN  \/ new = old /\ ~(x = row /\ Matching(q, w, base, row))
             \/ /\ x = row /\ x[1] = s.on /\ s.to # "same" /\ old.is \in s.from
                /\ s.to # "located" => new.is = s.to
                /\ s.to = "assigned" => new.at = q.stamp
                /\ s.to \notin {"located", "assigned", "pending"} => new.at = old.at
                /\ s.when = "ahead" => old.at > q.stamp
BY TakeFacts, TakeSees

\* A ride a transaction sees open is open.
LEMMA TrulyOpen ==
  ASSUME NEW q, NEW w, NEW base, Moves(q, w, base), NEW r \in Rides,
         Overlay(w, base)[RideRow(r)].is = "requested"
  PROVE  base[RideRow(r)].is = "requested"
BY Sees, RowsAre DEF Moves, RideMove

\* What was written stays written.
LEMMA TakeDomain ==
  ASSUME NEW q, NEW w, NEW base, NEW h, NEW row, NEW q2, NEW w2, NEW h2,
         Taking(q, w, base, h, row, q2, w2, h2)
  PROVE  \A x \in Rows : x \in DOMAIN w => x \in DOMAIN w2
<1>1. CASE Matching(q, w, base, row)
  BY <1>1, Matched DEF Taking
<1>2. CASE ~Matching(q, w, base, row)
  BY <1>2, Unmatched DEF Taking
<1>3. QED BY <1>1, <1>2

\* SelectOffer takes a row.
LEMMA TakeSelect ==
  ASSUME NEW q, NEW w, NEW base, NEW h, NEW row, NEW q2, NEW w2, NEW h2,
         Taking(q, w, base, h, row, q2, w2, h2), q.job = "select"
  PROVE  SelectSoFar(q2, w2, base, h2)
<1> DEFINE view == Overlay(w, base)
           view2 == Overlay(w2, base)
           s == Statement(q)
           p == <<q.r, q.d>>
<1>1. /\ SelectSoFar(q, w, base, h) /\ Shaped(q) /\ q.pc \in Nat /\ q.pc > 0
      /\ q.r \in Rides /\ q.d \in Drivers /\ q.stamp \in Int
      /\ q2.pc = q.pc /\ q2.r = q.r /\ q2.d = q.d /\ q2.stamp = q.stamp /\ q2.judged = q.judged
  BY TakeFacts DEF SoFar, Shaped, OnRide
<1>2. /\ RideRow(q.r) \in Rows /\ OfferRow(p) \in Rows /\ OppRow(p) \in Rows
      /\ TripRow(p) \in Rows /\ ProfileRow(q.d) \in Rows
  BY <1>1, RowsAre
<1> HIDE DEF view, view2, s
<1>3. /\ Past(q2, OfferRow(p), 8) => Held(w2, base, h2, OfferRow(p))
      /\ Past(q2, OppRow(p), 9) => Held(w2, base, h2, OppRow(p))
      /\ Past(q2, ProfileRow(q.d), 10) => Held(w2, base, h2, ProfileRow(q.d))
  <2>1. /\ Past(q, OfferRow(p), 8) => Held(w, base, h, OfferRow(p))
        /\ Past(q, OppRow(p), 9) => Held(w, base, h, OppRow(p))
        /\ Past(q, ProfileRow(q.d), 10) => Held(w, base, h, ProfileRow(q.d))
    BY <1>1 DEF SelectSoFar
  <2>2. QED BY <1>2, <2>1, TakePast, TakeHeld
<1>4. /\ q.pc \in 8..14 => view2[RideRow(q.r)].is = "requested"
      /\ q.pc = 15 => view2[RideRow(q.r)].is \in {"requested", "accepted"}
      /\ q.pc >= 16 => view2[RideRow(q.r)].is = "accepted" /\ RideRow(q.r) \in DOMAIN w2
  <2>0. \A x \in Rows : x \in DOMAIN w => x \in DOMAIN w2
    BY TakeDomain
  <2>1. CASE view2[RideRow(q.r)] = view[RideRow(q.r)]
    BY <1>1, <1>2, <2>0, <2>1 DEF SelectSoFar, view
  <2>2. CASE view2[RideRow(q.r)] # view[RideRow(q.r)]
    <3>1. /\ s.on = "ride" /\ s.to # "same"
          /\ s.to # "located" => view2[RideRow(q.r)].is = s.to
      BY <1>2, <2>2, TakeEffect, RowParts DEF view, view2, s
    <3>2. q.pc = 4 \/ (q.pc = 15 /\ s.to = "accepted")
      BY <1>1, <3>1, RideStatements DEF s
    <3>3. QED BY <3>1, <3>2
  <2>3. QED BY <2>1, <2>2
<1>5. q.pc >= 9 => view2[OfferRow(p)].is =
                     IF Past(q2, OfferRow(p), 12) THEN "accepted" ELSE "pending"
  <2> HAVE q.pc >= 9
  <2>1. view[OfferRow(p)].is = IF Past(q, OfferRow(p), 12) THEN "accepted" ELSE "pending"
    BY <1>1 DEF SelectSoFar, view
  <2>2. CASE q.pc = 12 /\ row = OfferRow(p)
    <3>1. s = Set("offer", "own", Existing, "accepted")
      BY <2>2, SelectText DEF s
    <3>2. ~Past(q, OfferRow(p), 12) /\ Past(q2, OfferRow(p), 12)
      BY <1>1, <2>2, TakeFacts DEF Past
    <3>3. "pending" \in Existing
      BY DEF Existing, Statuses
    <3>4. Matching(q, w, base, row)
      BY <2>1, <2>2, <3>1, <3>2, <3>3 DEF Matching, Matches, Set, Update, view, s
    <3>5. view2[OfferRow(p)].is = "accepted"
      BY <1>2, <2>2, <3>1, <3>4, TakeEffect DEF Set, Update, view2, s
    <3>6. QED BY <3>2, <3>5
  <2>3. CASE ~(q.pc = 12 /\ row = OfferRow(p))
    <3>1. Past(q2, OfferRow(p), 12) <=> Past(q, OfferRow(p), 12)
      BY <2>3, TakePast
    <3>2. view2[OfferRow(p)] = view[OfferRow(p)]
      <4> SUFFICES ASSUME view2[OfferRow(p)] # view[OfferRow(p)]
                   PROVE  FALSE
        OBVIOUS
      <4>1. row = OfferRow(p) /\ s.on = "offer" /\ s.to # "same"
        BY <1>2, TakeEffect, RowParts DEF view, view2, s
      <4>2. s.of # "rivals"
        BY <4>1, TakeScope DEF s
      <4>3. QED BY <1>1, <2>3, <4>1, <4>2, OfferStatements DEF s
    <3>3. QED BY <2>1, <3>1, <3>2
  <2>4. QED BY <2>2, <2>3
<1>6. q.pc >= 10 => view2[OppRow(p)].is =
                      IF Past(q2, OppRow(p), 13) THEN "accepted" ELSE "offered"
  <2> HAVE q.pc >= 10
  <2>1. view[OppRow(p)].is = IF Past(q, OppRow(p), 13) THEN "accepted" ELSE "offered"
    BY <1>1 DEF SelectSoFar, view
  <2>2. CASE q.pc = 13 /\ row = OppRow(p)
    <3>1. s = Set("opp", "own", {"offered"}, "accepted")
      BY <2>2, SelectText DEF s
    <3>2. ~Past(q, OppRow(p), 13) /\ Past(q2, OppRow(p), 13)
      BY <1>1, <2>2, TakeFacts DEF Past
    <3>4. Matching(q, w, base, row)
      BY <2>1, <2>2, <3>1, <3>2 DEF Matching, Matches, Set, Update, view, s
    <3>5. view2[OppRow(p)].is = "accepted"
      BY <1>2, <2>2, <3>1, <3>4, TakeEffect DEF Set, Update, view2, s
    <3>6. QED BY <3>2, <3>5
  <2>3. CASE ~(q.pc = 13 /\ row = OppRow(p))
    <3>1. Past(q2, OppRow(p), 13) <=> Past(q, OppRow(p), 13)
      BY <2>3, TakePast
    <3>2. view2[OppRow(p)] = view[OppRow(p)]
      <4> SUFFICES ASSUME view2[OppRow(p)] # view[OppRow(p)]
                   PROVE  FALSE
        OBVIOUS
      <4>1. row = OppRow(p) /\ s.on = "opp" /\ s.to # "same"
        BY <1>2, TakeEffect, RowParts DEF view, view2, s
      <4>2. s.of # "rivals"
        BY <4>1, TakeScope DEF s
      <4>3. QED BY <1>1, <2>3, <4>1, <4>2, OppStatements DEF s
    <3>3. QED BY <2>1, <3>1, <3>2
  <2>4. QED BY <2>2, <2>3
<1>7. q.pc = 11 => q.judged = q.stamp
  BY <1>1 DEF SelectSoFar
<1>8. q.pc >= 12 => view2[ProfileRow(q.d)].is = "online" /\ Fresh(view2[ProfileRow(q.d)], q.judged)
  <2>1. view2[ProfileRow(q.d)] = view[ProfileRow(q.d)]
    BY <1>1, <1>2, TakeEffect, RowParts, ProfileStatements DEF view, view2, OnProfile
  <2>2. QED BY <1>1, <2>1 DEF SelectSoFar, view
<1>9. Past(q2, TripRow(p), 14) => /\ TripRow(p) \in DOMAIN w2
                                  /\ view2[TripRow(p)].is = "assigned"
                                  /\ view2[TripRow(p)].at <= q.stamp
  <2> HAVE Past(q2, TripRow(p), 14)
  <2>1. CASE q.pc = 14 /\ row = TripRow(p)
    <3>1. s = Update("trip", "own", {"none"}, "always", "assigned", "driverFree")
      BY <2>1, SelectText DEF s
    <3>2. view[TripRow(p)].is = "none"
      <4>1. TripRow(p) \notin DOMAIN w
        BY <1>1, <2>1, TakeFacts DEF Moves, TripMove, Past
      <4>2. base[RideRow(q.r)].is = "requested"
        BY <1>1, <2>1, TakeFacts, TrulyOpen DEF SelectSoFar
      <4>3. base[TripRow(p)].is = "none"
        BY <1>1, <4>2, TakeFacts DEF RideAgrees
      <4>4. QED BY <1>2, <4>1, <4>3, Sees DEF view
    <3>3. Matching(q, w, base, row)
      BY <2>1, <3>1, <3>2 DEF Matching, Matches, Update, view, s
    <3>4. TripRow(p) \in DOMAIN w2
      BY <2>1, <3>3, TakeSees
    <3>5. QED
      BY <1>1, <1>2, <2>1, <3>1, <3>3, <3>4, TakeEffect DEF Update, view2, s
  <2>2. CASE ~(q.pc = 14 /\ row = TripRow(p))
    <3>1. Past(q, TripRow(p), 14)
      BY <2>2, TakePast
    <3>2. view2[TripRow(p)] = view[TripRow(p)]
      <4> SUFFICES ASSUME view2[TripRow(p)] # view[TripRow(p)]
                   PROVE  FALSE
        OBVIOUS
      <4>1. row = TripRow(p) /\ s.on = "trip" /\ s.to # "same"
        BY <1>2, TakeEffect, RowParts DEF view, view2, s
      <4>2. QED BY <1>1, <2>2, <4>1, TripStatements DEF s, OnTrip
    <3>3. QED BY <1>1, <1>2, <3>1, <3>2, TakeDomain DEF SelectSoFar, view
  <2>3. QED BY <2>1, <2>2
<1>10. q.pc >= 15 => /\ \A r \in Rides \ {q.r} : base[TripRow(<<r, q.d>>)].is \notin ActiveTrip
                     /\ view2[RideRow(q.r)].is = "accepted" =>
                          view2[TripRow(p)].at < view2[RideRow(q.r)].at
  <2> HAVE q.pc >= 15
  <2>1. view[TripRow(p)].at <= q.stamp /\ view[TripRow(p)].at \in Int
    <3>1. Past(q, TripRow(p), 14)
      BY <1>1 DEF Past
    <3>2. view[TripRow(p)] \in RowType
      BY <1>2, TakeFacts, SeesTyped DEF view
    <3>3. QED BY <1>1, <3>1, <3>2 DEF SelectSoFar, RowType, view
  <2>2. view2[TripRow(p)] = view[TripRow(p)]
    BY <1>1, <1>2, TakeEffect, RowParts, TripStatements DEF view, view2, OnTrip
  <2>3. CASE view2[RideRow(q.r)] = view[RideRow(q.r)]
    BY <1>1, <2>2, <2>3 DEF SelectSoFar, view
  <2>4. CASE view2[RideRow(q.r)] # view[RideRow(q.r)]
    <3>1. /\ s.on = "ride" /\ s.to # "same"
          /\ s.to \notin {"located", "assigned", "pending"} =>
               view2[RideRow(q.r)].at = view[RideRow(q.r)].at
          /\ s.when = "ahead" => view[RideRow(q.r)].at > q.stamp
      BY <1>2, <2>4, TakeEffect, RowParts DEF view, view2, s
    <3>2. q.pc = 15 /\ s.to = "accepted" /\ s.when = "ahead"
      BY <1>1, <3>1, RideStatements DEF s
    <3>3. view[RideRow(q.r)].at \in Int
      BY <1>2, TakeFacts, SeesTyped DEF view, RowType
    <3>4. QED BY <1>1, <2>1, <2>2, <3>1, <3>2, <3>3 DEF SelectSoFar
  <2>5. \A r \in Rides \ {q.r} : base[TripRow(<<r, q.d>>)].is \notin ActiveTrip
    BY <1>1 DEF SelectSoFar
  <2>6. QED BY <2>3, <2>4, <2>5
<1>11. ASSUME NEW d \in Drivers \ {q.d}
       PROVE  /\ Past(q2, OfferRow(<<q.r, d>>), 16) => view2[OfferRow(<<q.r, d>>)].is # "pending"
              /\ Past(q2, OppRow(<<q.r, d>>), 17) => view2[OppRow(<<q.r, d>>)].is # "offered"
  <2> DEFINE xo == OfferRow(<<q.r, d>>)
             xp == OppRow(<<q.r, d>>)
  <2>1. d \in Drivers /\ xo \in Rows /\ xp \in Rows
    BY <1>1, <1>11, RowsAre
  <2>2. /\ Past(q, xo, 16) => view[xo].is # "pending"
        /\ Past(q, xp, 17) => view[xp].is # "offered"
    BY <1>1, <1>11 DEF SelectSoFar, view
  <2>3. ASSUME Past(q2, xo, 16)
        PROVE  view2[xo].is # "pending"
    <3>1. CASE q.pc = 16 /\ row = xo
      <4>1. s = Set("offer", "rivals", {"pending"}, "closed")
        BY <3>1, SelectText DEF s
      <4>2. CASE Matching(q, w, base, row)
        BY <2>1, <3>1, <4>1, <4>2, TakeEffect DEF Set, Update, view2, s
      <4>3. CASE ~Matching(q, w, base, row)
        BY <2>1, <3>1, <4>1, <4>3, TakeSees DEF Matching, Matches, Set, Update, view2, s
      <4>4. QED BY <4>2, <4>3
    <3>2. CASE ~(q.pc = 16 /\ row = xo)
      <4>1. Past(q, xo, 16)
        BY <2>3, <3>2, TakePast
      <4>2. view2[xo] = view[xo] \/ (s.on = "offer" /\ s.to # "same" /\ xo = row)
        BY <2>1, TakeEffect, RowParts DEF view, view2, s
      <4>3. q.pc >= 16
        BY <1>1, <4>1 DEF Past
      <4>4. QED BY <1>1, <2>2, <3>2, <4>1, <4>2, <4>3, OfferStatements DEF s
    <3>3. QED BY <3>1, <3>2
  <2>4. ASSUME Past(q2, xp, 17)
        PROVE  view2[xp].is # "offered"
    <3>1. CASE q.pc = 17 /\ row = xp
      <4>1. s = Set("opp", "rivals", {"open", "offered"}, "closed")
        BY <3>1, SelectText DEF s
      <4>2. CASE Matching(q, w, base, row)
        BY <2>1, <3>1, <4>1, <4>2, TakeEffect DEF Set, Update, view2, s
      <4>3. CASE ~Matching(q, w, base, row)
        BY <2>1, <3>1, <4>1, <4>3, TakeSees DEF Matching, Matches, Set, Update, view2, s
      <4>4. QED BY <4>2, <4>3
    <3>2. CASE ~(q.pc = 17 /\ row = xp)
      <4>1. Past(q, xp, 17)
        BY <2>4, <3>2, TakePast
      <4>2. view2[xp] = view[xp] \/ (s.on = "opp" /\ s.to # "same" /\ xp = row)
        BY <2>1, TakeEffect, RowParts DEF view, view2, s
      <4>3. q.pc >= 17
        BY <1>1, <4>1 DEF Past
      <4>4. QED BY <1>1, <2>2, <3>2, <4>1, <4>2, <4>3, OppStatements DEF s
    <3>3. QED BY <3>1, <3>2
  <2>5. QED BY <2>3, <2>4
<1>12. QED
  BY <1>1, <1>3, <1>4, <1>5, <1>6, <1>7, <1>8, <1>9, <1>10, <1>11 DEF SelectSoFar, view2

\* What an unconditional update does to the row it takes.
LEMMA TakeUpdate ==
  ASSUME NEW q, NEW w, NEW base, NEW h, NEW row, NEW q2, NEW w2, NEW h2,
         Taking(q, w, base, h, row, q2, w2, h2),
         NEW on, NEW of, NEW from, NEW to, NEW check,
         Statement(q) = Update(on, of, from, "always", to, check), to \notin {"same", "located"}
  PROVE  /\ Overlay(w, base)[row].is \in from => Overlay(w2, base)[row].is = to
         /\ Overlay(w, base)[row].is \notin from => Overlay(w2, base)[row] = Overlay(w, base)[row]
<1>1. /\ Statement(q).from = from /\ Statement(q).to = to /\ Statement(q).when = "always"
  BY DEF Update
<1>2. Matching(q, w, base, row) <=> Overlay(w, base)[row].is \in from
  BY <1>1 DEF Matching, Matches
<1>3. CASE Matching(q, w, base, row)
  BY <1>1, <1>2, <1>3, TakeSees
<1>4. CASE ~Matching(q, w, base, row)
  BY <1>2, <1>4, TakeSees
<1>5. QED BY <1>3, <1>4

\* Upsert takes a row.
LEMMA TakeUpsert ==
  ASSUME NEW q, NEW w, NEW base, NEW h, NEW row, NEW q2, NEW w2, NEW h2,
         Taking(q, w, base, h, row, q2, w2, h2), q.job = "upsert"
  PROVE  UpsertSoFar(q2, w2, base, h2)
<1> DEFINE view == Overlay(w, base)
           view2 == Overlay(w2, base)
           s == Statement(q)
           p == <<q.r, q.d>>
<1>1. /\ UpsertSoFar(q, w, base, h) /\ Shaped(q) /\ q.pc \in Nat /\ q.pc > 0
      /\ q.r \in Rides /\ q.d \in Drivers
      /\ q2.pc = q.pc /\ q2.r = q.r /\ q2.d = q.d /\ h \subseteq h2
  BY TakeFacts DEF SoFar, Shaped, OnRide
<1>2. RideRow(q.r) \in Rows /\ OfferRow(p) \in Rows /\ OppRow(p) \in Rows
  BY <1>1, RowsAre
<1> HIDE DEF view, view2, s
<1>3. Past(q2, OppRow(p), 8) => Held(w2, base, h2, OppRow(p))
  <2>1. Past(q, OppRow(p), 8) => Held(w, base, h, OppRow(p))
    BY <1>1 DEF UpsertSoFar
  <2>2. QED BY <1>2, <2>1, TakePast, TakeHeld
<1>4. q.pc >= 8 => view2[RideRow(q.r)].is = "requested"
  <2>1. q.pc >= 8 => view2[RideRow(q.r)] = view[RideRow(q.r)]
    BY <1>1, <1>2, TakeEffect, RowParts, RideStatements DEF view, view2
  <2>2. QED BY <1>1, <2>1 DEF UpsertSoFar, view
<1>5. q.pc >= 9 => view2[OppRow(p)].is = IF Past(q2, OppRow(p), 12) THEN "offered" ELSE "open"
  <2> HAVE q.pc >= 9
  <2>1. view[OppRow(p)].is = IF Past(q, OppRow(p), 12) THEN "offered" ELSE "open"
    BY <1>1 DEF UpsertSoFar, view
  <2>2. CASE q.pc = 12 /\ row = OppRow(p)
    <3>1. s = Update("opp", "own", {"open"}, "always", "offered", "none")
      BY <2>2, UpsertText DEF s, Set
    <3>2. ~Past(q, OppRow(p), 12) /\ Past(q2, OppRow(p), 12)
      BY <1>1, <2>2, TakeFacts DEF Past
    <3>3. QED BY <2>1, <2>2, <3>1, <3>2, TakeUpdate DEF view, view2, s
  <2>3. CASE ~(q.pc = 12 /\ row = OppRow(p))
    <3>1. Past(q2, OppRow(p), 12) <=> Past(q, OppRow(p), 12)
      BY <2>3, TakePast
    <3>2. view2[OppRow(p)] = view[OppRow(p)]
      BY <1>1, <1>2, <2>3, TakeEffect, RowParts, OppStatements DEF view, view2
    <3>3. QED BY <2>1, <3>1, <3>2
  <2>4. QED BY <2>2, <2>3
<1>6. q.pc >= 12 => view2[OfferRow(p)].is = "pending" /\ OfferRow(p) \in h2
  <2>1. q.pc >= 12 => view2[OfferRow(p)] = view[OfferRow(p)]
    BY <1>1, <1>2, TakeEffect, RowParts, OfferStatements DEF view, view2
  <2>2. QED BY <1>1, <2>1 DEF UpsertSoFar, view
<1>7. QED BY <1>1, <1>3, <1>4, <1>5, <1>6 DEF UpsertSoFar, view2

\* Reject takes a row.
LEMMA TakeReject ==
  ASSUME NEW q, NEW w, NEW base, NEW h, NEW row, NEW q2, NEW w2, NEW h2,
         Taking(q, w, base, h, row, q2, w2, h2), q.job = "reject"
  PROVE  RejectSoFar(q2, w2, base, h2)
<1> DEFINE view == Overlay(w, base)
           view2 == Overlay(w2, base)
           s == Statement(q)
           p == <<q.r, q.d>>
<1>1. /\ RejectSoFar(q, w, base, h) /\ Shaped(q) /\ q.pc \in Nat /\ q.pc > 0
      /\ q.r \in Rides /\ q.d \in Drivers
      /\ q2.pc = q.pc /\ q2.r = q.r /\ q2.d = q.d
  BY TakeFacts DEF SoFar, Shaped, OnRide
<1>2. RideRow(q.r) \in Rows /\ OfferRow(p) \in Rows /\ OppRow(p) \in Rows
  BY <1>1, RowsAre
<1> HIDE DEF view, view2, s
<1>3. Past(q2, OfferRow(p), 8) => Held(w2, base, h2, OfferRow(p))
  <2>1. Past(q, OfferRow(p), 8) => Held(w, base, h, OfferRow(p))
    BY <1>1 DEF RejectSoFar
  <2>2. QED BY <1>2, <2>1, TakePast, TakeHeld
<1>4. q.pc >= 8 => view2[RideRow(q.r)].is = "requested"
  <2>1. q.pc >= 8 => view2[RideRow(q.r)] = view[RideRow(q.r)]
    BY <1>1, <1>2, TakeEffect, RowParts, RideStatements DEF view, view2
  <2>2. QED BY <1>1, <2>1 DEF RejectSoFar, view
<1>5. q.pc >= 9 => view2[OfferRow(p)].is = IF Past(q2, OfferRow(p), 9) THEN "rejected" ELSE "pending"
  <2> HAVE q.pc >= 9
  <2>1. view[OfferRow(p)].is = IF Past(q, OfferRow(p), 9) THEN "rejected" ELSE "pending"
    BY <1>1 DEF RejectSoFar, view
  <2>2. CASE q.pc = 9 /\ row = OfferRow(p)
    <3>1. s = Update("offer", "own", Existing, "always", "rejected", "none")
      BY <2>2, RejectText DEF s, Set
    <3>2. ~Past(q, OfferRow(p), 9) /\ Past(q2, OfferRow(p), 9)
      BY <1>1, <2>2, TakeFacts DEF Past
    <3>3. "pending" \in Existing
      BY DEF Existing, Statuses
    <3>4. QED BY <2>1, <2>2, <3>1, <3>2, <3>3, TakeUpdate DEF view, view2, s
  <2>3. CASE ~(q.pc = 9 /\ row = OfferRow(p))
    <3>1. Past(q2, OfferRow(p), 9) <=> Past(q, OfferRow(p), 9)
      BY <2>3, TakePast
    <3>2. view2[OfferRow(p)] = view[OfferRow(p)]
      BY <1>1, <1>2, <2>3, TakeEffect, RowParts, OfferStatements DEF view, view2
    <3>3. QED BY <2>1, <3>1, <3>2
  <2>4. QED BY <2>2, <2>3
<1>6. q.pc >= 9 => view2[OppRow(p)].is =
                     IF Past(q2, OppRow(p), 10) THEN "rider_rejected" ELSE "offered"
  <2> HAVE q.pc >= 9
  <2>1. view[OppRow(p)].is = IF Past(q, OppRow(p), 10) THEN "rider_rejected" ELSE "offered"
    BY <1>1 DEF RejectSoFar, view
  <2>2. CASE q.pc = 10 /\ row = OppRow(p)
    <3>1. s = Update("opp", "own", {"offered"}, "always", "rider_rejected", "none")
      BY <2>2, RejectText DEF s, Set
    <3>2. ~Past(q, OppRow(p), 10) /\ Past(q2, OppRow(p), 10)
      BY <1>1, <2>2, TakeFacts DEF Past
    <3>3. QED BY <2>1, <2>2, <3>1, <3>2, TakeUpdate DEF view, view2, s
  <2>3. CASE ~(q.pc = 10 /\ row = OppRow(p))
    <3>1. Past(q2, OppRow(p), 10) <=> Past(q, OppRow(p), 10)
      BY <2>3, TakePast
    <3>2. view2[OppRow(p)] = view[OppRow(p)]
      BY <1>1, <1>2, <2>3, TakeEffect, RowParts, OppStatements DEF view, view2
    <3>3. QED BY <2>1, <3>1, <3>2
  <2>4. QED BY <2>2, <2>3
<1>7. QED BY <1>1, <1>3, <1>4, <1>5, <1>6 DEF RejectSoFar, view2

\* A cancellation takes a row.
LEMMA TakeCancel ==
  ASSUME NEW q, NEW w, NEW base, NEW h, NEW row, NEW q2, NEW w2, NEW h2,
         Taking(q, w, base, h, row, q2, w2, h2), q.job \in {"cancel", "withdraw"}
  PROVE  CancelSoFar(q2, w2, base, h2)
<1> DEFINE view == Overlay(w, base)
           view2 == Overlay(w2, base)
           s == Statement(q)
           ride == RideRow(q.r)
<1>1. /\ CancelSoFar(q, w, base, h) /\ Shaped(q) /\ q.pc \in Nat /\ q.pc > 0
      /\ q.r \in Rides
      /\ q2.pc = q.pc /\ q2.r = q.r /\ q2.d = q.d /\ q2.job = q.job
  BY TakeFacts DEF SoFar, Shaped, OnRide
<1>2. ride \in Rows
  BY <1>1, RowsAre
<1> HIDE DEF view, view2, s
<1>3. q.pc >= 9 => IF Past(q2, ride, 9) THEN view2[ride].is = "cancelled"
                                        ELSE view2[ride].is \in {"requested", "accepted"}
  <2> HAVE q.pc >= 9
  <2>1. IF Past(q, ride, 9) THEN view[ride].is = "cancelled"
                            ELSE view[ride].is \in {"requested", "accepted"}
    BY <1>1 DEF CancelSoFar, view
  <2>2. CASE q.pc = 9 /\ row = ride
    <3>1. s = Update("ride", "own", Existing, "always", "cancelled", "none")
      BY <2>2, CancelText DEF s, Set
    <3>2. ~Past(q, ride, 9) /\ Past(q2, ride, 9)
      BY <1>1, <2>2, TakeFacts DEF Past
    <3>3. "requested" \in Existing /\ "accepted" \in Existing
      BY DEF Existing, Statuses
    <3>4. QED BY <2>1, <2>2, <3>1, <3>2, <3>3, TakeUpdate DEF view, view2, s
  <2>3. CASE ~(q.pc = 9 /\ row = ride)
    <3>1. Past(q2, ride, 9) <=> Past(q, ride, 9)
      BY <2>3, TakePast
    <3>2. view2[ride] = view[ride]
      BY <1>1, <1>2, <2>3, TakeEffect, RowParts, RideStatements DEF view, view2
    <3>3. QED BY <2>1, <3>1, <3>2
  <2>4. QED BY <2>2, <2>3
<1>4. ASSUME NEW d \in Drivers
      PROVE  LET trip == TripRow(<<q.r, d>>)
             IN  /\ Past(q2, trip, 8) /\ (q.job = "cancel" \/ q.d = d) => Held(w2, base, h2, trip)
                 /\ q.pc >= 9 => /\ Held(w2, base, h2, trip)
                                 /\ IF Past(q2, trip, 10)
                                    THEN view2[trip].is \in {"none", "cancelled"}
                                    ELSE view2[trip].is \in {"none"} \cup ActiveTrip
  <2> DEFINE trip == TripRow(<<q.r, d>>)
  <2>1. trip \in Rows
    BY <1>1, <1>4, RowsAre
  <2>2. /\ Past(q, trip, 8) /\ (q.job = "cancel" \/ q.d = d) => Held(w, base, h, trip)
        /\ q.pc >= 9 => /\ Held(w, base, h, trip)
                        /\ IF Past(q, trip, 10)
                           THEN view[trip].is \in {"none", "cancelled"}
                           ELSE view[trip].is \in {"none"} \cup ActiveTrip
    BY <1>1, <1>4 DEF CancelSoFar, view
  <2>3. Past(q2, trip, 8) /\ (q.job = "cancel" \/ q.d = d) => Held(w2, base, h2, trip)
    BY <2>1, <2>2, TakePast, TakeHeld
  <2>4. q.pc >= 9 => Held(w2, base, h2, trip)
    BY <2>1, <2>2, TakeHeld
  <2>5. ASSUME q.pc >= 9
        PROVE  IF Past(q2, trip, 10) THEN view2[trip].is \in {"none", "cancelled"}
                                     ELSE view2[trip].is \in {"none"} \cup ActiveTrip
    <3>1. CASE q.pc = 10 /\ row = trip
      <4>1. s = Update("trip", "ofRide", Existing, "always", "cancelled", "none")
        BY <3>1, CancelText DEF s, Set
      <4>2. ~Past(q, trip, 10) /\ Past(q2, trip, 10)
        BY <1>1, <3>1, TakeFacts DEF Past
      <4>3. ActiveTrip \subseteq Existing
        BY DEF Existing, Statuses, ActiveTrip
      <4>4. QED BY <2>2, <2>5, <3>1, <4>1, <4>2, <4>3, TakeUpdate DEF view, view2, s
    <3>2. CASE ~(q.pc = 10 /\ row = trip)
      <4>1. Past(q2, trip, 10) <=> Past(q, trip, 10)
        BY <3>2, TakePast
      <4>2. view2[trip] = view[trip]
        BY <1>1, <2>1, <3>2, TakeEffect, RowParts, TripStatements DEF view, view2, OnTrip
      <4>3. QED BY <2>2, <2>5, <4>1, <4>2
    <3>3. QED BY <3>1, <3>2
  <2>6. QED BY <2>3, <2>4, <2>5
<1>5. ASSUME NEW d \in Drivers
      PROVE  /\ Past(q2, OfferRow(<<q.r, d>>), 11) => view2[OfferRow(<<q.r, d>>)].is # "pending"
             /\ Past(q2, OppRow(<<q.r, d>>), 12) => view2[OppRow(<<q.r, d>>)].is # "offered"
  <2> DEFINE xo == OfferRow(<<q.r, d>>)
             xp == OppRow(<<q.r, d>>)
  <2>1. xo \in Rows /\ xp \in Rows
    BY <1>1, <1>5, RowsAre
  <2>2. /\ Past(q, xo, 11) => view[xo].is # "pending"
        /\ Past(q, xp, 12) => view[xp].is # "offered"
    BY <1>1, <1>5 DEF CancelSoFar, view
  <2>3. ASSUME Past(q2, xo, 11)
        PROVE  view2[xo].is # "pending"
    <3>1. CASE q.pc = 11 /\ row = xo
      <4>1. s = Update("offer", "ofRide", {"pending"}, "always", "closed", "none")
        BY <3>1, CancelText DEF s, Set
      <4>2. QED BY <3>1, <4>1, TakeUpdate DEF view2, view, s
    <3>2. CASE ~(q.pc = 11 /\ row = xo)
      <4>1. Past(q, xo, 11) /\ q.pc >= 11
        BY <1>1, <2>3, <3>2, TakePast DEF Past
      <4>2. view2[xo] = view[xo]
        BY <1>1, <2>1, <3>2, <4>1, TakeEffect, RowParts, OfferStatements DEF view, view2
      <4>3. QED BY <2>2, <4>1, <4>2
    <3>3. QED BY <3>1, <3>2
  <2>4. ASSUME Past(q2, xp, 12)
        PROVE  view2[xp].is # "offered"
    <3>1. CASE q.pc = 12 /\ row = xp
      <4>1. s = Update("opp", "ofRide", {"open", "offered"}, "always", "closed", "none")
        BY <3>1, CancelText DEF s, Set
      <4>2. QED BY <3>1, <4>1, TakeUpdate DEF view2, view, s
    <3>2. CASE ~(q.pc = 12 /\ row = xp)
      <4>1. Past(q, xp, 12) /\ q.pc >= 12
        BY <1>1, <2>4, <3>2, TakePast DEF Past
      <4>2. view2[xp] = view[xp]
        BY <1>1, <2>1, <3>2, <4>1, TakeEffect, RowParts, OppStatements DEF view, view2
      <4>3. QED BY <2>2, <4>1, <4>2
    <3>3. QED BY <3>1, <3>2
  <2>5. QED BY <2>3, <2>4
<1>6. QED BY <1>1, <1>3, <1>4, <1>5 DEF CancelSoFar, view2

\* Whatever it takes, a transaction stays as it should be.
LEMMA TakeGood ==
  ASSUME NEW q, NEW w, NEW base, NEW h, NEW row, NEW q2, NEW w2, NEW h2,
         Taking(q, w, base, h, row, q2, w2, h2)
  PROVE  Good(q2, w2, base, h2)
<1>1. q2.job = q.job /\ Shaped(q2)
  BY TakeFacts
<1>2. SoFar(q2, w2, base, h2)
  BY <1>1, TakeRideHeld, TakeSelect, TakeUpsert, TakeReject, TakeCancel DEF SoFar
<1>3. QED BY <1>1, <1>2, TakeWrites, TakeTargets, TakeMoves DEF Good

-----------------------------------------------------------------------------
(***************************************************************************)
(* A transaction comes to its next statement.                              *)
(***************************************************************************)
\* What each scope says of a row of its table.
LEMMA ScopeIs ==
  ASSUME NEW q, NEW row, NEW view, NEW at
  PROVE  LET s == Statement(q)
             in == InScope(q, row, view, at)
         IN  /\ s.of = "own" => (in <=> row = OwnRow(s.on, q))
             /\ s.of = "ofRide" => (in <=> row[2][1] = q.r)
             /\ s.of = "rivals" => (in <=> row[2][1] = q.r /\ row[2][2] # q.d)
             /\ s.of = "offerExpired" => (in <=> view[OfferRow(row[2])].is = "expired")
             /\ s.of = "decided" => (in <=> view[RideRow(row[2][1])].is \in Decided)
             /\ s.of \in {"rideOpen", "unlocked", "unfresh"} => (in => row = OwnRow(s.on, q))
<1> DEFINE of == Statement(q).of
<1>1. of = "own" => (InScope(q, row, view, at) <=> row = OwnRow(Statement(q).on, q))
  BY Zenon DEF InScope
<1>2. of = "ofRide" => (InScope(q, row, view, at) <=> row[2][1] = q.r)
  BY Zenon DEF InScope
<1>3. of = "rivals" => (InScope(q, row, view, at) <=> row[2][1] = q.r /\ row[2][2] # q.d)
  BY Zenon DEF InScope
<1>4. of = "offerExpired" => (InScope(q, row, view, at) <=> view[OfferRow(row[2])].is = "expired")
  BY Zenon DEF InScope
<1>5. of = "decided" => (InScope(q, row, view, at) <=> view[RideRow(row[2][1])].is \in Decided)
  BY Zenon DEF InScope
<1>6. of = "rideOpen" => (InScope(q, row, view, at) => row = OwnRow(Statement(q).on, q))
  BY Zenon DEF InScope
<1>7. of = "unlocked" => (InScope(q, row, view, at) => row = OwnRow(Statement(q).on, q))
  BY Zenon DEF InScope
<1>8. of = "unfresh" => (InScope(q, row, view, at) => row = OwnRow(Statement(q).on, q))
  BY Zenon DEF InScope
<1>9. QED BY <1>1, <1>2, <1>3, <1>4, <1>5, <1>6, <1>7, <1>8

\* The rows that a statement with a fixed scope leaves do not match.
Left(q, view) ==
  \A row \in Rows \ q.todo :
    LET s == Statement(q)
    IN  (/\ row[1] = s.on /\ s.when = "always"
         /\ \/ s.of = "own" /\ row = OwnRow(s.on, q)
            \/ s.of = "ofRide" /\ row[2][1] = q.r
            \/ s.of = "rivals" /\ row[2][1] = q.r /\ row[2][2] # q.d)
         => view[row].is \notin s.from

\* What the handler has tested before it goes on.
Passed(q, w, base) ==
  LET s == Statement(q)
      view == Overlay(w, base)
      p == <<q.r, q.d>>
      own == OwnRow(s.on, q)
  IN  /\ s.check = "rideOpen" => RideOpen(q, view)
      /\ s.check \in {"offerActionable", "offerPending"} => view[OfferRow(p)].is = "pending"
      /\ s.check = "oppOffered" => view[OppRow(p)].is = "offered"
      /\ s.check = "oppVisible" => view[OppRow(p)].is = "open"
      /\ s.check = "eligible" => Eligible(q, view)
      /\ s.check = "driverFree" =>
           \A r \in Rides \ {q.r} : base[TripRow(<<r, q.d>>)].is \notin ActiveTrip
      /\ s.check = "changed" => own \in DOMAIN w /\ w[own].is = s.to
      /\ s.check \in {"cancellable", "ownCancellable"} => Cancellable(q, view)
      /\ s.check = "ownCancellable" => view[TripRow(p)].is # "none"
      /\ s.check = "tripMovable" => view[TripRow(p)].is \in Program[q.job][2].from

Coming(q, w, base, h, q2) ==
  /\ Good(q, w, base, h) /\ base \in Tables /\ \A r \in Rides : RideAgrees(r, base)
  /\ q.pc > 0 /\ q.todo = {} /\ Passed(q, w, base)
  /\ q2.job = q.job /\ q2.r = q.r /\ q2.d = q.d /\ q2.pc = q.pc + 1
  /\ q.stamp <= q2.stamp
  /\ q2.judged = IF Statement(q2).check = "eligible" THEN q2.stamp ELSE q.judged
  /\ Shaped(q2) /\ Targets(q2, w, base) /\ Left(q2, Overlay(w, base))

\* The record of a transaction that comes to a statement.
LEMMA AtIs ==
  ASSUME NEW q, Shaped(q), NEW n \in Nat, n > 0, n <= Length[q.job], NEW w, NEW base, now \in Int
  PROVE  LET q2 == At(q, n, Overlay(w, base))
         IN  /\ q2.job = q.job /\ q2.r = q.r /\ q2.d = q.d /\ q2.pc = n /\ q2.stamp = now
             /\ q2.judged = IF Statement(q2).check = "eligible" THEN now ELSE q.judged
             /\ Shaped(q2) /\ Targets(q2, w, base) /\ Left(q2, Overlay(w, base))
<1> DEFINE view == Overlay(w, base)
           there == [q EXCEPT !.pc = n]
           q2 == At(q, n, view)
           s == Statement(there)
<1>1. /\ there \in [job : Kinds, r : Rides \cup {NoRide}, d : Drivers \cup {NoDriver}, pc : Nat,
                    todo : SUBSET Rows, stamp : Int, start : Int, judged : Int]
      /\ there.job = q.job /\ there.r = q.r /\ there.d = q.d /\ there.pc = n
      /\ there.judged = q.judged
  BY DEF Shaped
<1>2. q2 = [there EXCEPT !.stamp = now, !.todo = Picks(there, view, now),
                         !.judged = IF s.check = "eligible" THEN now ELSE @]
  BY DEF At, Stamp
<1>3. /\ Picks(there, view, now) \subseteq Rows
      /\ \A row \in Rows : row \in Picks(there, view, now) <=>
           row[1] = s.on /\ Matches(s, view[row], now) /\ InScope(there, row, view, now)
  BY DEF Picks
<1> HIDE DEF there
<1>4. /\ q2.job = q.job /\ q2.r = q.r /\ q2.d = q.d /\ q2.pc = n /\ q2.stamp = now
      /\ q2.todo = Picks(there, view, now)
      /\ q2.judged = IF s.check = "eligible" THEN now ELSE q.judged
      /\ q2 \in [job : Kinds, r : Rides \cup {NoRide}, d : Drivers \cup {NoDriver}, pc : Nat,
                 todo : SUBSET Rows, stamp : Int, start : Int, judged : Int]
  BY <1>1, <1>2, <1>3
<1> HIDE DEF q2
<1>5. Statement(q2) = s /\ \A on : OwnRow(on, q2) = OwnRow(on, there)
  BY <1>1, <1>4 DEF Statement, OwnRow
<1>6. Shaped(q2)
  BY <1>1, <1>4 DEF Shaped
<1> HIDE DEF s, view
<1>7. Targets(q2, w, base)
  <2> SUFFICES ASSUME NEW row \in q2.todo
               PROVE  /\ row[1] = s.on
                      /\ s.of \in {"own", "rideOpen", "unlocked", "unfresh"} => row = OwnRow(s.on, q2)
                      /\ s.of = "ofRide" => row[2][1] = q.r
                      /\ s.of = "rivals" => row[2][1] = q.r /\ row[2][2] # q.d
                      /\ s.of = "offerExpired" => view[OfferRow(row[2])].is = "expired"
                      /\ s.of = "decided" => view[RideRow(row[2][1])].is \in Decided
    BY <1>4, <1>5 DEF Targets, view
  <2>1. row[1] = s.on /\ InScope(there, row, view, now)
    BY <1>3, <1>4
  <2>2. QED BY <1>1, <1>4, <1>5, <2>1, ScopeIs DEF s
<1>8. Left(q2, view)
  <2> SUFFICES ASSUME NEW row \in Rows, row \notin q2.todo, row[1] = s.on, s.when = "always",
                      \/ s.of = "own" /\ row = OwnRow(s.on, q2)
                      \/ s.of = "ofRide" /\ row[2][1] = q.r
                      \/ s.of = "rivals" /\ row[2][1] = q.r /\ row[2][2] # q.d
               PROVE  view[row].is \notin s.from
    BY <1>4, <1>5 DEF Left
  <2>1. InScope(there, row, view, now)
    BY <1>1, <1>5, ScopeIs DEF s
  <2>2. ~Matches(s, view[row], now)
    BY <1>3, <1>4, <2>1
  <2>3. QED BY <2>2 DEF Matches
<1>9. QED BY <1>4, <1>5, <1>6, <1>7, <1>8 DEF q2, view, s

\* The verdict of the handler.
LEMMA PassesIs ==
  ASSUME NEW t, Passes(t)
  PROVE  Passed(tx[t], work[t], db)
<1> DEFINE q == tx[t]
           view == View(t)
           check == Statement(q).check
<1>1. check = "rideOpen" => RideOpen(q, view)
  BY Zenon DEF Passes
<1>2. check = "offerActionable" => view[OwnRow("offer", q)].is = "pending"
  BY Zenon DEF Passes
<1>3. check = "offerPending" => view[OwnRow("offer", q)].is = "pending"
  BY Zenon DEF Passes
<1>4. check = "oppOffered" => view[OwnRow("opp", q)].is = "offered"
  BY Zenon DEF Passes
<1>5. check = "oppVisible" => view[OwnRow("opp", q)].is = "open"
  BY Zenon DEF Passes
<1>6. check = "eligible" => Eligible(q, view)
  BY Zenon DEF Passes
<1>7. check = "driverFree" => \A r \in Rides \ {q.r} : db[TripRow(<<r, q.d>>)].is \notin ActiveTrip
  BY Zenon DEF Passes
<1>8. check = "changed" => Changed(q, t)
  BY Zenon DEF Passes
<1>9. check = "cancellable" => Cancellable(q, view)
  BY Zenon DEF Passes
<1>10. check = "ownCancellable" => view[OwnRow("trip", q)].is # "none" /\ Cancellable(q, view)
  BY Zenon DEF Passes
<1>11. check = "tripMovable" => view[OwnRow("trip", q)].is \in Program[q.job][2].from
  BY Zenon DEF Passes
<1>12. Changed(q, t) => LET own == OwnRow(Statement(q).on, q)
                        IN  own \in DOMAIN work[t] /\ work[t][own].is = Statement(q).to
  BY DEF Changed
<1>13. view = Overlay(work[t], db)
  BY DEF View
<1> HIDE DEF view
<1>14. QED
  BY <1>1, <1>2, <1>3, <1>4, <1>5, <1>6, <1>7, <1>8, <1>9, <1>10, <1>11, <1>12, <1>13, OwnRowIs
     DEF Passed

\* What is known of a transaction that comes to its next statement.
LEMMA ComeFacts ==
  ASSUME NEW q, NEW w, NEW base, NEW h, NEW q2, Coming(q, w, base, h, q2)
  PROVE  /\ Shaped(q) /\ Writes(q, w, h) /\ Moves(q, w, base) /\ SoFar(q, w, base, h)
         /\ base \in Tables /\ (\A r \in Rides : RideAgrees(r, base))
         /\ q.pc \in Nat /\ q.pc > 0 /\ q.todo = {} /\ Passed(q, w, base)
         /\ Shaped(q2) /\ Targets(q2, w, base) /\ Left(q2, Overlay(w, base))
         /\ q2.job = q.job /\ q2.r = q.r /\ q2.d = q.d /\ q2.pc = q.pc + 1
         /\ q.stamp \in Int /\ q2.stamp \in Int /\ q.stamp <= q2.stamp
         /\ q2.judged = IF Statement(q2).check = "eligible" THEN q2.stamp ELSE q.judged
BY DEF Coming, Good, Shaped

\* It is through with what it was, and with the rows the new statement leaves.
LEMMA ComePast ==
  ASSUME NEW q, NEW w, NEW base, NEW h, NEW q2, Coming(q, w, base, h, q2), NEW x, NEW n \in Nat
  PROVE  /\ Past(q, x, n) <=> q.pc >= n
         /\ Past(q2, x, n) <=> q.pc >= n \/ (q2.pc = n /\ x \notin q2.todo)
BY ComeFacts DEF Past

\* Its own row was picked unless it does not match.
LEMMA ComeOwn ==
  ASSUME NEW q, NEW w, NEW base, NEW h, NEW q2, Coming(q, w, base, h, q2),
         NEW on, NEW from, NEW to, NEW check,
         Statement(q2) = Update(on, "own", from, "always", to, check),
         NEW x \in Rows, x = OwnRow(on, q), x[1] = on, x \notin q2.todo
  PROVE  Overlay(w, base)[x].is \notin from
<1>1. OwnRow(on, q2) = OwnRow(on, q)
  BY ComeFacts DEF OwnRow
<1>2. Left(q2, Overlay(w, base))
  BY ComeFacts
<1>3. /\ Statement(q2).on = on /\ Statement(q2).of = "own" /\ Statement(q2).from = from
      /\ Statement(q2).when = "always"
  BY DEF Update
<1>4. QED BY <1>1, <1>2, <1>3 DEF Left

\* After a statement about the rows of the ride, none is left that it is for.
LEMMA ComeOfRide ==
  ASSUME NEW q, NEW w, NEW base, NEW h, NEW q2, Coming(q, w, base, h, q2),
         NEW on, NEW from, NEW to, NEW check, NEW of \in {"ofRide", "rivals"},
         Statement(q2) = Update(on, of, from, "always", to, check),
         NEW x \in Rows, x[1] = on, x[2][1] = q.r, of = "rivals" => x[2][2] # q.d,
         x \notin q2.todo
  PROVE  Overlay(w, base)[x].is \notin from
<1>1. Left(q2, Overlay(w, base)) /\ q2.r = q.r /\ q2.d = q.d
  BY ComeFacts
<1>2. /\ Statement(q2).on = on /\ Statement(q2).of = of /\ Statement(q2).from = from
      /\ Statement(q2).when = "always"
  BY DEF Update
<1>3. QED BY <1>1, <1>2 DEF Left

\* A row that exists can be read by its status.
LEMMA Exists ==
  ASSUME NEW q, NEW w, NEW base \in Tables, NEW h, Writes(q, w, h), NEW row \in Rows,
         Overlay(w, base)[row].is \notin Existing
  PROVE  Overlay(w, base)[row].is = "none"
BY SeesTyped DEF RowType

\* What was changed was allowed, and still is.
LEMMA ComeMoves ==
  ASSUME NEW q, NEW w, NEW base, NEW h, NEW q2, Coming(q, w, base, h, q2)
  PROVE  Writes(q2, w, h) /\ Moves(q2, w, base)
<1>1. Writes(q2, w, h)
  BY ComeFacts DEF Writes
<1>2. Moves(q, w, base)
  BY ComeFacts
<1>3. ASSUME NEW r \in Rides, RideRow(r) \in DOMAIN w
      PROVE  RideMove(q2, w, base, r)
  <2>1. RideMove(q, w, base, r)
    BY <1>2, <1>3 DEF Moves
  <2>2. QED BY <2>1, ComeFacts DEF RideMove
<1>4. ASSUME NEW r \in Rides, NEW d \in Drivers, OfferRow(<<r, d>>) \in DOMAIN w
      PROVE  OfferMove(q2, w, base, r, d)
  <2>1. OfferMove(q, w, base, r, d)
    BY <1>2, <1>4 DEF Moves
  <2>2. QED BY <2>1, ComeFacts DEF OfferMove
<1>5. ASSUME NEW r \in Rides, NEW d \in Drivers, OppRow(<<r, d>>) \in DOMAIN w
      PROVE  OppMove(q2, w, base, r, d)
  <2>1. OppMove(q, w, base, r, d)
    BY <1>2, <1>5 DEF Moves
  <2>2. QED BY <2>1, ComeFacts DEF OppMove
<1>6. ASSUME NEW r \in Rides, NEW d \in Drivers, TripRow(<<r, d>>) \in DOMAIN w
      PROVE  TripMove(q2, w, base, r, d)
  <2>1. TripMove(q, w, base, r, d)
    BY <1>2, <1>6 DEF Moves
  <2>2. Past(q, TripRow(<<r, d>>), 14) => Past(q2, TripRow(<<r, d>>), 14)
    BY ComePast
  <2>3. QED BY <2>1, <2>2, ComeFacts DEF TripMove
<1>7. \A d \in Drivers : ProfileRow(d) \in DOMAIN w =>
        q2.job \in OnProfile /\ base[ProfileRow(d)].is # "none"
  BY <1>2, ComeFacts DEF Moves
<1>8. QED BY <1>1, <1>3, <1>4, <1>5, <1>6, <1>7 DEF Moves

\* A row that the lock statement leaves does not exist.
LEMMA ComeHeld ==
  ASSUME NEW q, NEW w, NEW base, NEW h, NEW q2, Coming(q, w, base, h, q2),
         NEW on, NEW check, NEW n \in Nat, q2.pc = n => Statement(q2) = Lock(on, check),
         NEW x \in Rows, x = OwnRow(on, q), x[1] = on,
         Past(q, x, n) => Held(w, base, h, x), Past(q2, x, n)
  PROVE  Held(w, base, h, x)
<1>1. CASE q.pc >= n
  BY <1>1, ComePast
<1>2. CASE q2.pc = n /\ x \notin q2.todo
  <2>1. Statement(q2) = Update(on, "own", Existing, "always", "same", check)
    BY <1>2 DEF Lock, LockIn
  <2>2. Overlay(w, base)[x].is \notin Existing
    BY <1>2, <2>1, ComeOwn
  <2>3. QED BY <2>2, ComeFacts, Exists DEF Held
<1>3. QED BY <1>1, <1>2, ComePast

\* The ride of the handler is held.
LEMMA ComeRideHeld ==
  ASSUME NEW q, NEW w, NEW base, NEW h, NEW q2, Coming(q, w, base, h, q2), q.job \in OnRide
  PROVE  RideHeld(q2, w, base, h)
<1> DEFINE view == Overlay(w, base)
           x == RideRow(q.r)
<1>1. /\ q.r \in Rides /\ x \in Rows /\ x = OwnRow("ride", q) /\ x[1] = "ride"
  BY ComeFacts, RowsAre, OwnRowIs, RowParts DEF Shaped
<1>2. RideHeld(q, w, base, h) /\ SoFar(q, w, base, h)
  BY ComeFacts DEF SoFar
<1>3. q2.job = q.job /\ q2.r = q.r /\ q.pc \in Nat /\ q2.pc = q.pc + 1 /\ Passed(q, w, base)
  BY ComeFacts
<1> HIDE DEF view, x
<1>4. q2.pc = 7 => \E check : Statement(q2) = Lock("ride", check)
  BY <1>3, SelectText, UpsertText, RejectText, CancelText DEF OnRide
<1>5. Past(q2, x, 7) => Held(w, base, h, x)
  <2> HAVE Past(q2, x, 7)
  <2>1. PICK check : q2.pc = 7 => Statement(q2) = Lock("ride", check)
    BY <1>4
  <2>2. Past(q, x, 7) => Held(w, base, h, x)
    BY <1>2 DEF RideHeld, x
  <2>3. QED BY <1>1, <2>1, <2>2, ComeHeld
<1>6. q2.pc >= 9 => x \in h
  <2> HAVE q2.pc >= 9
  <2>1. CASE q.pc >= 9
    BY <1>2, <2>1 DEF RideHeld, x
  <2>2. CASE q.pc = 8
    <3>1. Held(w, base, h, x)
      BY <1>2, <2>2, ComePast DEF RideHeld, x
    <3>2. view[x].is # "none"
      <4>1. CASE q.job = "select"
        BY <1>2, <2>2, <4>1 DEF SoFar, SelectSoFar, view, x
      <4>2. CASE q.job = "upsert"
        BY <1>2, <2>2, <4>2 DEF SoFar, UpsertSoFar, view, x
      <4>3. CASE q.job = "reject"
        BY <1>2, <2>2, <4>3 DEF SoFar, RejectSoFar, view, x
      <4>4. CASE q.job \in {"cancel", "withdraw"}
        <5>1. Statement(q).check \in {"cancellable", "ownCancellable"}
          BY <2>2, <4>4, CancelText DEF LockIn, Update
        <5>2. Cancellable(q, view)
          BY <1>3, <5>1 DEF Passed, view
        <5>3. QED BY <5>2 DEF Cancellable, x
      <4>5. QED BY <4>1, <4>2, <4>3, <4>4 DEF OnRide
    <3>3. QED BY <3>1, <3>2 DEF Held, view
  <2>3. QED BY <1>3, <2>1, <2>2
<1>7. QED BY <1>3, <1>5, <1>6 DEF RideHeld, x

\* SelectOffer comes to its next statement.
LEMMA ComeSelect ==
  ASSUME NEW q, NEW w, NEW base, NEW h, NEW q2, Coming(q, w, base, h, q2), q.job = "select"
  PROVE  SelectSoFar(q2, w, base, h)
<1> DEFINE view == Overlay(w, base)
           p == <<q.r, q.d>>
           ride == view[RideRow(q.r)]
           xo == OfferRow(p)
           xp == OppRow(p)
           xt == TripRow(p)
           xd == ProfileRow(q.d)
<1>1. /\ SelectSoFar(q, w, base, h) /\ Passed(q, w, base) /\ q.pc \in Nat /\ q.pc > 0
      /\ q.r \in Rides /\ q.d \in Drivers /\ q.stamp \in Int /\ q2.stamp \in Int
      /\ q2.job = q.job /\ q2.r = q.r /\ q2.d = q.d /\ q2.pc = q.pc + 1
      /\ q.stamp <= q2.stamp /\ q2.pc <= 17
  <2>1. q2.pc <= 17
    BY ComeFacts DEF Shaped, Length
  <2>2. QED BY <2>1, ComeFacts DEF SoFar, Shaped, OnRide
<1>2. /\ RideRow(q.r) \in Rows /\ xo \in Rows /\ xp \in Rows /\ xt \in Rows /\ xd \in Rows
      /\ xo = OwnRow("offer", q) /\ xp = OwnRow("opp", q) /\ xt = OwnRow("trip", q)
      /\ xd = OwnRow("profile", q)
      /\ xo[1] = "offer" /\ xp[1] = "opp" /\ xt[1] = "trip" /\ xd[1] = "profile"
  BY <1>1, RowsAre, OwnRowIs, RowParts
<1>3. \A x : \A n \in Nat : /\ Past(q, x, n) <=> q.pc >= n
                            /\ Past(q2, x, n) <=> q.pc >= n \/ (q2.pc = n /\ x \notin q2.todo)
  BY ComePast
<1> HIDE DEF view, xo, xp, xt, xd
<1>4. Past(q2, xo, 8) => Held(w, base, h, xo)
  <2>1. q2.pc = 8 => Statement(q2) = Lock("offer", "offerActionable")
    BY <1>1, SelectText
  <2>2. Past(q, xo, 8) => Held(w, base, h, xo)
    BY <1>1 DEF SelectSoFar, xo
  <2>3. QED BY <1>2, <2>1, <2>2, ComeHeld
<1>5. Past(q2, xp, 9) => Held(w, base, h, xp)
  <2>1. q2.pc = 9 => Statement(q2) = Lock("opp", "oppOffered")
    BY <1>1, SelectText
  <2>2. Past(q, xp, 9) => Held(w, base, h, xp)
    BY <1>1 DEF SelectSoFar, xp
  <2>3. QED BY <1>2, <2>1, <2>2, ComeHeld
<1>6. Past(q2, xd, 10) => Held(w, base, h, xd)
  <2>1. q2.pc = 10 => Statement(q2) = Lock("profile", "none")
    BY <1>1, SelectText
  <2>2. Past(q, xd, 10) => Held(w, base, h, xd)
    BY <1>1 DEF SelectSoFar, xd
  <2>3. QED BY <1>2, <2>1, <2>2, ComeHeld
<1>7. /\ q2.pc \in 8..14 => ride.is = "requested"
      /\ q2.pc = 15 => ride.is \in {"requested", "accepted"}
      /\ q2.pc >= 16 => ride.is = "accepted" /\ RideRow(q.r) \in DOMAIN w
  <2>1. CASE q2.pc = 8
    <3>1. Statement(q).check = "rideOpen"
      BY <1>1, <2>1, SelectText DEF Lock, LockIn, Update
    <3>2. RideOpen(q, view)
      BY <1>1, <3>1 DEF Passed, view
    <3>3. QED BY <2>1, <3>2 DEF RideOpen
  <2>2. CASE q2.pc \in 9..15
    BY <1>1, <2>2 DEF SelectSoFar, view
  <2>3. CASE q2.pc = 16
    <3>1. Statement(q).check = "changed" /\ Statement(q).on = "ride" /\ Statement(q).to = "accepted"
      BY <1>1, <2>3, SelectText DEF MarkRideAccepted, Update
    <3>2. RideRow(q.r) \in DOMAIN w /\ w[RideRow(q.r)].is = "accepted"
      BY <1>1, <3>1, OwnRowIs DEF Passed
    <3>3. QED BY <1>2, <2>3, <3>2, Sees DEF view
  <2>4. CASE q2.pc = 17
    BY <1>1, <2>4 DEF SelectSoFar, view
  <2>5. QED BY <1>1, <2>1, <2>2, <2>3, <2>4
<1>8. q2.pc >= 9 => view[xo].is = IF Past(q2, xo, 12) THEN "accepted" ELSE "pending"
  <2>1. CASE q2.pc = 9
    <3>1. Statement(q).check = "offerActionable"
      BY <1>1, <2>1, SelectText DEF Lock, LockIn, Update
    <3>2. QED BY <1>1, <1>3, <2>1, <3>1 DEF Passed, view, xo
  <2>2. CASE q2.pc \in 10..11
    BY <1>1, <1>3, <2>2 DEF SelectSoFar, view, xo
  <2>3. CASE q2.pc = 12
    <3>1. Statement(q2) = Update("offer", "own", Existing, "always", "accepted", "none")
      BY <1>1, <2>3, SelectText DEF Set
    <3>2. view[xo].is = "pending" /\ "pending" \in Existing
      BY <1>1, <1>3, <2>3 DEF SelectSoFar, view, xo, Existing, Statuses
    <3>3. xo \in q2.todo
      BY <1>2, <3>1, <3>2, ComeOwn DEF view
    <3>4. QED BY <1>1, <1>3, <2>3, <3>2, <3>3
  <2>4. CASE q2.pc >= 13
    BY <1>1, <1>3, <2>4 DEF SelectSoFar, view, xo
  <2>5. QED BY <1>1, <2>1, <2>2, <2>3, <2>4
<1>9. q2.pc >= 10 => view[xp].is = IF Past(q2, xp, 13) THEN "accepted" ELSE "offered"
  <2>1. CASE q2.pc = 10
    <3>1. Statement(q).check = "oppOffered"
      BY <1>1, <2>1, SelectText DEF Lock, LockIn, Update
    <3>2. QED BY <1>1, <1>3, <2>1, <3>1 DEF Passed, view, xp
  <2>2. CASE q2.pc \in 11..12
    BY <1>1, <1>3, <2>2 DEF SelectSoFar, view, xp
  <2>3. CASE q2.pc = 13
    <3>1. Statement(q2) = Update("opp", "own", {"offered"}, "always", "accepted", "none")
      BY <1>1, <2>3, SelectText DEF Set
    <3>2. view[xp].is = "offered"
      BY <1>1, <1>3, <2>3 DEF SelectSoFar, view, xp
    <3>3. xp \in q2.todo
      BY <1>2, <3>1, <3>2, ComeOwn DEF view
    <3>4. QED BY <1>1, <1>3, <2>3, <3>2, <3>3
  <2>4. CASE q2.pc >= 14
    BY <1>1, <1>3, <2>4 DEF SelectSoFar, view, xp
  <2>5. QED BY <1>1, <2>1, <2>2, <2>3, <2>4
<1>10. /\ q2.pc = 11 => q2.judged = q2.stamp
       /\ q2.pc >= 12 => view[xd].is = "online" /\ Fresh(view[xd], q2.judged)
  <2>1. CASE q2.pc = 11
    <3>1. Statement(q2).check = "eligible"
      BY <1>1, <2>1, SelectText DEF Read, Update
    <3>2. QED BY <2>1, <3>1, ComeFacts
  <2>2. CASE q2.pc >= 12
    <3>1. Statement(q2).check # "eligible"
      <4>1. q2.pc \in 12..17
        BY <1>1, <2>2
      <4>2. QED BY <1>1, <4>1, SelectText DEF Set, Update, MarkRideAccepted
    <3>2. q2.judged = q.judged
      BY <3>1, ComeFacts
    <3>3. CASE q2.pc = 12
      <4>1. Statement(q).check = "eligible"
        BY <1>1, <3>3, SelectText DEF Read, Update
      <4>2. Eligible(q, view) /\ q.judged = q.stamp
        BY <1>1, <3>3, <4>1 DEF Passed, SelectSoFar, view
      <4>3. QED BY <3>2, <3>3, <4>2 DEF Eligible, xd
    <3>4. CASE q2.pc >= 13
      BY <1>1, <3>2, <3>4 DEF SelectSoFar, view, xd
    <3>5. QED BY <1>1, <2>2, <3>3, <3>4
  <2>3. QED BY <1>1, <2>1, <2>2
<1>11. Past(q2, xt, 14) =>
         xt \in DOMAIN w /\ view[xt].is = "assigned" /\ view[xt].at <= q2.stamp
  <2> HAVE Past(q2, xt, 14)
  <2>1. CASE q.pc >= 14
    <3>1. xt \in DOMAIN w /\ view[xt].is = "assigned" /\ view[xt].at <= q.stamp
      BY <1>1, <1>3, <2>1 DEF SelectSoFar, view, xt
    <3>2. view[xt].at \in Int
      BY <1>2, ComeFacts, SeesTyped DEF view, RowType
    <3>3. QED BY <1>1, <3>1, <3>2
  <2>2. CASE q2.pc = 14 /\ xt \notin q2.todo
    <3>1. Statement(q2) = Update("trip", "own", {"none"}, "always", "assigned", "driverFree")
      BY <1>1, <2>2, SelectText
    <3>2. view[xt].is # "none"
      BY <1>2, <2>2, <3>1, ComeOwn DEF view
    <3>3. ~Past(q, xt, 14)
      BY <1>1, <1>3, <2>2
    <3>4. xt \notin DOMAIN w
      BY <1>1, <3>3, ComeFacts DEF Moves, TripMove, xt
    <3>5. base[RideRow(q.r)].is = "requested"
      BY <1>1, <1>7, <2>2, ComeFacts, TrulyOpen DEF view
    <3>6. base[xt].is = "none"
      BY <1>1, <3>5, ComeFacts DEF RideAgrees, xt
    <3>7. QED BY <1>2, <3>2, <3>4, <3>6, Sees DEF view
  <2>3. QED BY <1>3, <2>1, <2>2
<1>12. q2.pc >= 15 => /\ \A r \in Rides \ {q.r} : base[TripRow(<<r, q.d>>)].is \notin ActiveTrip
                      /\ ride.is = "accepted" => view[xt].at < ride.at
  <2>1. CASE q2.pc = 15
    <3>1. Statement(q).check = "driverFree"
      BY <1>1, <2>1, SelectText DEF Update
    <3>2. ride.is = "requested"
      BY <1>1, <2>1 DEF SelectSoFar, view
    <3>3. QED BY <1>1, <3>1, <3>2 DEF Passed
  <2>2. CASE q2.pc >= 16
    BY <1>1, <2>2 DEF SelectSoFar, view, xt
  <2>3. QED BY <1>1, <2>1, <2>2
<1>13. ASSUME NEW d \in Drivers \ {q.d}
       PROVE  /\ Past(q2, OfferRow(<<q.r, d>>), 16) => view[OfferRow(<<q.r, d>>)].is # "pending"
              /\ Past(q2, OppRow(<<q.r, d>>), 17) => view[OppRow(<<q.r, d>>)].is # "offered"
  <2> DEFINE yo == OfferRow(<<q.r, d>>)
             yp == OppRow(<<q.r, d>>)
  <2>1. /\ yo \in Rows /\ yo[1] = "offer" /\ yo[2][1] = q.r /\ yo[2][2] = d
        /\ yp \in Rows /\ yp[1] = "opp" /\ yp[2][1] = q.r /\ yp[2][2] = d /\ d # q.d
    BY <1>1, <1>13, RowsAre, RowParts
  <2>2. /\ q.pc >= 16 => view[yo].is # "pending"
        /\ q.pc >= 17 => view[yp].is # "offered"
    BY <1>1, <1>3, <1>13 DEF SelectSoFar, view
  <2> HIDE DEF yo, yp
  <2>3. q2.pc = 16 /\ yo \notin q2.todo => view[yo].is # "pending"
    <3>1. q2.pc = 16 => Statement(q2) = Update("offer", "rivals", {"pending"}, "always", "closed", "none")
      BY <1>1, SelectText DEF Set
    <3>2. QED BY <2>1, <3>1, ComeOfRide DEF view
  <2>4. q2.pc = 17 /\ yp \notin q2.todo => view[yp].is # "offered"
    <3>1. q2.pc = 17 => Statement(q2) = Update("opp", "rivals", {"open", "offered"}, "always",
                                              "closed", "none")
      BY <1>1, SelectText DEF Set
    <3>2. QED BY <2>1, <3>1, ComeOfRide DEF view
  <2>5. QED BY <1>3, <2>2, <2>3, <2>4 DEF yo, yp
<1>14. /\ q2.r = q.r /\ q2.d = q.d
  BY <1>1
<1>15. QED
  BY <1>4, <1>5, <1>6, <1>7, <1>8, <1>9, <1>10, <1>11, <1>12, <1>13, <1>14
     DEF SelectSoFar, view, xo, xp, xt, xd

\* Upsert comes to its next statement.
LEMMA ComeUpsert ==
  ASSUME NEW q, NEW w, NEW base, NEW h, NEW q2, Coming(q, w, base, h, q2), q.job = "upsert"
  PROVE  UpsertSoFar(q2, w, base, h)
<1> DEFINE view == Overlay(w, base)
           p == <<q.r, q.d>>
           ride == view[RideRow(q.r)]
           xo == OfferRow(p)
           xp == OppRow(p)
<1>1. /\ UpsertSoFar(q, w, base, h) /\ Passed(q, w, base) /\ q.pc \in Nat /\ q.pc > 0
      /\ q.r \in Rides /\ q.d \in Drivers /\ Writes(q, w, h)
      /\ q2.job = q.job /\ q2.r = q.r /\ q2.d = q.d /\ q2.pc = q.pc + 1 /\ q2.pc <= 12
  <2>1. q2.pc <= 12
    BY ComeFacts DEF Shaped, Length
  <2>2. QED BY <2>1, ComeFacts DEF SoFar, Shaped, OnRide
<1>2. /\ xo \in Rows /\ xp \in Rows
      /\ xo = OwnRow("offer", q) /\ xp = OwnRow("opp", q) /\ xo[1] = "offer" /\ xp[1] = "opp"
  BY <1>1, RowsAre, OwnRowIs, RowParts
<1>3. \A x : \A n \in Nat : /\ Past(q, x, n) <=> q.pc >= n
                            /\ Past(q2, x, n) <=> q.pc >= n \/ (q2.pc = n /\ x \notin q2.todo)
  BY ComePast
<1> HIDE DEF view, xo, xp
<1>4. Past(q2, xp, 8) => Held(w, base, h, xp)
  <2>1. q2.pc = 8 => Statement(q2) = Lock("opp", "oppVisible")
    BY <1>1, UpsertText
  <2>2. Past(q, xp, 8) => Held(w, base, h, xp)
    BY <1>1 DEF UpsertSoFar, xp
  <2>3. QED BY <1>2, <2>1, <2>2, ComeHeld
<1>5. q2.pc >= 8 => ride.is = "requested"
  <2>1. CASE q2.pc = 8
    <3>1. Statement(q).check = "rideOpen"
      BY <1>1, <2>1, UpsertText DEF Lock, LockIn, Update
    <3>2. RideOpen(q, view)
      BY <1>1, <3>1 DEF Passed, view
    <3>3. QED BY <3>2 DEF RideOpen
  <2>2. CASE q2.pc >= 9
    BY <1>1, <2>2 DEF UpsertSoFar, view
  <2>3. QED BY <1>1, <2>1, <2>2
<1>6. q2.pc >= 9 => view[xp].is = IF Past(q2, xp, 12) THEN "offered" ELSE "open"
  <2>1. CASE q2.pc = 9
    <3>1. Statement(q).check = "oppVisible"
      BY <1>1, <2>1, UpsertText DEF Lock, LockIn, Update
    <3>2. QED BY <1>1, <1>3, <2>1, <3>1 DEF Passed, view, xp
  <2>2. CASE q2.pc \in 10..11
    BY <1>1, <1>3, <2>2 DEF UpsertSoFar, view, xp
  <2>3. CASE q2.pc = 12
    <3>1. Statement(q2) = Update("opp", "own", {"open"}, "always", "offered", "none")
      BY <1>1, <2>3, UpsertText DEF Set
    <3>2. view[xp].is = "open"
      BY <1>1, <1>3, <2>3 DEF UpsertSoFar, view, xp
    <3>3. xp \in q2.todo
      BY <1>2, <3>1, <3>2, ComeOwn DEF view
    <3>4. QED BY <1>1, <1>3, <2>3, <3>2, <3>3
  <2>4. QED BY <1>1, <2>1, <2>2, <2>3
<1>7. q2.pc >= 12 => view[xo].is = "pending" /\ xo \in h
  <2> HAVE q2.pc >= 12
  <2>1. q.pc = 11
    BY <1>1
  <2>2. Statement(q).check = "changed" /\ Statement(q).on = "offer" /\ Statement(q).to = "pending"
    BY <1>1, <2>1, UpsertText DEF Update
  <2>3. xo \in DOMAIN w /\ w[xo].is = "pending"
    BY <1>1, <1>2, <2>2 DEF Passed
  <2>4. QED BY <1>1, <1>2, <2>3, Sees DEF view, Writes
<1>8. QED BY <1>1, <1>4, <1>5, <1>6, <1>7 DEF UpsertSoFar, view, xo, xp

\* Reject comes to its next statement.
LEMMA ComeReject ==
  ASSUME NEW q, NEW w, NEW base, NEW h, NEW q2, Coming(q, w, base, h, q2), q.job = "reject"
  PROVE  RejectSoFar(q2, w, base, h)
<1> DEFINE view == Overlay(w, base)
           p == <<q.r, q.d>>
           ride == view[RideRow(q.r)]
           xo == OfferRow(p)
           xp == OppRow(p)
<1>1. /\ RejectSoFar(q, w, base, h) /\ Passed(q, w, base) /\ q.pc \in Nat /\ q.pc > 0
      /\ q.r \in Rides /\ q.d \in Drivers
      /\ q2.job = q.job /\ q2.r = q.r /\ q2.d = q.d /\ q2.pc = q.pc + 1 /\ q2.pc <= 10
  <2>1. q2.pc <= 10
    BY ComeFacts DEF Shaped, Length
  <2>2. QED BY <2>1, ComeFacts DEF SoFar, Shaped, OnRide
<1>2. /\ xo \in Rows /\ xp \in Rows
      /\ xo = OwnRow("offer", q) /\ xp = OwnRow("opp", q) /\ xo[1] = "offer" /\ xp[1] = "opp"
  BY <1>1, RowsAre, OwnRowIs, RowParts
<1>3. \A x : \A n \in Nat : /\ Past(q, x, n) <=> q.pc >= n
                            /\ Past(q2, x, n) <=> q.pc >= n \/ (q2.pc = n /\ x \notin q2.todo)
  BY ComePast
<1> HIDE DEF view, xo, xp
<1>4. Past(q2, xo, 8) => Held(w, base, h, xo)
  <2>1. q2.pc = 8 => Statement(q2) = Lock("offer", "offerPending")
    BY <1>1, RejectText
  <2>2. Past(q, xo, 8) => Held(w, base, h, xo)
    BY <1>1 DEF RejectSoFar, xo
  <2>3. QED BY <1>2, <2>1, <2>2, ComeHeld
<1>5. q2.pc >= 8 => ride.is = "requested"
  <2>1. CASE q2.pc = 8
    <3>1. Statement(q).check = "rideOpen"
      BY <1>1, <2>1, RejectText DEF Lock, LockIn, Update
    <3>2. RideOpen(q, view)
      BY <1>1, <3>1 DEF Passed, view
    <3>3. QED BY <3>2 DEF RideOpen
  <2>2. CASE q2.pc >= 9
    BY <1>1, <2>2 DEF RejectSoFar, view
  <2>3. QED BY <1>1, <2>1, <2>2
<1>6. q2.pc = 9 => view[xo].is = "pending" /\ view[xp].is = "offered"
  <2> HAVE q2.pc = 9
  <2>1. view[xo].is = "pending"
    <3>1. Statement(q).check = "offerPending"
      BY <1>1, RejectText DEF Lock, LockIn, Update
    <3>2. QED BY <1>1, <3>1 DEF Passed, view, xo
  <2>2. ride.is = "requested" /\ base[RideRow(q.r)].is = "requested"
    BY <1>1, <1>5, ComeFacts, TrulyOpen DEF view
  <2>3. xo \notin DOMAIN w
    <3> SUFFICES ASSUME xo \in DOMAIN w
                 PROVE  FALSE
      OBVIOUS
    <3>1. OfferMove(q, w, base, q.r, q.d)
      BY <1>1, ComeFacts DEF Moves, xo
    <3>2. w[xo].is = "pending"
      BY <1>2, <2>1, Sees DEF view
    <3>3. QED BY <1>1, <3>1, <3>2 DEF OfferMove, xo
  <2>4. base[xo].is = "pending"
    BY <1>2, <2>1, <2>3, Sees DEF view
  <2>5. base[xp].is = "offered"
    BY <1>1, <2>2, <2>4, ComeFacts DEF RideAgrees, xo, xp
  <2>6. xp \notin DOMAIN w
    <3> SUFFICES ASSUME xp \in DOMAIN w
                 PROVE  FALSE
      OBVIOUS
    <3>1. OppMove(q, w, base, q.r, q.d)
      BY <1>1, ComeFacts DEF Moves, xp
    <3>2. QED BY <1>1, <2>1, <2>2, <2>5, <3>1 DEF OppMove, Decided, view, xo, xp
  <2>7. view[xp] = base[xp]
    BY <1>2, <2>6, Sees DEF view
  <2>8. QED BY <2>1, <2>5, <2>7
<1>7. q2.pc >= 9 => /\ view[xo].is = IF Past(q2, xo, 9) THEN "rejected" ELSE "pending"
                    /\ view[xp].is = IF Past(q2, xp, 10) THEN "rider_rejected" ELSE "offered"
  <2>1. CASE q2.pc = 9
    <3>1. Statement(q2) = Update("offer", "own", Existing, "always", "rejected", "none")
      BY <1>1, <2>1, RejectText DEF Set
    <3>2. "pending" \in Existing
      BY DEF Existing, Statuses
    <3>3. xo \in q2.todo
      BY <1>2, <1>6, <2>1, <3>1, <3>2, ComeOwn DEF view
    <3>4. QED BY <1>1, <1>3, <1>6, <2>1, <3>3
  <2>2. CASE q2.pc = 10
    <3>1. Statement(q2) = Update("opp", "own", {"offered"}, "always", "rider_rejected", "none")
      BY <1>1, <2>2, RejectText DEF Set
    <3>2. q.pc = 9 /\ view[xo].is = "rejected" /\ view[xp].is = "offered"
      BY <1>1, <1>3, <2>2 DEF RejectSoFar, view, xo, xp
    <3>3. xp \in q2.todo
      BY <1>2, <3>1, <3>2, ComeOwn DEF view
    <3>4. QED BY <1>1, <1>3, <2>2, <3>2, <3>3
  <2>3. QED BY <1>1, <2>1, <2>2
<1>8. QED BY <1>1, <1>4, <1>5, <1>7 DEF RejectSoFar, view, xo, xp

\* A cancellation comes to its next statement.
LEMMA ComeCancel ==
  ASSUME NEW q, NEW w, NEW base, NEW h, NEW q2, Coming(q, w, base, h, q2),
         q.job \in {"cancel", "withdraw"}
  PROVE  CancelSoFar(q2, w, base, h)
<1> DEFINE view == Overlay(w, base)
           xr == RideRow(q.r)
<1>1. /\ CancelSoFar(q, w, base, h) /\ Passed(q, w, base) /\ q.pc \in Nat /\ q.pc > 0
      /\ q.r \in Rides
      /\ q2.job = q.job /\ q2.r = q.r /\ q2.d = q.d /\ q2.pc = q.pc + 1 /\ q2.pc <= 12
  <2>1. q2.pc <= 12
    BY ComeFacts DEF Shaped, Length
  <2>2. QED BY <2>1, ComeFacts DEF SoFar, Shaped, OnRide
<1>2. xr \in Rows /\ xr = OwnRow("ride", q) /\ xr[1] = "ride"
  BY <1>1, RowsAre, OwnRowIs, RowParts
<1>3. \A x : \A n \in Nat : /\ Past(q, x, n) <=> q.pc >= n
                            /\ Past(q2, x, n) <=> q.pc >= n \/ (q2.pc = n /\ x \notin q2.todo)
  BY ComePast
<1> HIDE DEF view, xr
<1>4. q2.pc = 9 => Cancellable(q, view)
  <2> HAVE q2.pc = 9
  <2>1. Statement(q).check \in {"cancellable", "ownCancellable"}
    BY <1>1, CancelText DEF LockIn, Update
  <2>2. QED BY <1>1, <2>1 DEF Passed, view
<1>5. q2.pc >= 9 => IF Past(q2, xr, 9) THEN view[xr].is = "cancelled"
                                       ELSE view[xr].is \in {"requested", "accepted"}
  <2>1. CASE q2.pc = 9
    <3>1. Statement(q2) = Update("ride", "own", Existing, "always", "cancelled", "none")
      BY <1>1, <2>1, CancelText DEF Set
    <3>2. view[xr].is \in {"requested", "accepted"}
      BY <1>4, <2>1 DEF Cancellable, xr
    <3>3. "requested" \in Existing /\ "accepted" \in Existing
      BY DEF Existing, Statuses
    <3>4. xr \in q2.todo
      BY <1>2, <3>1, <3>2, <3>3, ComeOwn DEF view
    <3>5. QED BY <1>1, <1>3, <2>1, <3>2, <3>4
  <2>2. CASE q2.pc >= 10
    BY <1>1, <1>3, <2>2 DEF CancelSoFar, view, xr
  <2>3. QED BY <1>1, <2>1, <2>2
<1>6. ASSUME NEW d \in Drivers
      PROVE  LET trip == TripRow(<<q.r, d>>)
             IN  /\ Past(q2, trip, 8) /\ (q.job = "cancel" \/ q.d = d) => Held(w, base, h, trip)
                 /\ q2.pc >= 9 => /\ Held(w, base, h, trip)
                                  /\ IF Past(q2, trip, 10)
                                     THEN view[trip].is \in {"none", "cancelled"}
                                     ELSE view[trip].is \in {"none"} \cup ActiveTrip
  <2> DEFINE trip == TripRow(<<q.r, d>>)
  <2>1. /\ trip \in Rows /\ trip[1] = "trip" /\ trip[2][1] = q.r /\ trip[2][2] = d
        /\ q.d = d => trip = OwnRow("trip", q)
    BY <1>1, <1>6, RowsAre, RowParts, OwnRowIs
  <2>2. /\ q.pc >= 8 /\ (q.job = "cancel" \/ q.d = d) => Held(w, base, h, trip)
        /\ q.pc >= 9 => /\ Held(w, base, h, trip)
                        /\ IF Past(q, trip, 10)
                           THEN view[trip].is \in {"none", "cancelled"}
                           ELSE view[trip].is \in {"none"} \cup ActiveTrip
    BY <1>1, <1>3, <1>6 DEF CancelSoFar, view
  <2> HIDE DEF trip
  <2>3. q2.pc = 8 /\ trip \notin q2.todo /\ (q.job = "cancel" \/ q.d = d) => Held(w, base, h, trip)
    <3> HAVE q2.pc = 8 /\ trip \notin q2.todo /\ (q.job = "cancel" \/ q.d = d)
    <3>1. view[trip].is \notin Existing
      <4>1. CASE q.job = "cancel"
        <5>1. Statement(q2) = Update("trip", "ofRide", Existing, "always", "same", "cancellable")
          BY <1>1, <4>1, CancelText DEF LockIn
        <5>2. QED BY <2>1, <5>1, ComeOfRide DEF view
      <4>2. CASE q.job = "withdraw" /\ q.d = d
        <5>1. Statement(q2) = Update("trip", "own", Existing, "always", "same", "ownCancellable")
          BY <1>1, <4>2, CancelText DEF LockIn
        <5>2. QED BY <2>1, <4>2, <5>1, ComeOwn DEF view
      <4>3. QED BY <4>1, <4>2
    <3>2. QED BY <2>1, <3>1, ComeFacts, Exists DEF Held, view
  <2>4. q2.pc = 9 => Held(w, base, h, trip) /\ view[trip].is \in {"none"} \cup ActiveTrip
    <3> HAVE q2.pc = 9
    <3>1. view[trip].is \in {"none"} \cup ActiveTrip
      <4>1. view[trip].is \in Statuses["trip"]
        <5>1. view[trip].is \in Statuses[trip[1]]
          BY <2>1, ComeFacts, SeesTyped DEF view
        <5>2. QED BY <2>1, <5>1
      <4>2. view[trip].is \notin {"completed", "settled", "cancelled"}
        BY <1>4, <1>6 DEF Cancellable, trip
      <4>3. QED BY <4>1, <4>2, StatusesAre DEF ActiveTrip
    <3>2. Held(w, base, h, trip)
      <4>1. CASE q.job = "cancel" \/ q.d = d
        BY <1>1, <2>2, <4>1
      <4>2. CASE q.job = "withdraw" /\ q.d # d
        <5>1. q.d \in Drivers /\ Moves(q, w, base)
          BY <1>1, <4>2, ComeFacts DEF Shaped, OnRide
        <5>2. \A e \in Drivers : view[TripRow(<<q.r, e>>)] = base[TripRow(<<q.r, e>>)]
          <6> TAKE e \in Drivers
          <6>1. TripRow(<<q.r, e>>) \in Rows
            BY <1>1, RowsAre
          <6>2. TripRow(<<q.r, e>>) \notin DOMAIN w
            BY <1>1, <4>2, <5>1 DEF Moves, TripMove
          <6>3. QED BY <6>1, <6>2, Sees DEF view
        <5>3. view[TripRow(<<q.r, q.d>>)].is # "none"
          <6>1. Statement(q).check = "ownCancellable"
            BY <1>1, <4>2, CancelText DEF LockIn, Update
          <6>2. QED BY <1>1, <6>1 DEF Passed, view
        <5>4. base[TripRow(<<q.r, q.d>>)].is # "none"
          BY <5>1, <5>2, <5>3
        <5>5. base[TripRow(<<q.r, d>>)].is = "none"
          <6>1. RideAgrees(q.r, base)
            BY <1>1, ComeFacts
          <6>2. QED BY <1>6, <4>2, <5>1, <5>4, <6>1 DEF RideAgrees
        <5>6. QED BY <1>6, <5>2, <5>5 DEF Held, view, trip
      <4>3. QED BY <1>1, <4>1, <4>2
    <3>3. QED BY <3>1, <3>2
  <2>5. q2.pc = 10 /\ trip \notin q2.todo => view[trip].is = "none"
    <3> HAVE q2.pc = 10 /\ trip \notin q2.todo
    <3>1. Statement(q2) = Update("trip", "ofRide", Existing, "always", "cancelled", "none")
      BY <1>1, CancelText DEF Set
    <3>2. view[trip].is \notin Existing
      BY <2>1, <3>1, ComeOfRide DEF view
    <3>3. QED BY <2>1, <3>2, ComeFacts, Exists DEF view
  <2>6. Past(q2, trip, 8) /\ (q.job = "cancel" \/ q.d = d) => Held(w, base, h, trip)
    BY <1>1, <1>3, <2>2, <2>3
  <2>7. q2.pc >= 9 => Held(w, base, h, trip)
    BY <1>1, <2>2, <2>4
  <2>8. q2.pc >= 9 => IF Past(q2, trip, 10) THEN view[trip].is \in {"none", "cancelled"}
                                            ELSE view[trip].is \in {"none"} \cup ActiveTrip
    BY <1>1, <1>3, <2>2, <2>4, <2>5
  <2>9. QED BY <2>6, <2>7, <2>8 DEF trip
<1>7. ASSUME NEW d \in Drivers
      PROVE  /\ Past(q2, OfferRow(<<q.r, d>>), 11) => view[OfferRow(<<q.r, d>>)].is # "pending"
             /\ Past(q2, OppRow(<<q.r, d>>), 12) => view[OppRow(<<q.r, d>>)].is # "offered"
  <2> DEFINE yo == OfferRow(<<q.r, d>>)
             yp == OppRow(<<q.r, d>>)
  <2>1. /\ yo \in Rows /\ yo[1] = "offer" /\ yo[2][1] = q.r
        /\ yp \in Rows /\ yp[1] = "opp" /\ yp[2][1] = q.r
    BY <1>1, <1>7, RowsAre, RowParts
  <2>2. q.pc >= 11 => view[yo].is # "pending"
    BY <1>1, <1>3, <1>7 DEF CancelSoFar, view
  <2> HIDE DEF yo, yp
  <2>3. q2.pc = 11 /\ yo \notin q2.todo => view[yo].is # "pending"
    <3>1. q2.pc = 11 => Statement(q2) = Update("offer", "ofRide", {"pending"}, "always", "closed", "none")
      BY <1>1, CancelText DEF Set
    <3>2. QED BY <2>1, <3>1, ComeOfRide DEF view
  <2>4. q2.pc = 12 /\ yp \notin q2.todo => view[yp].is # "offered"
    <3>1. q2.pc = 12 => Statement(q2) = Update("opp", "ofRide", {"open", "offered"}, "always",
                                              "closed", "none")
      BY <1>1, CancelText DEF Set
    <3>2. QED BY <2>1, <3>1, ComeOfRide DEF view
  <2>5. q.pc < 12
    BY <1>1
  <2>6. QED BY <1>1, <1>3, <2>2, <2>3, <2>4, <2>5 DEF yo, yp
<1>8. QED BY <1>1, <1>5, <1>6, <1>7 DEF CancelSoFar, view, xr

\* Whatever it comes to, a transaction stays as it should be.
LEMMA ComeGood ==
  ASSUME NEW q, NEW w, NEW base, NEW h, NEW q2, Coming(q, w, base, h, q2)
  PROVE  Good(q2, w, base, h)
<1>1. q2.job = q.job /\ Shaped(q2) /\ Targets(q2, w, base)
  BY ComeFacts
<1>2. SoFar(q2, w, base, h)
  BY <1>1, ComeRideHeld, ComeSelect, ComeUpsert, ComeReject, ComeCancel DEF SoFar
<1>3. QED BY <1>1, <1>2, ComeMoves DEF Good

-----------------------------------------------------------------------------
(***************************************************************************)
(* A transaction commits.                                                  *)
(***************************************************************************)
\* The transaction changes ride r by more than the lapse of deadlines.
Owns(q, r) == q.job \in OnRide /\ q.r = r /\ q.pc >= 9

\* The ride, the offer and the opportunity of a pair are as they were or lapsed.
Lapses(base, view, r, d) ==
  LET ride == view[RideRow(r)].is
      offer == base[OfferRow(<<r, d>>)].is
      offer2 == view[OfferRow(<<r, d>>)].is
      opp == base[OppRow(<<r, d>>)].is
      opp2 == view[OppRow(<<r, d>>)].is
  IN  /\ \/ offer2 = offer
         \/ offer = "pending" /\ offer2 = "expired"
         \/ offer = "pending" /\ offer2 = "closed" /\ ride \in Decided
      /\ \/ opp2 = opp
         \/ opp = "open" /\ opp2 \in {"window_expired", "driver_skipped"}
         \/ opp = "offered" /\ opp2 = "offer_expired" /\ offer2 = "expired"
         \/ opp \in {"open", "offered"} /\ opp2 = "closed" /\ ride \in Decided

\* The rows of a pair that the handler is not about lapse at most.
LEMMA OthersLapse ==
  ASSUME NEW q, NEW w, NEW base, Moves(q, w, base), NEW r \in Rides, NEW d \in Drivers,
         ~(q.job \in {"select", "upsert", "reject"} /\ q.r = r /\ q.d = d /\ q.pc >= 9)
  PROVE  Lapses(base, Overlay(w, base), r, d)
<1> DEFINE xo == OfferRow(<<r, d>>)
           xp == OppRow(<<r, d>>)
           view == Overlay(w, base)
<1>1. /\ view[xo] = IF xo \in DOMAIN w THEN w[xo] ELSE base[xo]
      /\ view[xp] = IF xp \in DOMAIN w THEN w[xp] ELSE base[xp]
  BY RowsAre, Sees
<1>2. xo \in DOMAIN w => OfferMove(q, w, base, r, d)
  BY DEF Moves
<1>3. xp \in DOMAIN w => OppMove(q, w, base, r, d)
  BY DEF Moves
<1> HIDE DEF view
<1>4. \/ view[xo].is = base[xo].is
      \/ base[xo].is = "pending" /\ view[xo].is = "expired"
      \/ base[xo].is = "pending" /\ view[xo].is = "closed" /\ view[RideRow(r)].is \in Decided
  BY <1>1, <1>2 DEF OfferMove, view
<1>5. \/ view[xp].is = base[xp].is
      \/ base[xp].is = "open" /\ view[xp].is \in {"window_expired", "driver_skipped"}
      \/ base[xp].is = "offered" /\ view[xp].is = "offer_expired" /\ view[xo].is = "expired"
      \/ base[xp].is \in {"open", "offered"} /\ view[xp].is = "closed" /\ view[RideRow(r)].is \in Decided
  BY <1>1, <1>3 DEF OppMove, view
<1>6. QED BY <1>4, <1>5 DEF Lapses, view

\* What becomes of the ride and the trips of a ride it does not own.
LEMMA OthersRide ==
  ASSUME NEW q, NEW w, NEW base, Moves(q, w, base), q.pc \in Nat, NEW r \in Rides, ~Owns(q, r)
  PROVE  LET view == Overlay(w, base)
         IN  /\ \/ view[RideRow(r)].is = base[RideRow(r)].is
                \/ base[RideRow(r)].is = "requested" /\ view[RideRow(r)].is = "expired"
             /\ \A d \in Drivers :
                  LET old == base[TripRow(<<r, d>>)].is
                      new == view[TripRow(<<r, d>>)].is
                  IN  \/ new = old
                      \/ q.job = "start" /\ old = "assigned" /\ new = "in_progress"
                      \/ q.job = "complete" /\ old = "in_progress" /\ new = "completed"
                      \/ q.job = "collect" /\ old = "completed" /\ new = "settled"
<1> DEFINE view == Overlay(w, base)
<1>1. \/ view[RideRow(r)].is = base[RideRow(r)].is
      \/ base[RideRow(r)].is = "requested" /\ view[RideRow(r)].is = "expired"
  BY RowsAre, Sees DEF Moves, RideMove, Owns, OnRide
<1>2. ASSUME NEW d \in Drivers
      PROVE  LET old == base[TripRow(<<r, d>>)].is
                 new == view[TripRow(<<r, d>>)].is
             IN  \/ new = old
                 \/ q.job = "start" /\ old = "assigned" /\ new = "in_progress"
                 \/ q.job = "complete" /\ old = "in_progress" /\ new = "completed"
                 \/ q.job = "collect" /\ old = "completed" /\ new = "settled"
  <2>1. TripRow(<<r, d>>) \in DOMAIN w => TripMove(q, w, base, r, d)
    BY DEF Moves
  <2>2. Past(q, TripRow(<<r, d>>), 14) => q.pc >= 9
    BY DEF Past
  <2>3. view[TripRow(<<r, d>>)] = IF TripRow(<<r, d>>) \in DOMAIN w
                                  THEN w[TripRow(<<r, d>>)] ELSE base[TripRow(<<r, d>>)]
    BY RowsAre, Sees
  <2>4. QED BY <2>1, <2>2, <2>3 DEF TripMove, Owns, OnRide
<1>3. QED BY <1>1, <1>2

\* The trips that rows tell of.
Trips(r, rows) == {d \in Drivers : rows[TripRow(<<r, d>>)].is # "none"}

\* The two halves of the agreement of a ride's rows: the ride and its trips,
\* and the rows of one driver.
RideTrips(r, rows) ==
  LET is == rows[RideRow(r)].is
  IN  /\ is = "accepted" => Trips(r, rows) # {}
      /\ is \notin {"accepted", "cancelled"} => Trips(r, rows) = {}
      /\ \A d, e \in Trips(r, rows) : d = e

PairAgrees(r, d, rows) ==
  LET is == rows[RideRow(r)].is
      offer == rows[OfferRow(<<r, d>>)].is
      opp == rows[OppRow(<<r, d>>)].is
      trip == rows[TripRow(<<r, d>>)].is
  IN  /\ (offer = "accepted" <=> trip # "none") /\ (opp = "accepted" <=> trip # "none")
      /\ trip = "cancelled" <=> (trip # "none" /\ is = "cancelled")
      /\ is \in {"accepted", "cancelled"} => offer # "pending" /\ opp # "offered"
      /\ offer = "pending" => opp = "offered" \/ (opp = "closed" /\ is = "expired")
      /\ offer = "rejected" <=> opp = "rider_rejected"

\* The rows of a ride agree when both halves do.
LEMMA AgreesIs ==
  ASSUME NEW r, NEW rows
  PROVE  RideAgrees(r, rows) <=> RideTrips(r, rows) /\ \A d \in Drivers : PairAgrees(r, d, rows)
BY DEF RideAgrees, RideTrips, PairAgrees, Trips

\* A pair that lapsed agrees, whatever else the transaction did to the ride
\* or the trip of the pair, as long as it leaves nothing waiting.
LEMMA LapsedPair ==
  ASSUME NEW r, NEW d, NEW base, NEW view, PairAgrees(r, d, base), Lapses(base, view, r, d),
         LET ride == base[RideRow(r)].is
             ride2 == view[RideRow(r)].is
             trip == base[TripRow(<<r, d>>)].is
             trip2 == view[TripRow(<<r, d>>)].is
         IN  /\ trip = "none" <=> trip2 = "none"
             /\ trip2 = "cancelled" <=> (trip2 # "none" /\ ride2 = "cancelled")
             /\ ride = "expired" => ride2 = "expired"
             /\ ride2 \in {"accepted", "cancelled"} =>
                  /\ view[OfferRow(<<r, d>>)].is # "pending"
                  /\ view[OppRow(<<r, d>>)].is # "offered"
  PROVE  PairAgrees(r, d, view)
BY DEF PairAgrees, Lapses, Decided

\* The rows of a ride that the transaction does not own agree.
LEMMA LapsesAgree ==
  ASSUME NEW q, NEW w, NEW base, Moves(q, w, base), q.pc \in Nat, NEW r \in Rides, ~Owns(q, r),
         RideAgrees(r, base)
  PROVE  RideAgrees(r, Overlay(w, base))
<1> DEFINE view == Overlay(w, base)
<1>1. RideTrips(r, base) /\ \A d \in Drivers : PairAgrees(r, d, base)
  BY AgreesIs
<1>2. /\ \/ view[RideRow(r)].is = base[RideRow(r)].is
         \/ base[RideRow(r)].is = "requested" /\ view[RideRow(r)].is = "expired"
      /\ \A d \in Drivers :
           LET old == base[TripRow(<<r, d>>)].is
               new == view[TripRow(<<r, d>>)].is
           IN  \/ new = old
               \/ q.job = "start" /\ old = "assigned" /\ new = "in_progress"
               \/ q.job = "complete" /\ old = "in_progress" /\ new = "completed"
               \/ q.job = "collect" /\ old = "completed" /\ new = "settled"
  BY OthersRide
<1>3. \A d \in Drivers : Lapses(base, view, r, d)
  BY OthersLapse DEF Owns, OnRide
<1> HIDE DEF view
<1>4. Trips(r, view) = Trips(r, base)
  BY <1>2 DEF Trips
<1>5. RideTrips(r, view)
  BY <1>1, <1>2, <1>4 DEF RideTrips
<1>6. ASSUME NEW d \in Drivers
      PROVE  PairAgrees(r, d, view)
  <2>1. Lapses(base, view, r, d) /\ PairAgrees(r, d, base)
    BY <1>1, <1>3, <1>6
  <2> DEFINE trip == base[TripRow(<<r, d>>)].is
             trip2 == view[TripRow(<<r, d>>)].is
             ride == base[RideRow(r)].is
             ride2 == view[RideRow(r)].is
  <2>2. trip = "none" <=> trip2 = "none"
    BY <1>2, <1>6
  <2>3. ride2 \in {"accepted", "cancelled"} => ride2 = ride
    BY <1>2
  <2>4. trip2 = "cancelled" <=> (trip2 # "none" /\ ride2 = "cancelled")
    <3>1. trip = "cancelled" <=> (trip # "none" /\ ride = "cancelled")
      BY <2>1 DEF PairAgrees
    <3>2. trip2 = "cancelled" <=> trip = "cancelled"
      <4>1. \/ trip2 = trip
            \/ trip = "assigned" /\ trip2 = "in_progress"
            \/ trip = "in_progress" /\ trip2 = "completed"
            \/ trip = "completed" /\ trip2 = "settled"
        BY <1>2, <1>6
      <4>2. QED BY <4>1
    <3>3. ride2 = "cancelled" <=> ride = "cancelled"
      BY <1>2
    <3>4. QED BY <2>2, <3>1, <3>2, <3>3
  <2>5. ride2 \in {"accepted", "cancelled"} =>
          view[OfferRow(<<r, d>>)].is # "pending" /\ view[OppRow(<<r, d>>)].is # "offered"
    BY <2>1, <2>3 DEF PairAgrees, Lapses
  <2>6. ride = "expired" => ride2 = "expired"
    BY <1>2
  <2>7. QED BY <2>1, <2>2, <2>4, <2>5, <2>6, LapsedPair
<1>7. QED BY <1>5, <1>6, AgreesIs DEF view

\* The transaction has run its whole program.
Finished(q, w, base, h) ==
  /\ Good(q, w, base, h) /\ base \in Tables /\ \A r \in Rides : RideAgrees(r, base)
  /\ q.pc > 0 /\ q.pc = Length[q.job] /\ q.todo = {}

\* The rows of a ride that was given to a driver agree.
LEMMA SelectAgrees ==
  ASSUME NEW q, NEW w, NEW base, NEW h, Finished(q, w, base, h), q.job = "select"
  PROVE  RideAgrees(q.r, Overlay(w, base))
<1> DEFINE view == Overlay(w, base)
           r == q.r
           p == <<q.r, q.d>>
<1>1. /\ SelectSoFar(q, w, base, h) /\ Moves(q, w, base) /\ r \in Rides /\ q.d \in Drivers
      /\ q.pc = 17 /\ q.todo = {} /\ q.job \in OnRide /\ RideAgrees(r, base)
  BY DEF Finished, Good, SoFar, Shaped, Length, OnRide
<1>2. \A x : \A n \in 0..17 : Past(q, x, n)
  BY <1>1 DEF Past
<1> HIDE DEF view
<1>3. view[RideRow(r)].is = "accepted" /\ RideRow(r) \in DOMAIN w
  BY <1>1 DEF SelectSoFar, view
<1>4. base[RideRow(r)].is = "requested"
  <2>1. RideMove(q, w, base, r)
    BY <1>1, <1>3 DEF Moves
  <2>2. w[RideRow(r)].is = "accepted"
    BY <1>1, <1>3, RowsAre, Sees DEF view
  <2>3. QED BY <2>1, <2>2 DEF RideMove
<1>5. /\ Trips(r, base) = {}
      /\ \A d \in Drivers : PairAgrees(r, d, base) /\ base[TripRow(<<r, d>>)].is = "none"
  <2>1. RideTrips(r, base) /\ \A d \in Drivers : PairAgrees(r, d, base)
    BY <1>1, AgreesIs
  <2>2. QED BY <1>4, <2>1 DEF RideTrips, Trips
<1>6. /\ view[OfferRow(p)].is = "accepted" /\ view[OppRow(p)].is = "accepted"
      /\ view[TripRow(p)].is = "assigned"
  BY <1>1, <1>2 DEF SelectSoFar, view
<1>7. ASSUME NEW d \in Drivers, d # q.d
      PROVE  /\ view[TripRow(<<r, d>>)].is = "none"
             /\ view[OfferRow(<<r, d>>)].is # "pending"
             /\ view[OppRow(<<r, d>>)].is # "offered"
             /\ Lapses(base, view, r, d)
  <2>1. TripRow(<<r, d>>) \notin DOMAIN w
    BY <1>1, <1>7 DEF Moves, TripMove
  <2>2. view[TripRow(<<r, d>>)].is = "none"
    BY <1>1, <1>5, <1>7, <2>1, RowsAre, Sees DEF view
  <2>3. view[OfferRow(<<r, d>>)].is # "pending" /\ view[OppRow(<<r, d>>)].is # "offered"
    BY <1>1, <1>2, <1>7 DEF SelectSoFar, view
  <2>4. Lapses(base, view, r, d)
    BY <1>1, <1>7, OthersLapse DEF view
  <2>5. QED BY <2>2, <2>3, <2>4
<1>8. Trips(r, view) = {q.d}
  BY <1>1, <1>6, <1>7 DEF Trips
<1>9. RideTrips(r, view)
  BY <1>3, <1>8 DEF RideTrips
<1>10. ASSUME NEW d \in Drivers
       PROVE  PairAgrees(r, d, view)
  <2>1. CASE d = q.d
    BY <1>3, <1>6, <2>1 DEF PairAgrees
  <2>2. CASE d # q.d
    BY <1>3, <1>4, <1>5, <1>7, <1>10, <2>2, LapsedPair
  <2>3. QED BY <2>1, <2>2
<1>11. QED BY <1>9, <1>10, AgreesIs DEF view

\* What an answer to an offer leaves of the other drivers' rows.
LEMMA AnswerAgrees ==
  ASSUME NEW q, NEW w, NEW base, NEW h, Finished(q, w, base, h), q.job \in {"upsert", "reject"},
         Overlay(w, base)[RideRow(q.r)].is = "requested",
         LET offer == Overlay(w, base)[OfferRow(<<q.r, q.d>>)].is
             opp == Overlay(w, base)[OppRow(<<q.r, q.d>>)].is
         IN  \/ offer = "pending" /\ opp = "offered"
             \/ offer = "rejected" /\ opp = "rider_rejected"
  PROVE  RideAgrees(q.r, Overlay(w, base))
<1> DEFINE view == Overlay(w, base)
           r == q.r
<1>1. /\ Moves(q, w, base) /\ r \in Rides /\ q.d \in Drivers /\ RideAgrees(r, base)
  BY DEF Finished, Good, Shaped, OnRide
<1> HIDE DEF view
<1>2. base[RideRow(r)].is = "requested"
  BY <1>1, TrulyOpen
<1>3. \A d \in Drivers : PairAgrees(r, d, base) /\ base[TripRow(<<r, d>>)].is = "none"
  <2>1. RideTrips(r, base) /\ \A d \in Drivers : PairAgrees(r, d, base)
    BY <1>1, AgreesIs
  <2>2. QED BY <1>2, <2>1 DEF RideTrips, Trips
<1>4. \A d \in Drivers : view[TripRow(<<r, d>>)].is = "none"
  <2> TAKE d \in Drivers
  <2>1. TripRow(<<r, d>>) \notin DOMAIN w
    BY <1>1 DEF Moves, TripMove
  <2>2. QED BY <1>1, <1>3, <2>1, RowsAre, Sees DEF view
<1>5. RideTrips(r, view)
  BY <1>4 DEF RideTrips, Trips, view
<1>6. ASSUME NEW d \in Drivers
      PROVE  PairAgrees(r, d, view)
  <2>1. CASE d = q.d
    BY <1>4, <2>1 DEF PairAgrees, view
  <2>2. CASE d # q.d
    <3>1. Lapses(base, view, r, d)
      BY <1>1, <1>6, <2>2, OthersLapse DEF view
    <3>2. view[RideRow(r)].is = "requested"
      BY DEF view
    <3>3. QED BY <1>2, <1>3, <1>4, <1>6, <3>1, <3>2, LapsedPair
  <2>3. QED BY <2>1, <2>2
<1>7. QED BY <1>5, <1>6, AgreesIs DEF view

\* The rows of a ride that was cancelled agree.
LEMMA CancelAgrees ==
  ASSUME NEW q, NEW w, NEW base, NEW h, Finished(q, w, base, h), q.job \in {"cancel", "withdraw"}
  PROVE  RideAgrees(q.r, Overlay(w, base))
<1> DEFINE view == Overlay(w, base)
           r == q.r
<1>1. /\ CancelSoFar(q, w, base, h) /\ Moves(q, w, base) /\ r \in Rides
      /\ q.pc = 12 /\ q.todo = {} /\ RideAgrees(r, base)
  BY DEF Finished, Good, SoFar, Shaped, Length, OnRide
<1>2. \A x : \A n \in 0..12 : Past(q, x, n)
  BY <1>1 DEF Past
<1> HIDE DEF view
<1>3. view[RideRow(r)].is = "cancelled"
  BY <1>1, <1>2 DEF CancelSoFar, view
<1>4. RideTrips(r, base) /\ \A d \in Drivers : PairAgrees(r, d, base)
  BY <1>1, AgreesIs
<1>5. ASSUME NEW d \in Drivers
      PROVE  /\ view[TripRow(<<r, d>>)].is \in {"none", "cancelled"}
             /\ view[TripRow(<<r, d>>)].is = "none" <=> base[TripRow(<<r, d>>)].is = "none"
             /\ view[OfferRow(<<r, d>>)].is # "pending"
             /\ view[OppRow(<<r, d>>)].is # "offered"
             /\ Lapses(base, view, r, d)
  <2>1. /\ view[TripRow(<<r, d>>)].is \in {"none", "cancelled"}
        /\ view[OfferRow(<<r, d>>)].is # "pending"
        /\ view[OppRow(<<r, d>>)].is # "offered"
    BY <1>1, <1>2, <1>5 DEF CancelSoFar, view
  <2>2. TripRow(<<r, d>>) \in DOMAIN w => TripMove(q, w, base, r, d)
    BY <1>1, <1>5 DEF Moves
  <2>3. view[TripRow(<<r, d>>)].is = "none" <=> base[TripRow(<<r, d>>)].is = "none"
    BY <1>1, <2>2, RowsAre, Sees DEF TripMove, ActiveTrip, view, OnTrip
  <2>4. Lapses(base, view, r, d)
    BY <1>1, <1>5, OthersLapse DEF view
  <2>5. QED BY <2>1, <2>3, <2>4
<1>6. Trips(r, view) = Trips(r, base)
  BY <1>5 DEF Trips
<1>7. RideTrips(r, view)
  BY <1>3, <1>4, <1>6 DEF RideTrips
<1>8. base[RideRow(r)].is # "expired"
  <2>1. view[RideRow(r)] = IF RideRow(r) \in DOMAIN w THEN w[RideRow(r)] ELSE base[RideRow(r)]
    BY <1>1, RowsAre, Sees DEF view
  <2>2. RideRow(r) \in DOMAIN w => RideMove(q, w, base, r)
    BY <1>1 DEF Moves
  <2>3. QED BY <1>3, <2>1, <2>2 DEF RideMove
<1>9. ASSUME NEW d \in Drivers
      PROVE  PairAgrees(r, d, view)
  BY <1>3, <1>4, <1>5, <1>8, <1>9, LapsedPair
<1>10. QED BY <1>7, <1>9, AgreesIs DEF view

\* Every ride agrees when a transaction has run its program.
LEMMA FinishedAgrees ==
  ASSUME NEW q, NEW w, NEW base, NEW h, Finished(q, w, base, h), NEW r \in Rides
  PROVE  RideAgrees(r, Overlay(w, base))
<1>1. /\ Moves(q, w, base) /\ q.pc \in Nat /\ RideAgrees(r, base) /\ SoFar(q, w, base, h)
      /\ q.todo = {} /\ q.pc = Length[q.job]
  BY DEF Finished, Good, Shaped
<1>2. CASE ~Owns(q, r)
  BY <1>1, <1>2, LapsesAgree
<1>3. CASE Owns(q, r)
  <2>1. q.r = r /\ q.job \in OnRide
    BY <1>3 DEF Owns
  <2>2. CASE q.job = "select"
    BY <2>1, <2>2, SelectAgrees
  <2>3. CASE q.job = "upsert"
    <3>1. q.pc = 12 /\ UpsertSoFar(q, w, base, h)
      BY <1>1, <2>3 DEF SoFar, Length
    <3>2. Past(q, OppRow(<<q.r, q.d>>), 12)
      BY <1>1, <3>1 DEF Past
    <3>3. QED BY <2>1, <2>3, <3>1, <3>2, AnswerAgrees DEF UpsertSoFar
  <2>4. CASE q.job = "reject"
    <3>1. q.pc = 10 /\ RejectSoFar(q, w, base, h)
      BY <1>1, <2>4 DEF SoFar, Length
    <3>2. Past(q, OppRow(<<q.r, q.d>>), 10) /\ Past(q, OfferRow(<<q.r, q.d>>), 9)
      BY <1>1, <3>1 DEF Past
    <3>3. QED BY <2>1, <2>4, <3>1, <3>2, AnswerAgrees DEF RejectSoFar
  <2>5. CASE q.job \in {"cancel", "withdraw"}
    BY <2>1, <2>5, CancelAgrees
  <2>6. QED BY <2>1, <2>2, <2>3, <2>4, <2>5 DEF OnRide
<1>4. QED BY <1>2, <1>3

\* And the rows are those of the tables.
LEMMA ViewTyped ==
  ASSUME NEW q, NEW w, NEW base \in Tables, NEW h, Writes(q, w, h)
  PROVE  Overlay(w, base) \in Tables
<1>1. \A row \in Rows : /\ Overlay(w, base)[row] \in RowType
                        /\ Overlay(w, base)[row].is \in Statuses[row[1]]
  BY SeesTyped
<1>2. Overlay(w, base) \in [Rows -> RowType]
  BY <1>1 DEF Overlay
<1>3. QED BY <1>1, <1>2 DEF Tables, RowType

-----------------------------------------------------------------------------
(***************************************************************************)
(* Another transaction commits.                                            *)
(***************************************************************************)
\* What the commit of a transaction may do to one that holds the rows h.
Elsewhere(base, base2, h) ==
  /\ base \in Tables /\ base2 \in Tables
  /\ \A r \in Rides : RideAgrees(r, base) /\ RideAgrees(r, base2)
  /\ \A row \in Rows \cap h : base2[row] = base[row]
  /\ Stands(base, base2)
  /\ \A r \in Rides : base[RideRow(r)].is = "none" => base2[RideRow(r)].is = "none"
  /\ \A d \in Drivers : base[ProfileRow(d)].is = "none" => base2[ProfileRow(d)].is = "none"
  /\ \A r \in Rides, d \in Drivers :
       RideRow(r) \in h =>
         /\ Lapses(base, base2, r, d)
         /\ base[TripRow(<<r, d>>)].is = "none" => base2[TripRow(<<r, d>>)].is = "none"
  /\ \A r \in Rides, d \in Drivers :
       ProfileRow(d) \in h /\ base[TripRow(<<r, d>>)].is \notin ActiveTrip =>
         base2[TripRow(<<r, d>>)].is \notin ActiveTrip

\* The rows a driver's selection needs are locked by whoever selects them.
LEMMA SelectorHolds ==
  ASSUME NEW q, NEW w, NEW base, NEW h, Good(q, w, base, h), base \in Tables,
         q.job = "select", q.pc >= 12
  PROVE  ProfileRow(q.d) \in h
<1>1. SelectSoFar(q, w, base, h) /\ q.pc \in Nat
  BY DEF Good, SoFar, Shaped
<1>2. Past(q, ProfileRow(q.d), 10)
  BY <1>1 DEF Past
<1>3. QED BY <1>1, <1>2 DEF SelectSoFar, Held

\* A commit does no more than that.
LEMMA ElsewhereIs ==
  ASSUME NEW q, NEW w, NEW base, NEW h2, NEW h, Good(q, w, base, h2), base \in Tables,
         \A r \in Rides : RideAgrees(r, base) /\ RideAgrees(r, Overlay(w, base)),
         h \cap h2 = {}
  PROVE  Elsewhere(base, Overlay(w, base), h)
<1> DEFINE view == Overlay(w, base)
<1>1. /\ Moves(q, w, base) /\ Writes(q, w, h2) /\ SoFar(q, w, base, h2) /\ q.pc \in Nat
      /\ Shaped(q)
  BY DEF Good, Shaped
<1>2. view \in Tables
  BY <1>1, ViewTyped
<1>3. \A row \in Rows : view[row] = IF row \in DOMAIN w THEN w[row] ELSE base[row]
  BY Sees
<1> HIDE DEF view
<1>4. \A row \in Rows \cap h : view[row] = base[row]
  BY <1>1, <1>3 DEF Writes
<1>5. Stands(base, view)
  <2>1. ASSUME NEW r \in Rides, NEW d \in Drivers, base[OfferRow(<<r, d>>)].is = "expired"
        PROVE  view[OfferRow(<<r, d>>)].is = "expired"
    <3>1. OfferRow(<<r, d>>) \notin DOMAIN w
      BY <1>1, <2>1 DEF Moves, OfferMove
    <3>2. QED BY <1>3, <2>1, <3>1, RowsAre
  <2>2. ASSUME NEW r \in Rides, base[RideRow(r)].is \in Decided
        PROVE  view[RideRow(r)].is \in Decided
    <3>1. RideRow(r) \in DOMAIN w => RideMove(q, w, base, r)
      BY <1>1, <2>2 DEF Moves
    <3>2. view[RideRow(r)] = IF RideRow(r) \in DOMAIN w THEN w[RideRow(r)] ELSE base[RideRow(r)]
      BY <1>3, <2>2, RowsAre
    <3>3. RideMove(q, w, base, r) => w[RideRow(r)].is \in Decided
      BY DEF RideMove, Decided
    <3>4. QED BY <2>2, <3>1, <3>2, <3>3
  <2>3. QED BY <2>1, <2>2 DEF Stands
<1>6. ASSUME NEW r \in Rides, base[RideRow(r)].is = "none"
      PROVE  view[RideRow(r)].is = "none"
  <2>1. RideRow(r) \notin DOMAIN w
    BY <1>1, <1>6 DEF Moves, RideMove
  <2>2. QED BY <1>3, <1>6, <2>1, RowsAre
<1>7. ASSUME NEW d \in Drivers, base[ProfileRow(d)].is = "none"
      PROVE  view[ProfileRow(d)].is = "none"
  <2>1. ProfileRow(d) \notin DOMAIN w
    BY <1>1, <1>7 DEF Moves
  <2>2. QED BY <1>3, <1>7, <2>1, RowsAre
<1>8. ASSUME NEW r \in Rides, NEW d \in Drivers, RideRow(r) \in h
      PROVE  /\ Lapses(base, view, r, d)
             /\ base[TripRow(<<r, d>>)].is = "none" => view[TripRow(<<r, d>>)].is = "none"
  <2>1. ~Owns(q, r)
    BY <1>1, <1>8 DEF Owns, SoFar, RideHeld
  <2>2. Lapses(base, view, r, d)
    BY <1>1, <2>1, <1>8, OthersLapse DEF Owns, OnRide, view
  <2>3. LET old == base[TripRow(<<r, d>>)].is
            new == view[TripRow(<<r, d>>)].is
        IN  \/ new = old
            \/ q.job = "start" /\ old = "assigned" /\ new = "in_progress"
            \/ q.job = "complete" /\ old = "in_progress" /\ new = "completed"
            \/ q.job = "collect" /\ old = "completed" /\ new = "settled"
    BY <1>1, <2>1, <1>8, OthersRide DEF view
  <2>4. QED BY <2>2, <2>3
<1>9. ASSUME NEW r \in Rides, NEW d \in Drivers, ProfileRow(d) \in h,
             base[TripRow(<<r, d>>)].is \notin ActiveTrip
      PROVE  view[TripRow(<<r, d>>)].is \notin ActiveTrip
  <2>1. TripRow(<<r, d>>) \in DOMAIN w => TripMove(q, w, base, r, d)
    BY <1>1, <1>9 DEF Moves
  <2>2. ~(q.job = "select" /\ q.d = d /\ Past(q, TripRow(<<r, d>>), 14))
    <3>1. Past(q, TripRow(<<r, d>>), 14) => q.pc >= 12
      BY <1>1 DEF Past
    <3>2. QED BY <1>9, <3>1, SelectorHolds
  <2>3. view[TripRow(<<r, d>>)] = IF TripRow(<<r, d>>) \in DOMAIN w
                                  THEN w[TripRow(<<r, d>>)] ELSE base[TripRow(<<r, d>>)]
    BY <1>3, <1>9, RowsAre
  <2>4. TripMove(q, w, base, r, d) => w[TripRow(<<r, d>>)].is \notin ActiveTrip
    BY <1>9, <2>2 DEF TripMove, ActiveTrip
  <2>5. QED BY <1>9, <2>1, <2>3, <2>4
<1>10. QED
  BY <1>2, <1>4, <1>5, <1>6, <1>7, <1>8, <1>9 DEF Elsewhere, view

Staying(q, w, base, h, base2) == Good(q, w, base, h) /\ Elsewhere(base, base2, h)

\* What is known of a transaction while another commits.
LEMMA StayFacts ==
  ASSUME NEW q, NEW w, NEW base, NEW h, NEW base2, Staying(q, w, base, h, base2)
  PROVE  /\ Shaped(q) /\ Writes(q, w, h) /\ Targets(q, w, base) /\ Moves(q, w, base)
         /\ SoFar(q, w, base, h) /\ q.pc \in Nat
         /\ base \in Tables /\ base2 \in Tables
         /\ \A r \in Rides : RideAgrees(r, base) /\ RideAgrees(r, base2)
         /\ DOMAIN w \subseteq Rows \cap h
         /\ \A row \in Rows \cap h : base2[row] = base[row] /\ Overlay(w, base2)[row] = Overlay(w, base)[row]
         /\ \A row \in Rows \ h : /\ Overlay(w, base)[row] = base[row]
                                  /\ Overlay(w, base2)[row] = base2[row]
         /\ Stands(base, base2)
<1>1. /\ Shaped(q) /\ Writes(q, w, h) /\ Targets(q, w, base) /\ Moves(q, w, base)
      /\ SoFar(q, w, base, h) /\ q.pc \in Nat
  BY DEF Staying, Good, Shaped
<1>2. /\ base \in Tables /\ base2 \in Tables
      /\ \A r \in Rides : RideAgrees(r, base) /\ RideAgrees(r, base2)
      /\ \A row \in Rows \cap h : base2[row] = base[row]
      /\ Stands(base, base2)
  BY DEF Staying, Elsewhere
<1>3. DOMAIN w \subseteq Rows \cap h
  BY <1>1 DEF Writes
<1>4. \A row \in Rows : /\ Overlay(w, base)[row] = IF row \in DOMAIN w THEN w[row] ELSE base[row]
                        /\ Overlay(w, base2)[row] = IF row \in DOMAIN w THEN w[row] ELSE base2[row]
  BY Sees
<1>5. QED BY <1>1, <1>2, <1>3, <1>4

\* What it has seen decided or expired still is.
LEMMA StayStands ==
  ASSUME NEW q, NEW w, NEW base, NEW h, NEW base2, Staying(q, w, base, h, base2)
  PROVE  Stands(Overlay(w, base), Overlay(w, base2))
<1>1. ASSUME NEW r \in Rides, NEW d \in Drivers, Overlay(w, base)[OfferRow(<<r, d>>)].is = "expired"
      PROVE  Overlay(w, base2)[OfferRow(<<r, d>>)].is = "expired"
  <2>1. OfferRow(<<r, d>>) \in Rows
    BY RowsAre
  <2>2. QED BY <1>1, <2>1, StayFacts DEF Stands
<1>2. ASSUME NEW r \in Rides, Overlay(w, base)[RideRow(r)].is \in Decided
      PROVE  Overlay(w, base2)[RideRow(r)].is \in Decided
  <2>1. RideRow(r) \in Rows
    BY RowsAre
  <2>2. QED BY <1>2, <2>1, StayFacts DEF Stands
<1>3. QED BY <1>1, <1>2 DEF Stands

\* What it has changed may still be changed so.
LEMMA StayMoves ==
  ASSUME NEW q, NEW w, NEW base, NEW h, NEW base2, Staying(q, w, base, h, base2)
  PROVE  Moves(q, w, base2)
<1>1. Moves(q, w, base) /\ \A row \in Rows : row \in DOMAIN w => base2[row] = base[row]
  BY StayFacts
<1>2. Stands(Overlay(w, base), Overlay(w, base2))
  BY StayStands
<1>3. ASSUME NEW r \in Rides, RideRow(r) \in DOMAIN w
      PROVE  RideMove(q, w, base2, r)
  <2>1. RideMove(q, w, base, r)
    BY <1>1, <1>3 DEF Moves
  <2>2. base2[RideRow(r)] = base[RideRow(r)]
    BY <1>1, <1>3, RowsAre
  <2>3. QED BY <2>1, <2>2 DEF RideMove
<1>4. ASSUME NEW r \in Rides, NEW d \in Drivers, OfferRow(<<r, d>>) \in DOMAIN w
      PROVE  OfferMove(q, w, base2, r, d)
  <2>1. OfferMove(q, w, base, r, d)
    BY <1>1, <1>4 DEF Moves
  <2>2. base2[OfferRow(<<r, d>>)] = base[OfferRow(<<r, d>>)]
    BY <1>1, <1>4, RowsAre
  <2>3. QED BY <1>2, <1>4, <2>1, <2>2 DEF OfferMove, Stands
<1>5. ASSUME NEW r \in Rides, NEW d \in Drivers, OppRow(<<r, d>>) \in DOMAIN w
      PROVE  OppMove(q, w, base2, r, d)
  <2>1. OppMove(q, w, base, r, d)
    BY <1>1, <1>5 DEF Moves
  <2>2. base2[OppRow(<<r, d>>)] = base[OppRow(<<r, d>>)]
    BY <1>1, <1>5, RowsAre
  <2>3. QED BY <1>2, <1>5, <2>1, <2>2 DEF OppMove, Stands
<1>6. ASSUME NEW r \in Rides, NEW d \in Drivers, TripRow(<<r, d>>) \in DOMAIN w
      PROVE  TripMove(q, w, base2, r, d)
  <2>1. TripMove(q, w, base, r, d)
    BY <1>1, <1>6 DEF Moves
  <2>2. base2[TripRow(<<r, d>>)] = base[TripRow(<<r, d>>)]
    BY <1>1, <1>6, RowsAre
  <2>3. QED BY <2>1, <2>2 DEF TripMove
<1>7. ASSUME NEW d \in Drivers, ProfileRow(d) \in DOMAIN w
      PROVE  q.job \in OnProfile /\ base2[ProfileRow(d)].is # "none"
  BY <1>1, <1>7, RowsAre DEF Moves
<1>8. QED BY <1>3, <1>4, <1>5, <1>6, <1>7 DEF Moves

\* A row that is locked, or is not there and does not appear.
LEMMA StayHeld ==
  ASSUME NEW q, NEW w, NEW base, NEW h, NEW base2, Staying(q, w, base, h, base2),
         NEW x \in Rows, Held(w, base, h, x), base[x].is = "none" => base2[x].is = "none"
  PROVE  Held(w, base2, h, x)
BY StayFacts DEF Held

\* An answer is given with the ride locked.
LEMMA AnswerHolds ==
  ASSUME NEW q, NEW w, NEW base, NEW h, Good(q, w, base, h),
         q.job \in {"select", "upsert", "reject"}, q.pc >= 8
  PROVE  RideRow(q.r) \in h
<1>1. RideHeld(q, w, base, h) /\ q.pc \in Nat /\ SoFar(q, w, base, h)
  BY DEF Good, SoFar, Shaped, OnRide
<1>2. CASE q.pc >= 9
  BY <1>1, <1>2 DEF RideHeld
<1>3. CASE q.pc = 8
  <2>1. Held(w, base, h, RideRow(q.r))
    BY <1>1, <1>3 DEF RideHeld, Past
  <2>2. Overlay(w, base)[RideRow(q.r)].is = "requested"
    BY <1>1, <1>3 DEF SoFar, SelectSoFar, UpsertSoFar, RejectSoFar
  <2>3. QED BY <2>1, <2>2 DEF Held
<1>4. QED BY <1>1, <1>2, <1>3

\* The ride of the handler is still held.
LEMMA StayRideHeld ==
  ASSUME NEW q, NEW w, NEW base, NEW h, NEW base2, Staying(q, w, base, h, base2), q.job \in OnRide
  PROVE  RideHeld(q, w, base2, h)
<1>1. RideHeld(q, w, base, h) /\ q.r \in Rides
  BY StayFacts DEF SoFar, Shaped
<1>2. base[RideRow(q.r)].is = "none" => base2[RideRow(q.r)].is = "none"
  BY <1>1 DEF Staying, Elsewhere
<1>3. RideRow(q.r) \in Rows
  BY <1>1, RowsAre
<1>4. QED BY <1>1, <1>2, <1>3, StayHeld DEF RideHeld

\* What does not appear while the ride is locked.
LEMMA StayAbsent ==
  ASSUME NEW q, NEW w, NEW base, NEW h, NEW base2, Staying(q, w, base, h, base2),
         NEW r \in Rides, RideRow(r) \in h, NEW d \in Drivers
  PROVE  /\ base[OfferRow(<<r, d>>)].is = "none" => base2[OfferRow(<<r, d>>)].is = "none"
         /\ base[OppRow(<<r, d>>)].is = "none" => base2[OppRow(<<r, d>>)].is = "none"
         /\ base[TripRow(<<r, d>>)].is = "none" => base2[TripRow(<<r, d>>)].is = "none"
         /\ Overlay(w, base)[OfferRow(<<r, d>>)].is # "pending" =>
              Overlay(w, base2)[OfferRow(<<r, d>>)].is # "pending"
         /\ Overlay(w, base)[OppRow(<<r, d>>)].is # "offered" =>
              Overlay(w, base2)[OppRow(<<r, d>>)].is # "offered"
<1>1. /\ Lapses(base, base2, r, d)
      /\ base[TripRow(<<r, d>>)].is = "none" => base2[TripRow(<<r, d>>)].is = "none"
  BY DEF Staying, Elsewhere
<1>2. OfferRow(<<r, d>>) \in Rows /\ OppRow(<<r, d>>) \in Rows
  BY RowsAre
<1>3. base2[OfferRow(<<r, d>>)].is = "pending" => base[OfferRow(<<r, d>>)].is = "pending"
  BY <1>1 DEF Lapses
<1>4. base2[OppRow(<<r, d>>)].is = "offered" => base[OppRow(<<r, d>>)].is = "offered"
  BY <1>1 DEF Lapses
<1>5. QED BY <1>1, <1>2, <1>3, <1>4, StayFacts DEF Lapses

\* SelectOffer while another transaction commits.
LEMMA StaySelect ==
  ASSUME NEW q, NEW w, NEW base, NEW h, NEW base2, Staying(q, w, base, h, base2), q.job = "select"
  PROVE  SelectSoFar(q, w, base2, h)
<1> DEFINE view == Overlay(w, base)
           view2 == Overlay(w, base2)
           p == <<q.r, q.d>>
           xr == RideRow(q.r)
           xo == OfferRow(p)
           xp == OppRow(p)
           xt == TripRow(p)
           xd == ProfileRow(q.d)
<1>1. /\ SelectSoFar(q, w, base, h) /\ q.pc \in Nat /\ q.r \in Rides /\ q.d \in Drivers
      /\ DOMAIN w \subseteq Rows \cap h
      /\ \A row \in Rows \cap h : view2[row] = view[row]
  BY StayFacts DEF SoFar, Shaped, OnRide
<1>2. xr \in Rows /\ xo \in Rows /\ xp \in Rows /\ xt \in Rows /\ xd \in Rows
  BY <1>1, RowsAre
<1>3. CASE q.pc < 8
  <2>1. \A x : \A n \in 8..17 : ~Past(q, x, n)
    BY <1>1, <1>3 DEF Past
  <2>2. QED BY <1>1, <1>3, <2>1 DEF SelectSoFar
<1>4. CASE q.pc >= 8
  <2>1. xr \in h
    BY <1>4, AnswerHolds DEF Staying
  <2>2. view2[xr] = view[xr]
    BY <1>1, <1>2, <2>1
  <2>3. Past(q, xo, 8) => Held(w, base2, h, xo)
    BY <1>1, <1>2, <2>1, StayHeld, StayAbsent DEF SelectSoFar
  <2>4. Past(q, xp, 9) => Held(w, base2, h, xp)
    BY <1>1, <1>2, <2>1, StayHeld, StayAbsent DEF SelectSoFar
  <2>5. Past(q, xd, 10) => Held(w, base2, h, xd)
    <3>1. base[xd].is = "none" => base2[xd].is = "none"
      BY <1>1 DEF Staying, Elsewhere
    <3>2. QED BY <1>1, <1>2, <3>1, StayHeld DEF SelectSoFar
  <2>6. q.pc >= 9 => view2[xo] = view[xo]
    <3> HAVE q.pc >= 9
    <3>1. Past(q, xo, 8) /\ view[xo].is # "none"
      BY <1>1 DEF SelectSoFar, Past
    <3>2. xo \in h
      BY <1>1, <3>1 DEF SelectSoFar, Held
    <3>3. QED BY <1>1, <1>2, <3>2
  <2>7. q.pc >= 10 => view2[xp] = view[xp]
    <3> HAVE q.pc >= 10
    <3>1. Past(q, xp, 9) /\ view[xp].is # "none"
      BY <1>1 DEF SelectSoFar, Past
    <3>2. xp \in h
      BY <1>1, <3>1 DEF SelectSoFar, Held
    <3>3. QED BY <1>1, <1>2, <3>2
  <2>8. q.pc >= 12 => xd \in h /\ view2[xd] = view[xd]
    <3> HAVE q.pc >= 12
    <3>1. xd \in h
      BY SelectorHolds, StayFacts DEF Staying
    <3>2. QED BY <1>1, <1>2, <3>1
  <2>9. Past(q, xt, 14) => view2[xt] = view[xt]
    BY <1>1 DEF SelectSoFar
  <2>10. q.pc >= 15 => Past(q, xt, 14)
    BY <1>1 DEF Past
  <2>11. q.pc >= 15 => \A r \in Rides \ {q.r} : base2[TripRow(<<r, q.d>>)].is \notin ActiveTrip
    <3> HAVE q.pc >= 15
    <3> TAKE r \in Rides \ {q.r}
    <3>1. base[TripRow(<<r, q.d>>)].is \notin ActiveTrip
      BY <1>1 DEF SelectSoFar
    <3>2. xd \in h
      BY <2>8, <1>1
    <3>3. QED BY <1>1, <3>1, <3>2 DEF Staying, Elsewhere
  <2>12. ASSUME NEW d \in Drivers \ {q.d}
         PROVE  /\ Past(q, OfferRow(<<q.r, d>>), 16) => view2[OfferRow(<<q.r, d>>)].is # "pending"
                /\ Past(q, OppRow(<<q.r, d>>), 17) => view2[OppRow(<<q.r, d>>)].is # "offered"
    <3>1. /\ Past(q, OfferRow(<<q.r, d>>), 16) => view[OfferRow(<<q.r, d>>)].is # "pending"
          /\ Past(q, OppRow(<<q.r, d>>), 17) => view[OppRow(<<q.r, d>>)].is # "offered"
      BY <1>1, <2>12 DEF SelectSoFar
    <3>2. QED BY <1>1, <2>1, <2>12, <3>1, StayAbsent
  <2> HIDE DEF view, view2
  <2>13. QED
    BY <1>1, <2>2, <2>3, <2>4, <2>5, <2>6, <2>7, <2>8, <2>9, <2>10, <2>11, <2>12
       DEF SelectSoFar, view, view2
<1>5. QED BY <1>1, <1>3, <1>4

\* Upsert while another transaction commits.
LEMMA StayUpsert ==
  ASSUME NEW q, NEW w, NEW base, NEW h, NEW base2, Staying(q, w, base, h, base2), q.job = "upsert"
  PROVE  UpsertSoFar(q, w, base2, h)
<1> DEFINE view == Overlay(w, base)
           view2 == Overlay(w, base2)
           p == <<q.r, q.d>>
           xr == RideRow(q.r)
           xo == OfferRow(p)
           xp == OppRow(p)
<1>1. /\ UpsertSoFar(q, w, base, h) /\ q.pc \in Nat /\ q.r \in Rides /\ q.d \in Drivers
      /\ \A row \in Rows \cap h : view2[row] = view[row]
  BY StayFacts DEF SoFar, Shaped, OnRide
<1>2. xr \in Rows /\ xo \in Rows /\ xp \in Rows
  BY <1>1, RowsAre
<1>3. CASE q.pc < 8
  <2>1. \A x : \A n \in 8..12 : ~Past(q, x, n)
    BY <1>1, <1>3 DEF Past
  <2>2. QED BY <1>1, <1>3, <2>1 DEF UpsertSoFar
<1>4. CASE q.pc >= 8
  <2>1. xr \in h
    BY <1>4, AnswerHolds DEF Staying
  <2>2. view2[xr] = view[xr]
    BY <1>1, <1>2, <2>1
  <2>3. Past(q, xp, 8) => Held(w, base2, h, xp)
    BY <1>1, <1>2, <2>1, StayHeld, StayAbsent DEF UpsertSoFar
  <2>4. q.pc >= 9 => view2[xp] = view[xp]
    <3> HAVE q.pc >= 9
    <3>1. Past(q, xp, 8) /\ view[xp].is # "none"
      BY <1>1 DEF UpsertSoFar, Past
    <3>2. xp \in h
      BY <1>1, <3>1 DEF UpsertSoFar, Held
    <3>3. QED BY <1>1, <1>2, <3>2
  <2>5. q.pc >= 12 => view2[xo] = view[xo]
    BY <1>1, <1>2 DEF UpsertSoFar
  <2> HIDE DEF view, view2
  <2>6. QED BY <1>1, <2>2, <2>3, <2>4, <2>5 DEF UpsertSoFar, view, view2
<1>5. QED BY <1>1, <1>3, <1>4

\* Reject while another transaction commits.
LEMMA StayReject ==
  ASSUME NEW q, NEW w, NEW base, NEW h, NEW base2, Staying(q, w, base, h, base2), q.job = "reject"
  PROVE  RejectSoFar(q, w, base2, h)
<1> DEFINE view == Overlay(w, base)
           view2 == Overlay(w, base2)
           p == <<q.r, q.d>>
           xr == RideRow(q.r)
           xo == OfferRow(p)
           xp == OppRow(p)
<1>1. /\ RejectSoFar(q, w, base, h) /\ q.pc \in Nat /\ q.r \in Rides /\ q.d \in Drivers
      /\ Moves(q, w, base) /\ DOMAIN w \subseteq Rows \cap h
      /\ \A row \in Rows \cap h : base2[row] = base[row] /\ view2[row] = view[row]
      /\ \A row \in Rows \ h : view[row] = base[row] /\ view2[row] = base2[row]
  BY StayFacts DEF SoFar, Shaped, OnRide
<1>2. xr \in Rows /\ xo \in Rows /\ xp \in Rows
  BY <1>1, RowsAre
<1>3. CASE q.pc < 8
  <2>1. \A x : \A n \in 8..12 : ~Past(q, x, n)
    BY <1>1, <1>3 DEF Past
  <2>2. QED BY <1>1, <1>3, <2>1 DEF RejectSoFar
<1>4. CASE q.pc >= 8
  <2>1. xr \in h
    BY <1>4, AnswerHolds DEF Staying
  <2>2. view2[xr] = view[xr] /\ base2[xr] = base[xr]
    BY <1>1, <1>2, <2>1
  <2>3. Past(q, xo, 8) => Held(w, base2, h, xo)
    BY <1>1, <1>2, <2>1, StayHeld, StayAbsent DEF RejectSoFar
  <2>4. ASSUME q.pc >= 9
        PROVE  xo \in h /\ view2[xo] = view[xo]
    <3>1. Past(q, xo, 8) /\ view[xo].is # "none"
      BY <1>1, <2>4 DEF RejectSoFar, Past
    <3>2. xo \in h
      BY <1>1, <3>1 DEF RejectSoFar, Held
    <3>3. QED BY <1>1, <1>2, <3>2
  <2>5. ASSUME q.pc >= 9
        PROVE  view2[xp].is = view[xp].is
    <3>1. CASE xp \in h
      BY <1>1, <1>2, <3>1
    <3>2. CASE xp \notin h
      <4>1. view[xp] = base[xp] /\ view2[xp] = base2[xp]
        BY <1>1, <1>2, <3>2
      <4>2. Lapses(base, base2, q.r, q.d)
        BY <1>1, <2>1 DEF Staying, Elsewhere
      <4>3. base[xp].is \in {"offered", "rider_rejected"}
        BY <1>1, <2>5, <4>1 DEF RejectSoFar
      <4>4. base2[xr].is = "requested"
        <5>1. view[xr].is = "requested"
          BY <1>1, <1>4 DEF RejectSoFar
        <5>2. base[xr].is = "requested"
          BY <1>1, <5>1, TrulyOpen
        <5>3. QED BY <2>2, <5>2
      <4>5. base2[xo].is # "expired"
        <5>1. view[xo].is \in {"pending", "rejected"}
          BY <1>1, <2>5 DEF RejectSoFar
        <5>2. view[xo] = IF xo \in DOMAIN w THEN w[xo] ELSE base[xo]
          BY <1>2, Sees
        <5>3. xo \in DOMAIN w => OfferMove(q, w, base, q.r, q.d)
          BY <1>1 DEF Moves
        <5>4. base[xo].is # "expired"
          BY <1>1, <5>1, <5>2, <5>3 DEF OfferMove
        <5>5. QED BY <1>1, <1>2, <2>4, <2>5, <5>4
      <4>6. QED BY <4>1, <4>2, <4>3, <4>4, <4>5 DEF Lapses, Decided
    <3>3. QED BY <3>1, <3>2
  <2> HIDE DEF view, view2
  <2>6. QED BY <1>1, <2>2, <2>3, <2>4, <2>5 DEF RejectSoFar, view, view2
<1>5. QED BY <1>1, <1>3, <1>4

\* A cancellation while another transaction commits.
LEMMA StayCancel ==
  ASSUME NEW q, NEW w, NEW base, NEW h, NEW base2, Staying(q, w, base, h, base2),
         q.job \in {"cancel", "withdraw"}
  PROVE  CancelSoFar(q, w, base2, h)
<1> DEFINE view == Overlay(w, base)
           view2 == Overlay(w, base2)
           xr == RideRow(q.r)
<1>1. /\ CancelSoFar(q, w, base, h) /\ RideHeld(q, w, base, h) /\ q.pc \in Nat /\ q.r \in Rides
      /\ Moves(q, w, base)
      /\ \A row \in Rows \cap h : view2[row] = view[row]
      /\ \A row \in Rows \ h : view[row] = base[row] /\ view2[row] = base2[row]
  BY StayFacts DEF SoFar, Shaped, OnRide
<1>2. xr \in Rows
  BY <1>1, RowsAre
<1>3. CASE xr \in h
  <2>1. view2[xr] = view[xr]
    BY <1>1, <1>2, <1>3
  <2>2. ASSUME NEW d \in Drivers
        PROVE  LET trip == TripRow(<<q.r, d>>)
               IN  /\ Held(w, base, h, trip) => Held(w, base2, h, trip)
                   /\ Held(w, base, h, trip) => view2[trip].is = view[trip].is
                   /\ view[OfferRow(<<q.r, d>>)].is # "pending" =>
                        view2[OfferRow(<<q.r, d>>)].is # "pending"
                   /\ view[OppRow(<<q.r, d>>)].is # "offered" =>
                        view2[OppRow(<<q.r, d>>)].is # "offered"
    <3> DEFINE trip == TripRow(<<q.r, d>>)
    <3>1. trip \in Rows
      BY <1>1, <2>2, RowsAre
    <3>2. /\ base[trip].is = "none" => base2[trip].is = "none"
          /\ view[OfferRow(<<q.r, d>>)].is # "pending" =>
               view2[OfferRow(<<q.r, d>>)].is # "pending"
          /\ view[OppRow(<<q.r, d>>)].is # "offered" =>
               view2[OppRow(<<q.r, d>>)].is # "offered"
      BY <1>1, <1>3, <2>2, StayAbsent
    <3>3. Held(w, base, h, trip) => Held(w, base2, h, trip)
      BY <3>1, <3>2, StayHeld
    <3>4. Held(w, base, h, trip) => view2[trip].is = view[trip].is
      BY <1>1, <3>1, <3>2 DEF Held
    <3>5. QED BY <3>2, <3>3, <3>4
  <2> HIDE DEF view, view2
  <2>3. QED BY <1>1, <2>1, <2>2 DEF CancelSoFar, view, view2
<1>4. CASE xr \notin h
  <2>1. q.pc < 9
    BY <1>1, <1>4 DEF RideHeld
  <2>2. ASSUME NEW d \in Drivers, Past(q, TripRow(<<q.r, d>>), 8), q.job = "cancel" \/ q.d = d
        PROVE  Held(w, base2, h, TripRow(<<q.r, d>>))
    <3> DEFINE trip == TripRow(<<q.r, d>>)
    <3>1. trip \in Rows
      BY <1>1, <2>2, RowsAre
    <3>2. Held(w, base, h, trip)
      BY <1>1, <2>2 DEF CancelSoFar
    <3>3. Past(q, xr, 7)
      BY <1>1, <2>2 DEF Past
    <3>4. base[xr].is = "none"
      BY <1>1, <1>2, <1>4, <3>3 DEF RideHeld, Held
    <3>5. base2[xr].is = "none"
      BY <1>1, <3>4 DEF Staying, Elsewhere
    <3>6. base2[trip].is = "none"
      BY <1>1, <2>2, <3>5, StayFacts DEF RideAgrees
    <3>7. QED BY <3>1, <3>2, <3>6, StayHeld
  <2>3. \A x : \A n \in 9..12 : ~Past(q, x, n)
    BY <1>1, <2>1 DEF Past
  <2>4. QED BY <1>1, <2>1, <2>2, <2>3 DEF CancelSoFar
<1>5. QED BY <1>3, <1>4

\* Whatever is committed, a transaction stays as it should be.
LEMMA StayGood ==
  ASSUME NEW q, NEW w, NEW base, NEW h, NEW base2, Staying(q, w, base, h, base2)
  PROVE  Good(q, w, base2, h)
<1>1. /\ Shaped(q) /\ Writes(q, w, h) /\ Targets(q, w, base) /\ q.pc \in Nat
  BY StayFacts
<1>2. Targets(q, w, base2)
  <2>1. CASE q.pc > 0
    BY <1>1, <2>1, StayStands, TargetsStand
  <2>2. CASE q.pc = 0
    BY <1>1, <2>2 DEF Shaped, Targets
  <2>3. QED BY <1>1, <2>1, <2>2
<1>3. SoFar(q, w, base2, h)
  BY StayRideHeld, StaySelect, StayUpsert, StayReject, StayCancel DEF SoFar
<1>4. QED BY <1>1, <1>2, <1>3, StayMoves DEF Good

-----------------------------------------------------------------------------
(***************************************************************************)
(* The steps.                                                              *)
(***************************************************************************)
\* The invariant, as it concerns one transaction.
LEMMA InvFacts ==
  ASSUME Inv, NEW t \in Tx
  PROVE  /\ Good(tx[t], work[t], db, Locked(t)) /\ tx[t].stamp <= now
         /\ Shaped(tx[t]) /\ Writes(tx[t], work[t], Locked(t)) /\ Moves(tx[t], work[t], db)
         /\ SoFar(tx[t], work[t], db, Locked(t))
         /\ tx[t].pc \in Nat
         /\ db \in Tables /\ (\A r \in Rides : RideAgrees(r, db)) /\ now \in Int
         /\ View(t) = Overlay(work[t], db)
BY DEF Inv, Good, Shaped, View

\* A transaction that ended, or has not begun, has done nothing.
LEMMA EndedGood ==
  ASSUME NEW base, NEW h
  PROVE  Good(Ended, NoWrites, base, h) /\ Ended.stamp = 0
<1>1. /\ Ended.job = "none" /\ Ended.pc = 0 /\ Ended.todo = {} /\ Ended.stamp = 0
      /\ Ended \in [job : Kinds, r : Rides \cup {NoRide}, d : Drivers \cup {NoDriver}, pc : Nat,
                    todo : SUBSET Rows, stamp : Int, start : Int, judged : Int]
  BY DEF Ended, Kinds
<1>2. Shaped(Ended)
  BY <1>1 DEF Shaped, Length, OnRide, OnTrip, OnProfile
<1>3. \A x : x \notin DOMAIN NoWrites
  BY DEF NoWrites
<1>4. Writes(Ended, NoWrites, h) /\ Moves(Ended, NoWrites, base)
  BY <1>3 DEF Writes, Moves
<1>5. Targets(Ended, NoWrites, base) /\ SoFar(Ended, NoWrites, base, h)
  BY <1>1 DEF Targets, SoFar, OnRide
<1>6. QED BY <1>1, <1>2, <1>4, <1>5 DEF Good

\* No row is locked by two.
LEMMA LocksApart ==
  ASSUME NEW t, NEW u, t # u
  PROVE  Locked(t) \cap Locked(u) = {}
BY DEF Locked

\* A handler that finds its work done has not touched the ride.
LEMMA DoneOwnsNothing ==
  ASSUME Inv, NEW t \in Tx, tx[t].pc > 0, DoneBefore(t), NEW r
  PROVE  ~Owns(tx[t], r)
<1> DEFINE q == tx[t]
<1>1. Statement(q).check \in {"offerPending", "cancellable", "ownCancellable", "tripMovable"}
  BY DEF DoneBefore
<1>2. Shaped(q)
  BY InvFacts
<1> HIDE DEF q
<1>3. q.pc > 0
  BY DEF q
<1>4. CASE q.job \in Expiring /\ q.pc \in 1..6
  BY <1>4 DEF Owns, q
<1>5. CASE q.job = "select" /\ q.pc \in 7..17
  BY <1>1, <1>5, SelectText DEF Lock, LockIn, Read, Set, Update, MarkRideAccepted
<1>6. CASE q.job = "upsert" /\ q.pc \in 7..12
  BY <1>1, <1>6, UpsertText DEF Lock, LockIn, Read, Set, Update
<1>7. CASE q.job = "reject" /\ q.pc \in 7..10
  <2>1. q.pc = 8
    BY <1>1, <1>7, RejectText DEF Lock, LockIn, Set, Update
  <2>2. QED BY <2>1 DEF Owns, q
<1>8. CASE q.job \in {"cancel", "withdraw"} /\ q.pc \in 7..12
  <2>1. q.pc = 8
    BY <1>1, <1>8, CancelText DEF Lock, LockIn, Set, Update
  <2>2. QED BY <2>1 DEF Owns, q
<1>9. CASE q.job = "skip" \/ q.job \in OnTrip \/ q.job \in OnProfile
  BY <1>9 DEF Owns, OnRide, OnTrip, OnProfile, q
<1>10. QED BY <1>2, <1>3, <1>4, <1>5, <1>6, <1>7, <1>8, <1>9, Place

\* What is committed agrees.
LEMMA CommitAgrees ==
  ASSUME Inv, NEW t \in Tx, Advance(t),
         ~Passes(t) \/ tx[t].pc = Len(Program[tx[t].job]) \/ tx[t].job = "sweep"
  PROVE  View(t) \in Tables /\ \A r \in Rides : RideAgrees(r, View(t))
<1> DEFINE q == tx[t]
           w == work[t]
           h == Locked(t)
<1>1. /\ Good(q, w, db, h) /\ Shaped(q) /\ Writes(q, w, h) /\ Moves(q, w, db) /\ q.pc \in Nat
      /\ db \in Tables /\ (\A r \in Rides : RideAgrees(r, db)) /\ View(t) = Overlay(w, db)
  BY InvFacts
<1>2. q.pc > 0 /\ q.todo = {} /\ (Passes(t) \/ DoneBefore(t))
  BY DEF Advance
<1>3. View(t) \in Tables
  BY <1>1, ViewTyped
<1>4. ASSUME NEW r \in Rides
      PROVE  RideAgrees(r, View(t))
  <2>1. CASE ~Passes(t) \/ q.job = "sweep"
    <3>1. ~Owns(q, r)
      BY <1>2, <2>1, DoneOwnsNothing DEF Owns, OnRide
    <3>2. QED BY <1>1, <1>4, <3>1, LapsesAgree
  <2>2. CASE q.pc = Len(Program[q.job])
    <3>1. q.pc = Length[q.job]
      BY <1>1, <2>2, Lengths DEF Shaped
    <3>2. Finished(q, w, db, h)
      BY <1>1, <1>2, <3>1 DEF Finished
    <3>3. QED BY <1>1, <1>4, <3>2, FinishedAgrees
  <2>3. QED BY <2>1, <2>2
<1>5. QED BY <1>3, <1>4

\* The rows that a commit or a rollback leaves locked.
LEMMA ReleaseLocks ==
  ASSUME Inv, NEW t \in Tx, Release(t)
  PROVE  /\ holder' \in [Rows -> Tx \cup {NoTx}]
         /\ \A u \in Tx \ {t} : Locked(u)' = Locked(u)
         /\ \A u : u \in DOMAIN work' <=> u \in Tx
         /\ work'[t] = NoWrites
         /\ \A u \in Tx \ {t} : work'[u] = work[u]
<1>1. holder' = [row \in Rows |-> IF holder[row] = t THEN NoTx ELSE holder[row]]
  BY DEF Release
<1>2. holder \in [Rows -> Tx \cup {NoTx}] /\ DOMAIN work = Tx
  BY DEF Inv
<1>3. work' = [work EXCEPT ![t] = NoWrites]
  BY DEF Release
<1>4. holder' \in [Rows -> Tx \cup {NoTx}]
  BY <1>1, <1>2
<1>5. \A u \in Tx \ {t} : Locked(u)' = Locked(u)
  BY <1>1, MarketplaceTxAssumption DEF Locked
<1>6. QED BY <1>2, <1>3, <1>4, <1>5

\* The others when one commits.
LEMMA OthersStay ==
  ASSUME Inv, NEW t \in Tx, Commit(t), View(t) \in Tables, \A r \in Rides : RideAgrees(r, View(t)),
         NEW u \in Tx \ {t}
  PROVE  Good(tx[u], work[u], db', Locked(u))
<1>1. /\ Good(tx[t], work[t], db, Locked(t)) /\ db \in Tables
      /\ (\A r \in Rides : RideAgrees(r, db)) /\ View(t) = Overlay(work[t], db)
  BY InvFacts
<1>2. Good(tx[u], work[u], db, Locked(u))
  BY InvFacts
<1>3. db' = Overlay(work[t], db)
  BY <1>1 DEF Commit
<1>4. Locked(u) \cap Locked(t) = {}
  BY LocksApart
<1>5. Elsewhere(db, Overlay(work[t], db), Locked(u))
  BY <1>1, <1>4, ElsewhereIs
<1>6. QED BY <1>2, <1>3, <1>5, StayGood DEF Staying

\* The next state is as good when the record of one transaction changed, and
\* the others are as they were.
LEMMA InvNext ==
  ASSUME Inv, NEW t \in Tx,
         \A u : u \in DOMAIN tx' <=> u \in Tx, \A u \in Tx \ {t} : tx'[u] = tx[u],
         \A u : u \in DOMAIN work' <=> u \in Tx, \A u \in Tx \ {t} : work'[u] = work[u],
         holder' \in [Rows -> Tx \cup {NoTx}], \A u \in Tx \ {t} : Locked(u)' = Locked(u),
         db' \in Tables, \A r \in Rides : RideAgrees(r, db'), now' = now,
         \A u \in Tx \ {t} : Good(tx[u], work[u], db', Locked(u)),
         tx'[t].stamp <= now, Good(tx'[t], work'[t], db', Locked(t)')
  PROVE  Inv'
<1>1. DOMAIN tx' = Tx /\ DOMAIN work' = Tx
  OBVIOUS
<1>2. now' \in Nat /\ \A u \in Tx : tx[u].stamp <= now
  BY DEF Inv
<1>3. ASSUME NEW u \in Tx
      PROVE  tx'[u].stamp <= now' /\ Good(tx'[u], work'[u], db', Locked(u)')
  <2>1. CASE u = t
    BY <2>1
  <2>2. CASE u # t
    BY <1>2, <2>2
  <2>3. QED BY <2>1, <2>2
<1>4. QED BY <1>1, <1>2, <1>3 DEF Inv

\* The invariant, spelled out for the steps that leave most alone.
LEMMA Others ==
  ASSUME Inv
  PROVE  /\ DOMAIN tx = Tx /\ DOMAIN work = Tx /\ holder \in [Rows -> Tx \cup {NoTx}]
         /\ db \in Tables /\ (\A r \in Rides : RideAgrees(r, db)) /\ now \in Nat
         /\ \A u \in Tx : Good(tx[u], work[u], db, Locked(u)) /\ tx[u].stamp <= now
BY DEF Inv

\* A handler begins.
LEMMA BeginStep ==
  ASSUME Inv, NEW t \in Tx, Begin(t)
  PROVE  Inv'
<1> DEFINE q == tx[t]
           begun == [q EXCEPT !.start = IF q.job = "heartbeat" THEN now ELSE 0]
           q2 == At(begun, 1, db)
           w == work[t]
<1>1. /\ q.job # "none" /\ q.pc = 0 /\ tx' = [tx EXCEPT ![t] = q2]
      /\ UNCHANGED <<db, work, holder, waits, now>>
  BY DEF Begin
<1>2. /\ Shaped(q) /\ Writes(q, w, Locked(t)) /\ now \in Int
  BY InvFacts
<1>3. Shaped(begun) /\ begun.job = q.job
  BY <1>2, Others DEF Shaped
<1>4. Length[q.job] >= 1
  BY <1>1, <1>2 DEF Shaped, Kinds, OnRide, OnTrip, OnProfile, Length
<1>5. \A x : x \notin DOMAIN w
  BY <1>1, <1>2 DEF Writes
<1>6. db = Overlay(w, db)
  <2>1. db \in [Rows -> RowType]
    BY Others DEF Tables, RowType
  <2>2. QED BY <1>5, <2>1 DEF Overlay
<1> HIDE DEF begun
<1>7. Shaped(q2) /\ Targets(q2, w, db) /\ q2.pc = 1 /\ q2.stamp = now
  BY <1>2, <1>3, <1>4, <1>6, AtIs
<1> HIDE DEF q2
<1>8. Writes(q2, w, Locked(t)) /\ Moves(q2, w, db)
  BY <1>5 DEF Writes, Moves
<1>9. SoFar(q2, w, db, Locked(t))
  <2>1. \A x : \A n \in 2..17 : ~Past(q2, x, n)
    BY <1>7 DEF Past
  <2>2. QED
    BY <1>7, <2>1 DEF SoFar, RideHeld, SelectSoFar, UpsertSoFar, RejectSoFar, CancelSoFar
<1>10. Good(q2, w, db, Locked(t))
  BY <1>7, <1>8, <1>9 DEF Good
<1>11. /\ tx'[t] = q2 /\ \A u \in Tx \ {t} : tx'[u] = tx[u]
       /\ \A u : u \in DOMAIN tx' <=> u \in Tx
  BY <1>1, Others
<1>12. \A u : Locked(u)' = Locked(u)
  BY <1>1 DEF Locked
<1>13. now <= now
  BY <1>2
<1>14. QED
  BY <1>1, <1>7, <1>10, <1>11, <1>12, <1>13, Others, InvNext

\* A handler goes on to its next statement.
LEMMA GoOnStep ==
  ASSUME Inv, NEW t \in Tx, Advance(t), Passes(t), tx[t].pc # Len(Program[tx[t].job]),
         tx[t].job # "sweep"
  PROVE  Inv'
<1> DEFINE q == tx[t]
           w == work[t]
           q2 == At(q, q.pc + 1, View(t))
<1>1. /\ q.pc > 0 /\ q.todo = {} /\ tx' = [tx EXCEPT ![t] = q2]
      /\ UNCHANGED <<db, work, holder, waits, now>>
  BY DEF Advance
<1>2. /\ Good(q, w, db, Locked(t)) /\ Shaped(q) /\ q.stamp <= now /\ q.pc \in Nat
      /\ now \in Int /\ db \in Tables /\ (\A r \in Rides : RideAgrees(r, db))
      /\ View(t) = Overlay(w, db)
  BY InvFacts
<1>3. q.pc + 1 <= Length[q.job]
  <2>1. q.job \in Kinds /\ q.pc <= Length[q.job]
    BY <1>2 DEF Shaped
  <2>2. q.pc # Length[q.job]
    BY <2>1, Lengths
  <2>3. Length[q.job] \in Nat
    BY <2>1 DEF Kinds, OnRide, OnTrip, OnProfile, Length
  <2>4. QED BY <1>2, <2>1, <2>2, <2>3
<1>4. /\ q2.job = q.job /\ q2.r = q.r /\ q2.d = q.d /\ q2.pc = q.pc + 1 /\ q2.stamp = now
      /\ q2.judged = IF Statement(q2).check = "eligible" THEN now ELSE q.judged
      /\ Shaped(q2) /\ Targets(q2, w, db) /\ Left(q2, Overlay(w, db))
  BY <1>1, <1>2, <1>3, AtIs
<1>5. Passed(q, w, db)
  BY PassesIs
<1> HIDE DEF q2
<1>6. Coming(q, w, db, Locked(t), q2)
  BY <1>1, <1>2, <1>4, <1>5 DEF Coming
<1>7. Good(q2, w, db, Locked(t))
  BY <1>6, ComeGood
<1>8. /\ tx'[t] = q2 /\ \A u \in Tx \ {t} : tx'[u] = tx[u]
      /\ \A u : u \in DOMAIN tx' <=> u \in Tx
  BY <1>1, Others
<1>9. \A u : Locked(u)' = Locked(u)
  BY <1>1 DEF Locked
<1>10. q2.stamp <= now
  BY <1>2, <1>4
<1>11. QED
  BY <1>1, <1>7, <1>8, <1>9, <1>10, Others, InvNext

\* A handler commits; the sweep does after every statement.
LEMMA CommitStep ==
  ASSUME Inv, NEW t \in Tx, Advance(t),
         ~Passes(t) \/ tx[t].pc = Len(Program[tx[t].job]) \/ tx[t].job = "sweep"
  PROVE  Inv'
<1> DEFINE q == tx[t]
           q2 == tx'[t]
<1>1. View(t) \in Tables /\ \A r \in Rides : RideAgrees(r, View(t))
  BY CommitAgrees
<1>2. Commit(t) /\ db' = View(t) /\ Release(t) /\ now' = now
  BY DEF Advance, Commit, Release
<1>3. \A u \in Tx \ {t} : Good(tx[u], work[u], db', Locked(u))
  BY <1>1, <1>2, OthersStay
<1>4. /\ holder' \in [Rows -> Tx \cup {NoTx}] /\ \A u \in Tx \ {t} : Locked(u)' = Locked(u)
      /\ \A u : u \in DOMAIN work' <=> u \in Tx
      /\ work'[t] = NoWrites /\ \A u \in Tx \ {t} : work'[u] = work[u]
  BY <1>2, ReleaseLocks
<1>5. /\ \A u \in Tx \ {t} : tx'[u] = tx[u]
      /\ \A u : u \in DOMAIN tx' <=> u \in Tx
      /\ \/ q2 = Ended
         \/ /\ q2 = At(q, q.pc + 1, View(t)) /\ Passes(t)
            /\ q.pc # Len(Program[q.job]) /\ q.job = "sweep"
  BY Others DEF Advance
<1> HIDE DEF q2
<1>6. Good(q2, NoWrites, db', Locked(t)') /\ q2.stamp <= now
  <2>1. CASE q2 = Ended
    BY <2>1, EndedGood, Others
  <2>2. CASE /\ q2 = At(q, q.pc + 1, View(t)) /\ Passes(t)
             /\ q.pc # Len(Program[q.job]) /\ q.job = "sweep"
    <3>1. Shaped(q) /\ q.pc \in Nat /\ now \in Int /\ q.pc <= 6
      BY <2>2, InvFacts DEF Shaped, Length
    <3>2. q.pc + 1 <= Length[q.job]
      BY <2>2, <3>1, ExpireIs DEF Program, Length
    <3>3. View(t) = Overlay(NoWrites, View(t))
      BY DEF View, Overlay, NoWrites
    <3>4. /\ q2.job = "sweep" /\ q2.pc = q.pc + 1 /\ q2.stamp = now /\ Shaped(q2)
          /\ Targets(q2, NoWrites, View(t))
      BY <2>2, <3>1, <3>2, <3>3, AtIs
    <3>5. \A x : x \notin DOMAIN NoWrites
      BY DEF NoWrites
    <3>6. Writes(q2, NoWrites, Locked(t)') /\ Moves(q2, NoWrites, db')
      BY <3>5 DEF Writes, Moves
    <3>7. SoFar(q2, NoWrites, db', Locked(t)')
      BY <3>4 DEF SoFar, OnRide
    <3>8. QED BY <1>2, <3>1, <3>4, <3>6, <3>7 DEF Good
  <2>3. QED BY <1>5, <2>1, <2>2
<1>7. QED
  BY <1>1, <1>2, <1>3, <1>4, <1>5, <1>6, InvNext DEF q2

\* A handler fails, is refused or is the victim of a deadlock.
LEMMA RollbackStep ==
  ASSUME Inv, NEW t \in Tx, Rollback(t)
  PROVE  Inv'
<1>1. /\ tx' = [tx EXCEPT ![t] = Ended] /\ db' = db /\ Release(t) /\ now' = now
  BY DEF Rollback, Release
<1>2. /\ holder' \in [Rows -> Tx \cup {NoTx}] /\ \A u \in Tx \ {t} : Locked(u)' = Locked(u)
      /\ \A u : u \in DOMAIN work' <=> u \in Tx
      /\ work'[t] = NoWrites /\ \A u \in Tx \ {t} : work'[u] = work[u]
  BY <1>1, ReleaseLocks
<1>3. /\ tx'[t] = Ended /\ \A u \in Tx \ {t} : tx'[u] = tx[u]
      /\ \A u : u \in DOMAIN tx' <=> u \in Tx
  BY <1>1, Others
<1>4. Good(Ended, NoWrites, db', Locked(t)') /\ Ended.stamp <= now
  BY EndedGood, Others
<1>5. QED BY <1>1, <1>2, <1>3, <1>4, Others, InvNext

\* A row is taken.
LEMMA TakeStep ==
  ASSUME Inv, NEW t \in Tx, NEW row \in tx[t].todo, Take(t, row)
  PROVE  Inv'
<1> DEFINE q == tx[t]
           w == work[t]
           h == Locked(t)
           q2 == [q EXCEPT !.todo = @ \ {row}]
           w2 == Wrote(q, w, db, row)
           h2 == h \cup {row}
<1>1. /\ Good(q, w, db, h) /\ Shaped(q) /\ q.stamp <= now /\ View(t) = Overlay(w, db)
      /\ db \in Tables /\ (\A r \in Rides : RideAgrees(r, db)) /\ q.pc \in Nat
  BY InvFacts
<1>2. row \in Rows /\ q.pc > 0
  BY <1>1 DEF Shaped
<1>3. /\ holder[row] \in {NoTx, t} /\ holder' = [holder EXCEPT ![row] = t]
      /\ tx' = [tx EXCEPT ![t].todo = @ \ {row}] /\ db' = db /\ now' = now
      /\ work' = IF Matches(Statement(q), View(t)[row], q.stamp) /\ Statement(q).to # "same"
                 THEN [work EXCEPT ![t] = [x \in DOMAIN work[t] \cup {row} |->
                                            IF x = row THEN Written(q, View(t)[row]) ELSE work[t][x]]]
                 ELSE work
  BY DEF Take
<1>4. /\ tx'[t] = q2 /\ \A u \in Tx \ {t} : tx'[u] = tx[u]
      /\ \A u : u \in DOMAIN tx' <=> u \in Tx
  BY <1>3, Others
<1>5. /\ work'[t] = w2 /\ \A u \in Tx \ {t} : work'[u] = work[u]
      /\ \A u : u \in DOMAIN work' <=> u \in Tx
  <2>1. CASE Matching(q, w, db, row)
    <3>1. work' = [work EXCEPT ![t] = [x \in DOMAIN work[t] \cup {row} |->
                                        IF x = row THEN Written(q, View(t)[row]) ELSE work[t][x]]]
      BY <1>1, <1>3, <2>1 DEF Matching
    <3>2. QED BY <1>1, <2>1, <3>1, Others DEF Wrote
  <2>2. CASE ~Matching(q, w, db, row)
    BY <1>1, <1>3, <2>2, Others DEF Matching, Wrote
  <2>3. QED BY <2>1, <2>2
<1>6. /\ holder' \in [Rows -> Tx \cup {NoTx}] /\ Locked(t)' = h2
      /\ \A u \in Tx \ {t} : Locked(u)' = Locked(u)
  BY <1>2, <1>3, Others, MarketplaceTxAssumption DEF Locked
<1>7. Taking(q, w, db, h, row, q2, w2, h2)
  BY <1>1, <1>2 DEF Taking
<1>8. Good(q2, w2, db, h2) /\ q2.stamp <= now
  <2>1. Good(q2, w2, db, h2)
    BY <1>7, TakeGood
  <2>2. q2.stamp = q.stamp
    BY <1>7, TakeFacts
  <2>3. QED BY <1>1, <2>1, <2>2
<1> HIDE DEF q2, w2, h2
<1>9. tx'[t].stamp <= now /\ Good(tx'[t], work'[t], db', Locked(t)')
  BY <1>3, <1>4, <1>5, <1>6, <1>8
<1>10. db' = db /\ now' = now
  BY <1>3
<1>11. QED BY <1>4, <1>5, <1>6, <1>9, <1>10, Others, InvNext

\* A locked row is passed over: only the pass over the profiles does so.
LEMMA PassOverStep ==
  ASSUME Inv, NEW t \in Tx, NEW row \in tx[t].todo, PassOver(t, row)
  PROVE  Inv'
<1> DEFINE q == tx[t]
           w == work[t]
           h == Locked(t)
           q2 == [q EXCEPT !.todo = @ \ {row}]
<1>1. /\ Good(q, w, db, h) /\ Shaped(q) /\ q.stamp <= now /\ q.pc \in Nat
  BY InvFacts
<1>2. /\ Statement(q).of = "unlocked"
      /\ tx' = [tx EXCEPT ![t].todo = @ \ {row}]
      /\ UNCHANGED <<db, work, holder, waits, now>>
  BY DEF PassOver
<1>3. q.pc > 0
  BY <1>1 DEF Shaped
<1>4. q.job \in OnProfile
  BY <1>1, <1>2, <1>3, Statements
<1>5. /\ Shaped(q2)
      /\ q2.job = q.job /\ q2.r = q.r /\ q2.d = q.d /\ q2.pc = q.pc
      /\ q2.stamp = q.stamp /\ q2.judged = q.judged
      /\ q2.todo = q.todo \ {row}
      /\ Statement(q2) = Statement(q)
  BY <1>1, TakenRecord
<1> HIDE DEF q2
<1>6. Targets(q2, w, db)
  <2>1. Targets(q, w, db) /\ q2.todo \subseteq q.todo
    BY <1>1, <1>5 DEF Good
  <2>2. Stands(Overlay(w, db), Overlay(w, db))
    BY DEF Stands
  <2>3. QED BY <1>1, <1>3, <1>5, <2>1, <2>2, TargetsStand
<1>7. Writes(q2, w, h)
  BY <1>1, <1>5 DEF Good, Writes
<1>8. Moves(q2, w, db)
  <2>1. Moves(q, w, db)
    BY <1>1 DEF Good
  <2>2. ASSUME NEW r \in Rides, RideRow(r) \in DOMAIN w
        PROVE  RideMove(q2, w, db, r)
    BY <1>5, <2>1, <2>2 DEF Moves, RideMove
  <2>3. ASSUME NEW r \in Rides, NEW d \in Drivers
        PROVE  /\ OfferRow(<<r, d>>) \in DOMAIN w => OfferMove(q2, w, db, r, d)
               /\ OppRow(<<r, d>>) \in DOMAIN w => OppMove(q2, w, db, r, d)
               /\ TripRow(<<r, d>>) \notin DOMAIN w
    <3>1. OfferRow(<<r, d>>) \in DOMAIN w => OfferMove(q2, w, db, r, d)
      BY <1>5, <2>1, <2>3 DEF Moves, OfferMove
    <3>2. OppRow(<<r, d>>) \in DOMAIN w => OppMove(q2, w, db, r, d)
      BY <1>5, <2>1, <2>3 DEF Moves, OppMove
    <3>3. TripRow(<<r, d>>) \notin DOMAIN w
      BY <1>4, <2>1, <2>3 DEF Moves, TripMove, OnProfile
    <3>4. QED BY <3>1, <3>2, <3>3
  <2>4. QED BY <1>5, <2>1, <2>2, <2>3 DEF Moves
<1>9. SoFar(q2, w, db, h)
  BY <1>4, <1>5 DEF SoFar, OnProfile, OnRide
<1>10. Good(q2, w, db, h)
  BY <1>5, <1>6, <1>7, <1>8, <1>9 DEF Good
<1>11. /\ tx'[t] = q2 /\ \A u \in Tx \ {t} : tx'[u] = tx[u]
       /\ \A u : u \in DOMAIN tx' <=> u \in Tx
  BY <1>2, Others DEF q2
<1>12. \A u : Locked(u)' = Locked(u)
  BY <1>2 DEF Locked
<1>13. q2.stamp <= now
  BY <1>1, <1>5
<1>14. QED
  BY <1>2, <1>10, <1>11, <1>12, <1>13, Others, InvNext

\* Who calls what: the requests that may arrive name what they are about.
LEMMA ArgumentsAre ==
  ASSUME NEW i \in 1..Len(Jobs), NEW arg \in Arguments(Jobs[i])
  PROVE  /\ Jobs[i] \in Kinds
         /\ arg[1] \in Rides \cup {NoRide} /\ arg[2] \in Drivers \cup {NoDriver}
         /\ Jobs[i] \in OnRide \cup OnTrip \cup {"skip"} => arg[1] \in Rides
         /\ Jobs[i] \in (OnRide \ {"cancel"}) \cup OnTrip \cup OnProfile \cup {"skip"} => arg[2] \in Drivers
<1> DEFINE job == Jobs[i]
<1>1. job \in {"select", "upsert", "reject", "skip", "cancel", "withdraw", "start", "complete",
               "collect", "heartbeat", "online", "offline", "presence", "sweep"}
  BY DEF Jobs
<1> HIDE DEF job
<1>2. job \in {"select", "reject"} => Arguments(job) = Having("offer", {"pending"})
  BY Zenon DEF Arguments
<1>3. job \in {"upsert", "skip"} => Arguments(job) = Having("opp", {"open"})
  BY Zenon DEF Arguments
<1>4. job \in {"withdraw", "start", "complete", "collect"} => Arguments(job) = Having("trip", ActiveTrip)
  BY Zenon DEF Arguments
<1>5. job = "cancel" => Arguments(job) = {<<p[1], NoDriver>> : p \in Shown}
  BY Zenon DEF Arguments
<1>6. job \in {"heartbeat", "online", "offline", "presence"} =>
        Arguments(job) = {<<NoRide, p[2]>> : p \in Shown}
  BY Zenon DEF Arguments
<1>7. job = "sweep" => Arguments(job) = {<<NoRide, NoDriver>>}
  BY Zenon DEF Arguments
<1>8. /\ \A table, statuses : Having(table, statuses) \subseteq Pairs
      /\ Shown \subseteq Pairs
      /\ \A p \in Pairs : p[1] \in Rides /\ p[2] \in Drivers
  BY DEF Having, Shown, Pairs
<1>9. arg \in Arguments(job)
  BY DEF job
<1>10. CASE job \in {"select", "reject", "upsert", "skip", "withdraw", "start", "complete", "collect"}
  <2>1. arg \in Pairs
    BY <1>2, <1>3, <1>4, <1>8, <1>9, <1>10
  <2>2. arg[1] \in Rides /\ arg[2] \in Drivers
    BY <1>8, <2>1
  <2>3. QED BY <1>10, <2>2 DEF job, Kinds, OnRide, OnTrip
<1>11. CASE job = "cancel"
  <2>1. arg[1] \in Rides /\ arg[2] = NoDriver
    BY <1>5, <1>8, <1>9, <1>11
  <2>2. QED BY <1>11, <2>1 DEF job, Kinds, OnRide, OnTrip, OnProfile
<1>12. CASE job \in {"heartbeat", "online", "offline", "presence"}
  <2>1. arg[1] = NoRide /\ arg[2] \in Drivers
    BY <1>6, <1>8, <1>9, <1>12
  <2>2. QED BY <1>12, <2>1 DEF job, Kinds, OnRide, OnTrip, OnProfile
<1>13. CASE job = "sweep"
  <2>1. arg[1] = NoRide /\ arg[2] = NoDriver
    BY <1>7, <1>9, <1>13
  <2>2. QED BY <1>13, <2>1 DEF job, Kinds, OnRide, OnTrip, OnProfile
<1>14. QED BY <1>1, <1>10, <1>11, <1>12, <1>13

\* The invariant holds at first.
LEMMA InitInv == Init => Inv
<1> SUFFICES ASSUME Init
             PROVE  Inv
  OBVIOUS
<1>1. /\ db \in Tables /\ \A r \in Rides : RideAgrees(r, db)
      /\ work = [t \in Tx |-> NoWrites] /\ holder = [row \in Rows |-> NoTx] /\ now = 0
  BY MarketplaceTxAssumption DEF Init
<1>2. PICK which \in [Tx -> 1..Len(Jobs)] :
        \E arg \in [Tx -> UNION {Arguments(Jobs[which[t]]) : t \in Tx}] :
          /\ \A t \in Tx : arg[t] \in Arguments(Jobs[which[t]])
          /\ tx = [t \in Tx |-> [Ended EXCEPT !.job = Jobs[which[t]],
                                              !.r = arg[t][1], !.d = arg[t][2]]]
  BY DEF Init
<1>3. PICK arg :
          /\ \A t \in Tx : arg[t] \in Arguments(Jobs[which[t]])
          /\ tx = [t \in Tx |-> [Ended EXCEPT !.job = Jobs[which[t]],
                                              !.r = arg[t][1], !.d = arg[t][2]]]
  BY <1>2
<1>4. ASSUME NEW t \in Tx
      PROVE  tx[t].stamp <= now /\ Good(tx[t], work[t], db, Locked(t))
  <2> DEFINE i == which[t]
             a == arg[t]
             q == tx[t]
  <2>1. i \in 1..Len(Jobs) /\ a \in Arguments(Jobs[i])
    BY <1>3, <1>4
  <2>2. q = [Ended EXCEPT !.job = Jobs[i], !.r = a[1], !.d = a[2]]
    BY <1>3, <1>4
  <2> HIDE DEF i, a, q
  <2>3. /\ Jobs[i] \in Kinds
        /\ a[1] \in Rides \cup {NoRide} /\ a[2] \in Drivers \cup {NoDriver}
        /\ Jobs[i] \in OnRide \cup OnTrip \cup {"skip"} => a[1] \in Rides
        /\ Jobs[i] \in (OnRide \ {"cancel"}) \cup OnTrip \cup OnProfile \cup {"skip"} => a[2] \in Drivers
    BY <2>1, ArgumentsAre
  <2>4. /\ q.job = Jobs[i] /\ q.r = a[1] /\ q.d = a[2] /\ q.pc = 0 /\ q.todo = {} /\ q.stamp = 0
        /\ q \in [job : Kinds, r : Rides \cup {NoRide}, d : Drivers \cup {NoDriver}, pc : Nat,
                  todo : SUBSET Rows, stamp : Int, start : Int, judged : Int]
    <3>1. q = [job |-> Jobs[i], r |-> a[1], d |-> a[2], pc |-> 0, todo |-> {},
               stamp |-> 0, start |-> 0, judged |-> 0]
      BY <2>2 DEF Ended
    <3>2. QED BY <2>3, <3>1
  <2>5. 0 <= Length[q.job]
    BY <2>3, <2>4 DEF Kinds, OnRide, OnTrip, OnProfile, Length
  <2>6. Shaped(q)
    BY <2>3, <2>4, <2>5 DEF Shaped
  <2>7. \A x : x \notin DOMAIN work[t]
    BY <1>1, <1>4 DEF NoWrites
  <2>8. Writes(q, work[t], Locked(t)) /\ Moves(q, work[t], db)
    BY <2>7 DEF Writes, Moves
  <2>9. Targets(q, work[t], db)
    BY <2>4 DEF Targets
  <2>10. SoFar(q, work[t], db, Locked(t))
    <3>1. \A x : \A n \in 7..17 : ~Past(q, x, n)
      BY <2>4 DEF Past
    <3>2. QED
      BY <2>4, <3>1 DEF SoFar, RideHeld, SelectSoFar, UpsertSoFar, RejectSoFar, CancelSoFar
  <2>11. QED BY <1>1, <2>4, <2>6, <2>8, <2>9, <2>10 DEF Good, q
<1>5. DOMAIN tx = Tx /\ DOMAIN work = Tx /\ holder \in [Rows -> Tx \cup {NoTx}]
  BY <1>1, <1>3
<1>6. QED BY <1>1, <1>4, <1>5 DEF Inv

\* Every step keeps it.
LEMMA NextInv == Inv /\ [Next]_vars => Inv'
<1> SUFFICES ASSUME Inv, [Next]_vars
             PROVE  Inv'
  OBVIOUS
<1>1. ASSUME NEW t \in Tx, Begin(t)
      PROVE  Inv'
  BY <1>1, BeginStep
<1>2. ASSUME NEW t \in Tx, Advance(t)
      PROVE  Inv'
  BY <1>2, GoOnStep, CommitStep
<1>3. ASSUME NEW t \in Tx, Refuse(t) \/ BreakDeadlock(t) \/ Fail(t)
      PROVE  Inv'
  BY <1>3, RollbackStep DEF Refuse, BreakDeadlock, Fail
<1>4. ASSUME NEW t \in Tx, NEW row \in tx[t].todo, Take(t, row)
      PROVE  Inv'
  BY <1>4, TakeStep
<1>5. ASSUME NEW t \in Tx, NEW row \in tx[t].todo, PassOver(t, row)
      PROVE  Inv'
  BY <1>5, PassOverStep
<1>6. ASSUME UNCHANGED <<db, work, holder, tx>>, now' \in Nat, now <= now'
      PROVE  Inv'
  <2>1. \A t : Locked(t)' = Locked(t)
    BY <1>6 DEF Locked
  <2>2. ASSUME NEW t \in Tx
        PROVE  tx'[t].stamp <= now' /\ Good(tx'[t], work'[t], db', Locked(t)')
    <3>1. tx[t].stamp <= now /\ Good(tx[t], work[t], db, Locked(t)) /\ tx[t].stamp \in Int /\ now \in Int
      BY <2>2, InvFacts DEF Shaped
    <3>2. QED BY <1>6, <2>1, <3>1
  <2>3. QED BY <1>6, <2>2 DEF Inv
<1>7. ASSUME NEW t \in Tx, NEW row \in tx[t].todo, Await(t, row)
      PROVE  Inv'
  BY <1>6, <1>7, Others DEF Await
<1>8. CASE Tick
  BY <1>6, <1>8, Others DEF Tick
<1>9. CASE Rest \/ UNCHANGED vars
  BY <1>6, <1>9, Others DEF Rest, vars
<1>10. QED BY <1>1, <1>2, <1>3, <1>4, <1>5, <1>7, <1>8, <1>9 DEF Next, Work

-----------------------------------------------------------------------------
(***************************************************************************)
(* In every state, each handler has locked, seen and written what its      *)
(* place in its program says, and the committed rows agree.                *)
(***************************************************************************)
THEOREM InvAlways == Spec => []Inv
BY InitInv, NextInv, PTL DEF Spec

(***************************************************************************)
(* CommittedRowsAgree holds however many rides, drivers and connections    *)
(* there are: whatever statements interleave, wait, fail or deadlock, the  *)
(* rows a commit leaves behind agree.                                      *)
(***************************************************************************)
THEOREM CommittedRowsAgreeAlways == Spec => []CommittedRowsAgree
<1>1. Inv => CommittedRowsAgree
  BY DEF Inv, CommittedRowsAgree
<1>2. QED BY <1>1, InvAlways, PTL

-----------------------------------------------------------------------------
(***************************************************************************)
(* What a step commits.                                                    *)
(***************************************************************************)
\* The tables change only when a handler commits.
LEMMA OnlyCommits ==
  ASSUME Inv, [Next]_vars, db' # db
  PROVE  \E t \in Tx :
           /\ Advance(t) /\ db' = View(t)
           /\ ~Passes(t) \/ tx[t].pc = Len(Program[tx[t].job]) \/ tx[t].job = "sweep"
<1>1. PICK t \in Tx : Begin(t) \/ Work(t) \/ Fail(t)
  BY DEF Next, vars, Tick, Rest
<1>2. Advance(t)
  BY <1>1 DEF Begin, Work, Fail, Refuse, BreakDeadlock, Rollback, Take, Await, PassOver
<1>3. QED BY <1>2 DEF Advance, Commit

\* A handler that commits changes to its ride has run its program.
LEMMA OwnersFinish ==
  ASSUME Inv, NEW t \in Tx, Advance(t), NEW r, Owns(tx[t], r),
         ~Passes(t) \/ tx[t].pc = Len(Program[tx[t].job]) \/ tx[t].job = "sweep"
  PROVE  /\ Finished(tx[t], work[t], db, Locked(t))
         /\ tx'[t] = Ended
<1>1. tx[t].pc > 0 /\ tx[t].todo = {} /\ (Passes(t) \/ DoneBefore(t))
  BY DEF Advance
<1>2. Passes(t) /\ tx[t].pc = Len(Program[tx[t].job])
  BY <1>1, DoneOwnsNothing DEF Owns, OnRide
<1>3. tx[t].pc = Length[tx[t].job]
  BY <1>2, InvFacts, Lengths DEF Shaped
<1>4. Finished(tx[t], work[t], db, Locked(t))
  BY <1>1, <1>3, InvFacts DEF Finished
<1>5. tx'[t] = Ended
  BY <1>2, Others DEF Advance
<1>6. QED BY <1>4, <1>5

\* What is known of a selection that commits.
LEMMA SelectFinished ==
  ASSUME NEW q, NEW w, NEW base, NEW h, Finished(q, w, base, h), q.job = "select"
  PROVE  LET view == Overlay(w, base)
             p == <<q.r, q.d>>
         IN  /\ q.r \in Rides /\ q.d \in Drivers
             /\ base[RideRow(q.r)].is = "requested" /\ view[RideRow(q.r)].is = "accepted"
             /\ view[RideRow(q.r)].at = base[RideRow(q.r)].at
             /\ base[TripRow(p)].is = "none" /\ view[TripRow(p)].is = "assigned"
             /\ view[TripRow(p)].at < base[RideRow(q.r)].at
             /\ base[ProfileRow(q.d)].is = "online" /\ Fresh(base[ProfileRow(q.d)], q.judged)
             /\ \A r \in Rides : base[TripRow(<<r, q.d>>)].is \notin ActiveTrip
             /\ \A d \in Drivers : d # q.d =>
                  base[TripRow(<<q.r, d>>)].is = "none" /\ view[TripRow(<<q.r, d>>)].is = "none"
<1> DEFINE view == Overlay(w, base)
           p == <<q.r, q.d>>
           xr == RideRow(q.r)
<1>1. /\ SelectSoFar(q, w, base, h) /\ Moves(q, w, base) /\ q.r \in Rides /\ q.d \in Drivers
      /\ q.pc = 17 /\ q.todo = {} /\ RideAgrees(q.r, base)
  BY DEF Finished, Good, SoFar, Shaped, Length, OnRide
<1>2. \A x : \A n \in 0..17 : Past(q, x, n)
  BY <1>1 DEF Past
<1>3. \A row \in Rows : view[row] = IF row \in DOMAIN w THEN w[row] ELSE base[row]
  BY Sees
<1>4. xr \in Rows /\ TripRow(p) \in Rows /\ ProfileRow(q.d) \in Rows
  BY <1>1, RowsAre
<1> HIDE DEF view
<1>5. xr \in DOMAIN w /\ view[xr].is = "accepted"
  BY <1>1 DEF SelectSoFar, view
<1>6. base[xr].is = "requested" /\ view[xr].at = base[xr].at
  <2>1. RideMove(q, w, base, q.r)
    BY <1>1, <1>5 DEF Moves
  <2>2. view[xr] = w[xr]
    BY <1>3, <1>4, <1>5
  <2>3. QED BY <1>5, <2>1, <2>2 DEF RideMove
<1>7. \A d \in Drivers : base[TripRow(<<q.r, d>>)].is = "none"
  BY <1>1, <1>6 DEF RideAgrees
<1>8. view[TripRow(p)].is = "assigned" /\ view[TripRow(p)].at < base[xr].at
  BY <1>1, <1>2, <1>5, <1>6 DEF SelectSoFar, view
<1>9. base[ProfileRow(q.d)].is = "online" /\ Fresh(base[ProfileRow(q.d)], q.judged)
  <2>1. ProfileRow(q.d) \notin DOMAIN w
    BY <1>1 DEF Moves, OnProfile
  <2>2. view[ProfileRow(q.d)] = base[ProfileRow(q.d)]
    BY <1>3, <1>4, <2>1
  <2>3. QED BY <1>1, <2>2 DEF SelectSoFar, view
<1>10. \A r \in Rides : base[TripRow(<<r, q.d>>)].is \notin ActiveTrip
  <2>1. \A r \in Rides \ {q.r} : base[TripRow(<<r, q.d>>)].is \notin ActiveTrip
    BY <1>1 DEF SelectSoFar
  <2>2. "none" \notin ActiveTrip
    BY DEF ActiveTrip
  <2>3. QED BY <1>1, <1>7, <2>1, <2>2
<1>11. ASSUME NEW d \in Drivers, d # q.d
       PROVE  view[TripRow(<<q.r, d>>)].is = "none"
  <2>1. TripRow(<<q.r, d>>) \notin DOMAIN w
    BY <1>1, <1>11 DEF Moves, TripMove
  <2>2. QED BY <1>1, <1>3, <1>7, <1>11, <2>1, RowsAre
<1>12. QED BY <1>1, <1>5, <1>6, <1>7, <1>8, <1>9, <1>10, <1>11 DEF view

(***************************************************************************)
(* AssignedInTime holds however many rides, drivers and connections there  *)
(* are, and whatever the lease and the decision time are.                  *)
(***************************************************************************)
THEOREM AssignedInTimeAlways == Spec => AssignedInTime
<1>1. ASSUME Inv, [Next]_vars, db' # db, NEW r \in Rides, NEW d \in Drivers,
             db[TripRow(<<r, d>>)].is = "none", db'[TripRow(<<r, d>>)].is = "assigned"
      PROVE  /\ db'[TripRow(<<r, d>>)].at < db[RideRow(r)].at
             /\ db[ProfileRow(d)].is = "online"
             /\ ~Driving(d, db)
             /\ \E t \in Tx :
                  /\ tx[t].job = "select" /\ <<tx[t].r, tx[t].d>> = <<r, d>> /\ tx'[t] = Ended
                  /\ Fresh(db[ProfileRow(d)], tx[t].judged)
  <2>1. PICK t \in Tx :
           /\ Advance(t) /\ db' = View(t)
           /\ ~Passes(t) \/ tx[t].pc = Len(Program[tx[t].job]) \/ tx[t].job = "sweep"
    BY <1>1, OnlyCommits
  <2> DEFINE q == tx[t]
             w == work[t]
  <2>2. /\ Moves(q, w, db) /\ q.pc \in Nat /\ db' = Overlay(w, db)
    BY <1>1, <2>1, InvFacts
  <2>3. TripRow(<<r, d>>) \in DOMAIN w /\ w[TripRow(<<r, d>>)].is = "assigned"
    BY <1>1, <2>2, RowsAre, Sees
  <2>4. q.job = "select" /\ q.r = r /\ q.d = d /\ q.pc >= 14
    <3>1. TripMove(q, w, db, r, d)
      BY <1>1, <2>2, <2>3 DEF Moves
    <3>2. QED BY <2>2, <2>3, <3>1 DEF TripMove, Past
  <2>5. Owns(q, r)
    BY <2>2, <2>4 DEF Owns, OnRide
  <2>6. Finished(q, w, db, Locked(t)) /\ tx'[t] = Ended
    BY <1>1, <2>1, <2>5, OwnersFinish
  <2> HIDE DEF q, w
  <2>7. /\ db'[TripRow(<<r, d>>)].at < db[RideRow(r)].at
        /\ db[ProfileRow(d)].is = "online" /\ Fresh(db[ProfileRow(d)], q.judged)
        /\ \A x \in Rides : db[TripRow(<<x, d>>)].is \notin ActiveTrip
    BY <2>2, <2>4, <2>6, SelectFinished
  <2>8. ~Driving(d, db)
    BY <2>7 DEF Driving
  <2>9. QED BY <2>4, <2>6, <2>7, <2>8 DEF q
<1>2. Inv /\ [Next]_vars =>
        [db' # db => \A r \in Rides, d \in Drivers :
           LET p == <<r, d>>
           IN  (db[TripRow(p)].is = "none" /\ db'[TripRow(p)].is = "assigned") =>
                 /\ db'[TripRow(p)].at < db[RideRow(r)].at
                 /\ db[ProfileRow(d)].is = "online"
                 /\ ~Driving(d, db)
                 /\ \E t \in Tx :
                      /\ tx[t].job = "select" /\ <<tx[t].r, tx[t].d>> = p /\ tx'[t] = Ended
                      /\ Fresh(db[ProfileRow(d)], tx[t].judged)]_vars
  BY <1>1
<1>3. QED BY <1>2, InvAlways, PTL DEF Spec, AssignedInTime

-----------------------------------------------------------------------------
(***************************************************************************)
(* The contract.                                                           *)
(***************************************************************************)
\* Who drives, when the trips of a ride agree.
LEMMA WinnerIs ==
  ASSUME NEW r \in Rides, NEW rows, RideAgrees(r, rows)
  PROVE  /\ (\A d \in Drivers : rows[TripRow(<<r, d>>)].is = "none") => WinnerOf(r, rows) = NoDriver
         /\ \A d \in Drivers : rows[TripRow(<<r, d>>)].is # "none" => WinnerOf(r, rows) = d
<1>1. RideTrips(r, rows)
  BY AgreesIs
<1>2. ASSUME NEW d \in Drivers, rows[TripRow(<<r, d>>)].is # "none"
      PROVE  WinnerOf(r, rows) = d
  <2>1. \A e \in Drivers : rows[TripRow(<<r, e>>)].is # "none" => e = d
    BY <1>1, <1>2 DEF RideTrips, Trips
  <2>2. (CHOOSE e \in Drivers : rows[TripRow(<<r, e>>)].is # "none") = d
    BY <1>2, <2>1
  <2>3. ~Tripless(r, rows)
    BY <1>2 DEF Tripless
  <2>4. QED BY <2>2, <2>3 DEF WinnerOf
<1>3. QED BY <1>2 DEF WinnerOf, Tripless

\* The phase that a ride and its trip stand for.
LEMMA PhaseIs ==
  ASSUME NEW r \in Rides, NEW rows, RideAgrees(r, rows)
  PROVE  /\ rows[RideRow(r)].is = "requested" => PhaseOf(r, rows) = "open"
         /\ rows[RideRow(r)].is \notin {"requested", "accepted"} =>
              PhaseOf(r, rows) = rows[RideRow(r)].is
         /\ \A d \in Drivers :
              LET trip == rows[TripRow(<<r, d>>)].is
              IN  rows[RideRow(r)].is = "accepted" /\ trip # "none" =>
                    PhaseOf(r, rows) = IF trip = "in_progress" THEN "riding" ELSE trip
<1>1. rows[RideRow(r)].is = "requested" => PhaseOf(r, rows) = "open"
  BY Zenon DEF PhaseOf
<1>2. rows[RideRow(r)].is \notin {"requested", "accepted"} =>
        PhaseOf(r, rows) = rows[RideRow(r)].is
  <2> SUFFICES ASSUME rows[RideRow(r)].is # "requested", rows[RideRow(r)].is # "accepted"
               PROVE  PhaseOf(r, rows) = rows[RideRow(r)].is
    OBVIOUS
  <2> QED BY Zenon DEF PhaseOf
<1>3. ASSUME NEW d \in Drivers, rows[RideRow(r)].is = "accepted",
             rows[TripRow(<<r, d>>)].is # "none"
      PROVE  PhaseOf(r, rows) = IF rows[TripRow(<<r, d>>)].is = "in_progress"
                                THEN "riding" ELSE rows[TripRow(<<r, d>>)].is
  <2>1. WinnerOf(r, rows) = d /\ d # NoDriver
    BY <1>3, WinnerIs, MarketplaceTxAssumption
  <2>2. "accepted" # "requested"
    OBVIOUS
  <2>3. QED BY <1>3, <2>1, <2>2, Zenon DEF PhaseOf
<1>4. QED BY <1>1, <1>2, <1>3

\* A ride whose trips are those it had keeps its driver.
LEMMA SameWinner ==
  ASSUME NEW r \in Rides, NEW rows, NEW rows2, RideAgrees(r, rows), RideAgrees(r, rows2),
         \A d \in Drivers :
           rows2[TripRow(<<r, d>>)].is = "none" <=> rows[TripRow(<<r, d>>)].is = "none"
  PROVE  WinnerOf(r, rows2) = WinnerOf(r, rows)
<1>1. CASE \A d \in Drivers : rows[TripRow(<<r, d>>)].is = "none"
  BY <1>1, WinnerIs
<1>2. CASE \E d \in Drivers : rows[TripRow(<<r, d>>)].is # "none"
  <2>1. PICK d \in Drivers : rows[TripRow(<<r, d>>)].is # "none"
    BY <1>2
  <2>2. WinnerOf(r, rows2) = d /\ WinnerOf(r, rows) = d
    BY <2>1, WinnerIs
  <2>3. QED BY <2>2
<1>3. QED BY <1>1, <1>2

\* A ride that stays as it was keeps its phase.
LEMMA SamePhase ==
  ASSUME NEW r \in Rides, NEW rows, NEW rows2, RideAgrees(r, rows), RideAgrees(r, rows2),
         rows2[RideRow(r)].is = rows[RideRow(r)].is,
         \A d \in Drivers : rows2[TripRow(<<r, d>>)].is = rows[TripRow(<<r, d>>)].is
  PROVE  PhaseOf(r, rows2) = PhaseOf(r, rows)
<1>1. CASE rows[RideRow(r)].is = "accepted"
  <2>1. RideTrips(r, rows)
    BY AgreesIs
  <2>2. PICK d \in Drivers : rows[TripRow(<<r, d>>)].is # "none"
    BY <1>1, <2>1 DEF RideTrips, Trips
  <2>3. QED BY <1>1, <2>2, PhaseIs
<1>2. CASE rows[RideRow(r)].is # "accepted"
  BY <1>2, PhaseIs
<1>3. QED BY <1>1, <1>2

\* What a commit does to a ride that it does not own and whose trip it does
\* not move: nothing, or the ride lapses.
Lapsed(base, view, r) ==
  base[RideRow(r)].is = "requested" /\ view[RideRow(r)].is = "expired"

\* A ride with the trips it had lapses at most.
LEMMA OthersPhase ==
  ASSUME NEW q, NEW w, NEW base, Moves(q, w, base), q.pc \in Nat, NEW r \in Rides, ~Owns(q, r),
         RideAgrees(r, base),
         \A d \in Drivers :
           Overlay(w, base)[TripRow(<<r, d>>)].is = base[TripRow(<<r, d>>)].is
  PROVE  LET view == Overlay(w, base)
         IN  /\ PhaseOf(r, view) = IF Lapsed(base, view, r) THEN "expired" ELSE PhaseOf(r, base)
             /\ WinnerOf(r, view) = WinnerOf(r, base)
<1> DEFINE view == Overlay(w, base)
<1>1. RideAgrees(r, view)
  BY LapsesAgree
<1>2. \/ view[RideRow(r)].is = base[RideRow(r)].is
      \/ base[RideRow(r)].is = "requested" /\ view[RideRow(r)].is = "expired"
  BY OthersRide
<1>3. \A d \in Drivers : view[TripRow(<<r, d>>)].is = base[TripRow(<<r, d>>)].is
  OBVIOUS
<1> HIDE DEF view
<1>4. WinnerOf(r, view) = WinnerOf(r, base)
  BY <1>1, <1>3, SameWinner
<1>5. ASSUME Lapsed(base, view, r)
      PROVE  PhaseOf(r, view) = "expired"
  BY <1>1, <1>5, PhaseIs DEF Lapsed
<1>6. ASSUME ~Lapsed(base, view, r)
      PROVE  PhaseOf(r, view) = PhaseOf(r, base)
  BY <1>1, <1>2, <1>3, <1>6, SamePhase DEF Lapsed
<1>7. QED BY <1>4, <1>5, <1>6 DEF view

\* The rides that a commit lets lapse.
LapsedNow == {r \in Rides : Lapsed(db, db', r)}

\* Ride r lapses or keeps its phase, and keeps its driver.
AtMostLapses(r) ==
  /\ PhaseOf(r, db') = IF Lapsed(db, db', r) THEN "expired" ELSE PhaseOf(r, db)
  /\ WinnerOf(r, db') = WinnerOf(r, db)

\* Only open rides lapse.
LEMMA LapsedWereOpen ==
  ASSUME \A r \in Rides : RideAgrees(r, db)
  PROVE  LapsedNow \in SUBSET Contract!Open
<1> SUFFICES ASSUME NEW r \in Rides, Lapsed(db, db', r) PROVE PhaseOf(r, db) = "open"
  BY DEF LapsedNow, Contract!Open, Phase
<1> QED BY PhaseIs DEF Lapsed

\* A commit in which rides lapse at most is a lapse of the contract.
LEMMA LapseImplements ==
  ASSUME \A r \in Rides : RideAgrees(r, db), \A r \in Rides : AtMostLapses(r)
  PROVE  Contract!Next
<1>1. Phase' = [r \in Rides |-> IF r \in LapsedNow THEN "expired" ELSE Phase[r]]
  BY DEF Phase, LapsedNow, AtMostLapses
<1>2. Winner' = Winner
  BY DEF Winner, AtMostLapses
<1>3. Contract!Lapse(LapsedNow)
  BY <1>1, <1>2 DEF Contract!Lapse
<1>4. QED BY <1>3, LapsedWereOpen DEF Contract!Next

\* The other rides lapse while ride r moves.
LEMMA MoveImplements ==
  ASSUME NEW r \in Rides, \A x \in Rides \ {r} : AtMostLapses(x)
  PROVE  Contract!MoveTo(r, PhaseOf(r, db'), LapsedNow)
BY DEF Phase, LapsedNow, AtMostLapses, Contract!MoveTo

\* No ride changes hands.
LEMMA KeepImplements ==
  ASSUME NEW r \in Rides, \A x \in Rides \ {r} : AtMostLapses(x),
         WinnerOf(r, db') = WinnerOf(r, db)
  PROVE  Winner' = Winner
BY DEF Winner, AtMostLapses

\* A commit of transaction t, and what it starts from.
Commits(t) ==
  /\ Inv /\ t \in Tx /\ Advance(t) /\ db' = View(t)
  /\ ~Passes(t) \/ tx[t].pc = Len(Program[tx[t].job]) \/ tx[t].job = "sweep"

\* What is known at a commit.
LEMMA CommitFacts ==
  ASSUME NEW t, Commits(t)
  PROVE  /\ Moves(tx[t], work[t], db) /\ tx[t].pc \in Nat /\ Shaped(tx[t])
         /\ db' = Overlay(work[t], db)
         /\ \A r \in Rides : RideAgrees(r, db) /\ RideAgrees(r, db')
BY InvFacts, CommitAgrees DEF Commits

\* The rides it is not about lapse at most.
LEMMA OthersImplement ==
  ASSUME NEW t, Commits(t), NEW r \in Rides, ~Owns(tx[t], r),
         \A d \in Drivers : db'[TripRow(<<r, d>>)].is = db[TripRow(<<r, d>>)].is
  PROVE  AtMostLapses(r)
BY CommitFacts, OthersPhase DEF AtMostLapses

\* A ride that the handler is not about lapses at most.
LEMMA NotItsRide ==
  ASSUME NEW t, Commits(t), NEW r \in Rides, ~Owns(tx[t], r),
         ~(tx[t].job \in OnTrip /\ tx[t].r = r)
  PROVE  AtMostLapses(r)
<1> DEFINE q == tx[t]
           w == work[t]
<1>1. Moves(q, w, db) /\ q.pc \in Nat /\ db' = Overlay(w, db)
  BY CommitFacts
<1> HIDE DEF q, w
<1>2. ASSUME NEW d \in Drivers
      PROVE  db'[TripRow(<<r, d>>)].is = db[TripRow(<<r, d>>)].is
  <2>1. TripRow(<<r, d>>) \in DOMAIN w => TripMove(q, w, db, r, d)
    BY <1>1 DEF Moves
  <2>2. Past(q, TripRow(<<r, d>>), 14) => q.pc >= 9
    BY <1>1 DEF Past
  <2>3. TripRow(<<r, d>>) \notin DOMAIN w
    BY <1>1, <2>1, <2>2 DEF TripMove, Owns, OnRide, OnTrip, q
  <2>4. QED BY <1>1, <2>3, RowsAre, Sees
<1>3. QED BY <1>2, OthersImplement

\* SelectOffer is an assignment of the contract.
LEMMA SelectImplements ==
  ASSUME NEW t, Commits(t), NEW r \in Rides, Owns(tx[t], r), tx[t].job = "select"
  PROVE  Contract!Next
<1> DEFINE q == tx[t]
           d == q.d
<1>1. q.r = r /\ Finished(q, work[t], db, Locked(t))
  BY OwnersFinish DEF Commits, Owns
<1>2. db' = Overlay(work[t], db) /\ \A x \in Rides : RideAgrees(x, db) /\ RideAgrees(x, db')
  BY CommitFacts
<1>3. /\ d \in Drivers
      /\ db[RideRow(r)].is = "requested" /\ db'[RideRow(r)].is = "accepted"
      /\ db'[TripRow(<<r, d>>)].is = "assigned"
      /\ \A x \in Rides : db[TripRow(<<x, d>>)].is \notin ActiveTrip
  BY <1>1, <1>2, SelectFinished
<1>4. \A x \in Rides \ {r} : AtMostLapses(x)
  BY <1>1, NotItsRide DEF Owns, OnTrip, OnRide
<1> HIDE DEF q, d
<1>5. PhaseOf(r, db) = "open" /\ PhaseOf(r, db') = "assigned" /\ WinnerOf(r, db') = d
  BY <1>2, <1>3, PhaseIs, WinnerIs
<1>6. ~Contract!Busy(d)
  <2> SUFFICES ASSUME NEW x \in Rides, WinnerOf(x, db) = d,
                      PhaseOf(x, db) \in {"assigned", "riding"}
               PROVE  FALSE
    BY DEF Contract!Busy, Contract!UnderWay, Phase, Winner
  <2>1. PICK e \in Drivers : db[TripRow(<<x, e>>)].is # "none"
    BY <1>2, <1>3, WinnerIs, MarketplaceTxAssumption
  <2>2. e = d
    BY <1>2, <2>1, WinnerIs
  <2>3. db[TripRow(<<x, d>>)].is \notin ActiveTrip /\ RideTrips(x, db)
    BY <1>2, <1>3, AgreesIs
  <2>4. db[RideRow(x)].is \in {"accepted", "cancelled"}
    BY <2>1, <2>3 DEF RideTrips, Trips
  <2>5. CASE db[RideRow(x)].is = "accepted"
    <3>1. RideAgrees(x, db) /\ d \in Drivers /\ db[TripRow(<<x, d>>)].is # "none"
      BY <1>2, <1>3, <2>1, <2>2
    <3>2. \/ PhaseOf(x, db) = "riding" /\ db[TripRow(<<x, d>>)].is = "in_progress"
          \/ PhaseOf(x, db) = db[TripRow(<<x, d>>)].is
      BY <2>5, <3>1, PhaseIs
    <3>3. db[TripRow(<<x, d>>)].is # "riding"
      <4>1. db \in Tables /\ TripRow(<<x, d>>) \in Rows /\ TripRow(<<x, d>>)[1] = "trip"
        BY <1>3, RowsAre, RowParts DEF Commits, Inv
      <4>2. db[TripRow(<<x, d>>)].is \in Statuses["trip"]
        BY <4>1 DEF Tables
      <4>3. QED BY <4>2 DEF Statuses
    <3>4. QED BY <2>3, <3>2, <3>3 DEF ActiveTrip
  <2>6. CASE db[RideRow(x)].is = "cancelled"
    <3>1. PhaseOf(x, db) = "cancelled"
      BY <1>2, <2>6, PhaseIs
    <3>2. QED BY <3>1
  <2>7. QED BY <2>4, <2>5, <2>6
<1>7. Winner' = [Winner EXCEPT ![r] = d]
  BY <1>4, <1>5 DEF Winner, AtMostLapses
<1>8. r \notin LapsedNow
  BY <1>3 DEF LapsedNow, Lapsed
<1>9. Contract!MoveTo(r, "assigned", LapsedNow)
  BY <1>4, <1>5, MoveImplements
<1>10. Contract!Assign(r, d, LapsedNow)
  BY <1>5, <1>6, <1>7, <1>9 DEF Contract!Assign, Phase
<1>11. QED BY <1>2, <1>3, <1>8, <1>10, LapsedWereOpen DEF Contract!Next

\* An answer to an offer is none of the contract's business.
LEMMA AnswerImplements ==
  ASSUME NEW t, Commits(t), NEW r \in Rides, Owns(tx[t], r), tx[t].job \in {"upsert", "reject"}
  PROVE  Contract!Next
<1> DEFINE q == tx[t]
           w == work[t]
<1>1. q.r = r /\ Finished(q, w, db, Locked(t))
  BY OwnersFinish DEF Commits, Owns
<1>2. /\ db' = Overlay(w, db) /\ Moves(q, w, db)
      /\ \A x \in Rides : RideAgrees(x, db) /\ RideAgrees(x, db')
  BY CommitFacts
<1>3. \A x \in Rides \ {r} : AtMostLapses(x)
  BY <1>1, NotItsRide DEF Owns, OnTrip, OnRide
<1> HIDE DEF q, w
<1>4. q.job \in {"upsert", "reject"} /\ SoFar(q, w, db, Locked(t)) /\ q.pc = Length[q.job]
  BY <1>1 DEF q, Finished, Good
<1>5. Overlay(w, db)[RideRow(r)].is = "requested"
  <2>1. CASE q.job = "upsert"
    BY <1>1, <1>4, <2>1 DEF SoFar, UpsertSoFar, Length
  <2>2. CASE q.job = "reject"
    BY <1>1, <1>4, <2>2 DEF SoFar, RejectSoFar, Length
  <2>3. QED BY <1>4, <2>1, <2>2
<1>6. db[RideRow(r)].is = "requested" /\ db'[RideRow(r)].is = "requested"
  BY <1>2, <1>5, TrulyOpen
<1>7. \A d \in Drivers :
        db[TripRow(<<r, d>>)].is = "none" /\ db'[TripRow(<<r, d>>)].is = "none"
  <2>1. RideTrips(r, db) /\ RideTrips(r, db')
    BY <1>2, AgreesIs
  <2>2. QED BY <1>6, <2>1 DEF RideTrips, Trips
<1>8. PhaseOf(r, db) = PhaseOf(r, db') /\ WinnerOf(r, db) = WinnerOf(r, db')
  BY <1>2, <1>6, <1>7, PhaseIs, WinnerIs
<1>9. AtMostLapses(r)
  BY <1>6, <1>8 DEF AtMostLapses, Lapsed
<1>10. QED BY <1>2, <1>3, <1>9, LapseImplements

\* A cancellation is one of the contract, or finds the ride cancelled.
LEMMA CancelImplements ==
  ASSUME NEW t, Commits(t), NEW r \in Rides, Owns(tx[t], r), tx[t].job \in {"cancel", "withdraw"}
  PROVE  Contract!Next
<1> DEFINE q == tx[t]
           w == work[t]
<1>1. q.r = r /\ Finished(q, w, db, Locked(t))
  BY OwnersFinish DEF Commits, Owns
<1>2. /\ db' = Overlay(w, db) /\ Moves(q, w, db)
      /\ \A x \in Rides : RideAgrees(x, db) /\ RideAgrees(x, db')
  BY CommitFacts
<1>3. \A x \in Rides \ {r} : AtMostLapses(x)
  BY <1>1, NotItsRide DEF Owns, OnTrip, OnRide
<1> HIDE DEF q, w
<1>4. /\ q.job \in {"cancel", "withdraw"} /\ CancelSoFar(q, w, db, Locked(t))
      /\ q.pc = 12 /\ q.todo = {}
  BY <1>1 DEF q, Finished, Good, SoFar, Length
<1>5. \A x : Past(q, x, 9) /\ Past(q, x, 10)
  BY <1>4 DEF Past
<1>6. db'[RideRow(r)].is = "cancelled"
  BY <1>1, <1>2, <1>4, <1>5 DEF CancelSoFar
<1>7. db[RideRow(r)].is \in {"requested", "accepted", "cancelled"}
  <2>1. RideRow(r) \in DOMAIN w => RideMove(q, w, db, r)
    BY <1>2 DEF Moves
  <2>2. db'[RideRow(r)] = IF RideRow(r) \in DOMAIN w THEN w[RideRow(r)] ELSE db[RideRow(r)]
    BY <1>2, RowsAre, Sees
  <2>3. QED BY <1>6, <2>1, <2>2 DEF RideMove
<1>8. ASSUME NEW d \in Drivers
      PROVE  LET old == db[TripRow(<<r, d>>)].is
                 new == db'[TripRow(<<r, d>>)].is
             IN  \/ new = old /\ old \in {"none", "cancelled"}
                 \/ old \in ActiveTrip /\ new = "cancelled"
  <2>1. TripRow(<<r, d>>) \in DOMAIN w => TripMove(q, w, db, r, d)
    BY <1>2 DEF Moves
  <2>2. db'[TripRow(<<r, d>>)] = IF TripRow(<<r, d>>) \in DOMAIN w
                                 THEN w[TripRow(<<r, d>>)] ELSE db[TripRow(<<r, d>>)]
    BY <1>2, RowsAre, Sees
  <2>3. db'[TripRow(<<r, d>>)].is \in {"none", "cancelled"}
    BY <1>1, <1>2, <1>4, <1>5 DEF CancelSoFar
  <2>4. QED BY <1>4, <2>1, <2>2, <2>3 DEF TripMove
<1>9. WinnerOf(r, db') = WinnerOf(r, db)
  <2>1. \A d \in Drivers :
          db'[TripRow(<<r, d>>)].is = "none" <=> db[TripRow(<<r, d>>)].is = "none"
    BY <1>8 DEF ActiveTrip
  <2>2. QED BY <1>2, <2>1, SameWinner
<1>10. PhaseOf(r, db') = "cancelled"
  BY <1>2, <1>6, PhaseIs
<1>11. CASE db[RideRow(r)].is = "cancelled"
  <2>1. AtMostLapses(r)
    BY <1>2, <1>9, <1>10, <1>11, PhaseIs DEF AtMostLapses, Lapsed
  <2>2. QED BY <1>2, <1>3, <2>1, LapseImplements
<1>12. CASE db[RideRow(r)].is \in {"requested", "accepted"}
  <2>1. PhaseOf(r, db) \in {"open", "assigned", "riding"}
    <3>1. CASE db[RideRow(r)].is = "requested"
      BY <1>2, <3>1, PhaseIs
    <3>2. CASE db[RideRow(r)].is = "accepted"
      <4>1. RideTrips(r, db)
        BY <1>2, AgreesIs
      <4>2. PICK d \in Drivers : db[TripRow(<<r, d>>)].is # "none"
        BY <3>2, <4>1 DEF RideTrips, Trips
      <4>3. db[TripRow(<<r, d>>)].is # "cancelled"
        BY <1>2, <3>2, <4>2, AgreesIs DEF PairAgrees
      <4>4. db[TripRow(<<r, d>>)].is \in {"assigned", "in_progress"}
        BY <1>8, <4>2, <4>3 DEF ActiveTrip
      <4>5. QED BY <1>2, <3>2, <4>2, <4>4, PhaseIs
    <3>3. QED BY <1>12, <3>1, <3>2
  <2>2. Contract!MoveTo(r, "cancelled", LapsedNow) /\ Winner' = Winner
    BY <1>3, <1>9, <1>10, MoveImplements, KeepImplements
  <2>3. Contract!Cancel(r, LapsedNow)
    BY <2>1, <2>2 DEF Contract!Cancel, Phase
  <2>4. r \notin LapsedNow
    BY <1>6 DEF LapsedNow, Lapsed
  <2>5. QED BY <1>2, <2>3, <2>4, LapsedWereOpen DEF Contract!Next
<1>13. QED BY <1>7, <1>11, <1>12

\* A trip is started, completed and paid for as the contract has it.
LEMMA TripImplements ==
  ASSUME NEW t, Commits(t), tx[t].job \in OnTrip
  PROVE  Contract!Next
<1> DEFINE q == tx[t]
           w == work[t]
           r == q.r
           d == q.d
           old == db[TripRow(<<r, d>>)].is
           new == db'[TripRow(<<r, d>>)].is
<1>1. /\ db' = Overlay(w, db) /\ Moves(q, w, db) /\ r \in Rides /\ d \in Drivers
      /\ \A x \in Rides : RideAgrees(x, db) /\ RideAgrees(x, db')
  BY CommitFacts DEF Shaped
<1>2. \A x \in Rides : ~Owns(q, x)
  BY DEF Owns, OnRide, OnTrip
<1>3. \A x \in Rides \ {r} : AtMostLapses(x)
  BY <1>2, NotItsRide
<1>4. q.job \in OnTrip
  OBVIOUS
<1>5. \A e \in Drivers \ {d} : db'[TripRow(<<r, e>>)].is = db[TripRow(<<r, e>>)].is
  <2> HIDE DEF q, w
  <2> TAKE e \in Drivers \ {d}
  <2>1. TripRow(<<r, e>>) \in DOMAIN w => TripMove(q, w, db, r, e)
    BY <1>1 DEF Moves
  <2>2. TripRow(<<r, e>>) \notin DOMAIN w
    BY <1>4, <2>1 DEF TripMove, OnTrip
  <2>3. QED BY <1>1, <2>2, RowsAre, Sees
<1>6. \/ new = old
      \/ q.job = "start" /\ old = "assigned" /\ new = "in_progress"
      \/ q.job = "complete" /\ old = "in_progress" /\ new = "completed"
      \/ q.job = "collect" /\ old = "completed" /\ new = "settled"
  BY <1>1, <1>2, CommitFacts, OthersRide
<1>7. CASE new = old
  <2>1. AtMostLapses(r)
    BY <1>1, <1>2, <1>5, <1>7, OthersImplement
  <2>2. QED BY <1>1, <1>3, <2>1, LapseImplements
<1>8. CASE new # old
  <2>1. old \in {"assigned", "in_progress", "completed"} /\ new \notin {"none", "cancelled"}
    BY <1>6, <1>8
  <2>2. \A e \in Drivers :
          db'[TripRow(<<r, e>>)].is = "none" <=> db[TripRow(<<r, e>>)].is = "none"
    BY <1>5, <2>1
  <2> HIDE DEF q, w, r, d
  <2>3. db[RideRow(r)].is = "accepted" /\ db'[RideRow(r)].is = "accepted"
    <3>1. /\ RideTrips(r, db) /\ PairAgrees(r, d, db)
          /\ RideTrips(r, db') /\ PairAgrees(r, d, db')
      BY <1>1, AgreesIs
    <3>2. d \in Trips(r, db) /\ d \in Trips(r, db')
      BY <1>1, <2>1 DEF Trips
    <3>3. /\ db[RideRow(r)].is \in {"accepted", "cancelled"}
          /\ db'[RideRow(r)].is \in {"accepted", "cancelled"}
      BY <3>1, <3>2 DEF RideTrips
    <3>4. db[RideRow(r)].is # "cancelled"
      BY <2>1, <3>1 DEF PairAgrees
    <3>5. db'[RideRow(r)].is # "cancelled"
      BY <2>1, <3>1 DEF PairAgrees
    <3>6. QED BY <3>3, <3>4, <3>5
  <2>4. WinnerOf(r, db') = WinnerOf(r, db)
    BY <1>1, <2>2, SameWinner
  <2>5. r \notin LapsedNow
    BY <2>3 DEF LapsedNow, Lapsed
  <2>6. Contract!MoveTo(r, PhaseOf(r, db'), LapsedNow) /\ Winner' = Winner
    BY <1>1, <1>3, <2>4, MoveImplements, KeepImplements
  <2>7. /\ PhaseOf(r, db) = IF old = "in_progress" THEN "riding" ELSE old
        /\ PhaseOf(r, db') = IF new = "in_progress" THEN "riding" ELSE new
    BY <1>1, <2>1, <2>3, PhaseIs
  <2> HIDE DEF old, new
  <2>8. Phase[r] = PhaseOf(r, db)
    BY <1>1 DEF Phase
  <2>9. \/ Contract!Start(r, LapsedNow)
        \/ Contract!Complete(r, LapsedNow)
        \/ Contract!CollectCash(r, LapsedNow)
    BY <1>6, <1>8, <2>6, <2>7, <2>8 DEF Contract!Start, Contract!Complete, Contract!CollectCash
  <2>10. QED BY <1>1, <2>5, <2>9, LapsedWereOpen DEF Contract!Next
<1>9. QED BY <1>7, <1>8

\* Every commit is a step of the contract.
LEMMA CommitImplements ==
  ASSUME NEW t, Commits(t)
  PROVE  Contract!Next
<1>1. CASE \E r \in Rides : Owns(tx[t], r)
  BY <1>1, SelectImplements, AnswerImplements, CancelImplements DEF Owns, OnRide
<1>2. CASE tx[t].job \in OnTrip
  BY <1>2, TripImplements
<1>3. CASE (\A r \in Rides : ~Owns(tx[t], r)) /\ tx[t].job \notin OnTrip
  BY <1>3, NotItsRide, CommitFacts, LapseImplements
<1>4. QED BY <1>1, <1>2, <1>3

(***************************************************************************)
(* TxImplementsContract holds however many rides, drivers and connections  *)
(* there are: whatever statements interleave, wait, fail or deadlock, each *)
(* commit is a step of RideContract; one ride moves, the others lapse.     *)
(***************************************************************************)
THEOREM TxImplementsContractAlways == Spec => TxImplementsContract
<1>1. Inv /\ [Next]_vars => [db' # db => [Contract!Next]_(Contract!vars)]_vars
  BY OnlyCommits, CommitImplements DEF Commits
<1>2. QED BY <1>1, InvAlways, PTL DEF Spec, TxImplementsContract

-----------------------------------------------------------------------------
(***************************************************************************)
(* Who waits for whom.                                                     *)
(***************************************************************************)
\* The invariant that BlockedByRunning needs.
InLine ==
  /\ DOMAIN waits = Tx
  /\ \A row \in Rows : holder[row] # NoTx => tx[holder[row]].pc > 0
  /\ \A t \in Tx : waits[t] # NoRow =>
       waits[t] \in tx[t].todo /\ Statement(tx[t]).of # "unlocked"

\* A handler that waits is at a statement.
LEMMA AtWork ==
  ASSUME Inv, NEW t \in Tx, NEW row \in tx[t].todo
  PROVE  tx[t].pc > 0 /\ row \in Rows
BY InvFacts DEF Shaped

\* A handler that ends lets go of its rows.
LEMMA ReleaseInLine ==
  ASSUME Inv, InLine, NEW t \in Tx, Release(t),
         \A u \in Tx \ {t} : tx'[u] = tx[u]
  PROVE  InLine'
<1>1. /\ DOMAIN waits' = Tx /\ waits'[t] = NoRow
      /\ \A u \in Tx \ {t} : waits'[u] = waits[u]
  BY DEF Release, InLine
<1>2. ASSUME NEW row \in Rows, holder'[row] # NoTx
      PROVE  tx'[holder'[row]].pc > 0
  <2>1. holder'[row] = holder[row] /\ holder[row] # t /\ holder[row] \in Tx
    BY <1>2, Others DEF Release
  <2>2. QED BY <1>2, <2>1 DEF InLine
<1>3. ASSUME NEW u \in Tx, waits'[u] # NoRow
      PROVE  waits'[u] \in tx'[u].todo /\ Statement(tx'[u]).of # "unlocked"
  BY <1>1, <1>3 DEF InLine
<1>4. QED BY <1>1, <1>2, <1>3 DEF InLine

\* A handler that comes to a statement does not wait yet.
LEMMA MoveInLine ==
  ASSUME Inv, InLine, NEW t \in Tx, tx[t].todo = {}, UNCHANGED <<holder, waits>>,
         NEW q, tx' = [tx EXCEPT ![t] = q], q.pc > 0
  PROVE  InLine'
<1>1. DOMAIN tx = Tx
  BY Others
<1>2. waits[t] = NoRow
  BY DEF InLine
<1>3. \A u \in Tx : tx'[u] = IF u = t THEN q ELSE tx[u]
  BY <1>1
<1>4. ASSUME NEW row \in Rows, holder[row] # NoTx
      PROVE  tx'[holder[row]].pc > 0
  <2>1. holder[row] \in Tx /\ tx[holder[row]].pc > 0
    BY <1>4, Others DEF InLine
  <2>2. QED BY <1>3, <2>1
<1>5. ASSUME NEW u \in Tx, waits[u] # NoRow
      PROVE  waits[u] \in tx'[u].todo /\ Statement(tx'[u]).of # "unlocked"
  BY <1>2, <1>3, <1>5 DEF InLine
<1>6. QED BY <1>4, <1>5 DEF InLine

\* Every step keeps the line.
LEMMA InLineStep == Inv /\ InLine /\ [Next]_vars => InLine'
<1> SUFFICES ASSUME Inv, InLine, [Next]_vars
             PROVE  InLine'
  OBVIOUS
<1>1. ASSUME NEW t \in Tx, Begin(t)
      PROVE  InLine'
  <2>1. tx[t].todo = {}
    BY <1>1, InvFacts DEF Begin, Shaped
  <2> DEFINE begun == [tx[t] EXCEPT !.start = IF tx[t].job = "heartbeat" THEN now ELSE 0]
             q2 == At(begun, 1, db)
  <2>2. tx' = [tx EXCEPT ![t] = q2] /\ UNCHANGED <<holder, waits>>
    BY <1>1 DEF Begin
  <2>3. q2.pc > 0
    BY <1>1, InvFacts DEF At, Shaped
  <2> HIDE DEF q2
  <2>4. QED BY <2>1, <2>2, <2>3, MoveInLine
<1>2. ASSUME NEW t \in Tx, Advance(t)
      PROVE  InLine'
  <2>1. tx[t].todo = {} /\ tx[t].pc \in Nat /\ tx[t].pc > 0 /\ DOMAIN tx = Tx
    BY <1>2, InvFacts, Others DEF Advance
  <2>2. CASE Release(t)
    BY <1>2, <2>1, <2>2, ReleaseInLine DEF Advance
  <2>3. CASE ~Release(t)
    <3>1. tx' = [tx EXCEPT ![t] = At(tx[t], tx[t].pc + 1, View(t))] /\ UNCHANGED <<holder, waits>>
      BY <1>2, <2>3 DEF Advance, Commit
    <3>2. At(tx[t], tx[t].pc + 1, View(t)).pc > 0
      BY <1>2, <2>1, InvFacts DEF At, Shaped
    <3>3. QED BY <2>1, <3>1, <3>2, MoveInLine
  <2>4. QED BY <2>2, <2>3
<1>3. ASSUME NEW t \in Tx, Rollback(t)
      PROVE  InLine'
  BY <1>3, ReleaseInLine, Others DEF Rollback
<1>4. ASSUME NEW t \in Tx, NEW row \in tx[t].todo, Take(t, row) \/ PassOver(t, row)
      PROVE  InLine'
  <2>1. tx[t].pc > 0 /\ row \in Rows /\ DOMAIN tx = Tx /\ holder \in [Rows -> Tx \cup {NoTx}]
    BY <1>4, AtWork, Others
  <2>2. \A u \in Tx : /\ tx'[u].pc = tx[u].pc /\ Statement(tx'[u]) = Statement(tx[u])
                      /\ tx'[u].todo = IF u = t THEN tx[u].todo \ {row} ELSE tx[u].todo
    <3> DEFINE q2 == [tx[t] EXCEPT !.todo = @ \ {row}]
    <3>1. tx' = [tx EXCEPT ![t] = q2]
      BY <1>4 DEF Take, PassOver
    <3>2. q2.pc = tx[t].pc /\ Statement(q2) = Statement(tx[t]) /\ q2.todo = tx[t].todo \ {row}
      BY InvFacts, TakenRecord
    <3> HIDE DEF q2
    <3>3. QED BY <2>1, <3>1, <3>2
  <2>3. \A x \in Rows : holder'[x] = holder[x] \/ holder'[x] = t
    BY <1>4, <2>1 DEF Take, PassOver
  <2>4. /\ DOMAIN waits' = Tx /\ waits'[t] = NoRow
        /\ \A u \in Tx \ {t} : waits'[u] = waits[u]
    BY <1>4 DEF Take, PassOver, InLine
  <2>5. ASSUME NEW x \in Rows, holder'[x] # NoTx
        PROVE  tx'[holder'[x]].pc > 0
    <3>1. holder'[x] \in Tx /\ tx[holder'[x]].pc > 0
      BY <2>1, <2>3, <2>5 DEF InLine
    <3>2. QED BY <2>2, <3>1
  <2>6. ASSUME NEW u \in Tx, waits'[u] # NoRow
        PROVE  waits'[u] \in tx'[u].todo /\ Statement(tx'[u]).of # "unlocked"
    BY <2>2, <2>4, <2>6 DEF InLine
  <2>7. QED BY <2>4, <2>5, <2>6 DEF InLine
<1>5. ASSUME NEW t \in Tx, NEW row \in tx[t].todo, Await(t, row)
      PROVE  InLine'
  BY <1>5 DEF Await, InLine
<1>6. CASE Tick \/ Rest \/ UNCHANGED vars
  BY <1>6 DEF Tick, Rest, vars, InLine
<1>7. QED
  BY <1>1, <1>2, <1>3, <1>4, <1>5, <1>6 DEF Next, Work, Refuse, Fail, BreakDeadlock

(***************************************************************************)
(* Whoever waits, waits for a handler that is at work (see                 *)
(* BlockedByRunning): what HandlersEnd rests on.                           *)
(***************************************************************************)
THEOREM BlockedByRunningAlways == Spec => []BlockedByRunning
<1>1. Init => InLine
  BY DEF Init, InLine
<1>2. Inv /\ InLine => BlockedByRunning
  <2> SUFFICES ASSUME Inv, InLine, NEW t \in Tx, Blocked(t)
               PROVE  /\ waits[t] \in tx[t].todo
                      /\ holder[waits[t]] \in Tx /\ tx[holder[waits[t]]].pc > 0
    BY DEF BlockedByRunning
  <2>1. waits[t] \in tx[t].todo
    BY DEF Blocked, InLine
  <2>2. waits[t] \in Rows
    BY <2>1, AtWork
  <2>3. holder[waits[t]] \in Tx
    BY <2>2, Others DEF Blocked
  <2>4. QED BY <2>1, <2>2, <2>3 DEF Blocked, InLine
<1>3. QED BY <1>1, <1>2, InvAlways, InLineStep, PTL DEF Spec

=============================================================================
