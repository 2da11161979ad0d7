--------------------------- MODULE MCMarketplaceTx ---------------------------
(***************************************************************************)
(* Two rides, two drivers, two connections; both drivers online with a     *)
(* location of time 0 that is fresh until time 1.                          *)
(***************************************************************************)
EXTENDS MarketplaceTx, TLC

CONSTANTS r1, r2, d1, d2

MCRides == {r1, r2}
MCDrivers == {d1, d2}
MCTx == 1..2

Row(is, at) == [is |-> is, at |-> at]

\* The tables in which only the rows of "book" differ from "no row".
Opening(book) ==
  book @@ [row \in Rows |-> IF row[1] = "profile" THEN Row("online", 0) ELSE Row("none", 0)]

Offered(p, due) == (OppRow(p) :> Row("offered", due)) @@ (OfferRow(p) :> Row("pending", due))

\* Two offers for one ride, one of them due early.
Rivals ==
  Opening((RideRow(r1) :> Row("requested", 2)) @@ Offered(<<r1, d1>>, 2) @@ Offered(<<r1, d2>>, 1))

\* One driver has offers for two rides.
TwoRides ==
  Opening((RideRow(r1) :> Row("requested", 2)) @@ Offered(<<r1, d1>>, 2)
            @@ (RideRow(r2) :> Row("requested", 2)) @@ Offered(<<r2, d1>>, 1))

\* An offer against an opportunity that is still open.
Asked ==
  Opening((RideRow(r1) :> Row("requested", 2)) @@ Offered(<<r1, d1>>, 2)
            @@ (OppRow(<<r1, d2>>) :> Row("open", 2)))

\* The driver of one ride under way has an offer for the next.
UnderWay(is) ==
  Opening((RideRow(r1) :> Row("accepted", 1)) @@ (OppRow(<<r1, d1>>) :> Row("accepted", 1))
            @@ (OfferRow(<<r1, d1>>) :> Row("accepted", 1)) @@ (TripRow(<<r1, d1>>) :> Row(is, 0))
            @@ (RideRow(r2) :> Row("requested", 2)) @@ Offered(<<r2, d1>>, 2))

\* A ride that lapses while its offer still runs.
Lapsing == Opening((RideRow(r1) :> Row("requested", 1)) @@ Offered(<<r1, d1>>, 2))

MCOpenings == {Lapsing, Rivals, TwoRides, Asked, UnderWay("assigned"), UnderWay("in_progress")}
=============================================================================
