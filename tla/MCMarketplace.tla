---------------------------- MODULE MCMarketplace ----------------------------
(***************************************************************************)
(* Instances of the marketplace for TLC: functions over the model values   *)
(* of the configurations.                                                  *)
(***************************************************************************)
EXTENDS MarketplaceProperties, TLC

CONSTANTS r1, r2, d1, d2, v1, v2, rider, economy, comfort, ticker, reader, poll

\* Two drivers with a vehicle each compete for one ride.
ContestRiderOf == r1 :> rider
ContestServiceOf == r1 :> economy
ContestOwnerOf == v1 :> d1 @@ v2 :> d2
ContestEnrolled == v1 :> {economy} @@ v2 :> {economy}
\* The two drivers are interchangeable together with their vehicles.
ContestSymmetry == {d1 :> d1 @@ d2 :> d2 @@ v1 :> v1 @@ v2 :> v2,
                    d1 :> d2 @@ d2 :> d1 @@ v1 :> v2 @@ v2 :> v1}

\* Two drivers, one of whom is the rider of one of the two rides.
TownRiderOf == r1 :> d1 @@ r2 :> rider
TownServiceOf == r1 :> economy @@ r2 :> economy

\* One driver with two vehicles sees two rides of different services.
FleetRiderOf == r1 :> rider @@ r2 :> rider
FleetServiceOf == r1 :> economy @@ r2 :> comfort
FleetOwnerOf == v1 :> d1 @@ v2 :> d1
FleetEnrolled == v1 :> {economy, comfort} @@ v2 :> {economy}

\* One ride, one driver, one vehicle: the smallest market, for liveness.
SoloOwnerOf == v1 :> d1
SoloEnrolled == v1 :> {economy}
==============================================================================
