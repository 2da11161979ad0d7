\* One ride, two drivers with a vehicle each, two processes that sweep.
SPECIFICATION Spec
CONSTANTS
  r1 = r1  r2 = r2  d1 = d1  d2 = d2  v1 = v1  v2 = v2
  rider = rider  economy = economy  comfort = comfort
  Rides = {r1}
  Drivers = {d1, d2}
  Vehicles = {v1, v2}
  Services = {economy}
  RiderOf <- ContestRiderOf
  ServiceOf <- ContestServiceOf
  OwnerOf <- ContestOwnerOf
  Enrolled <- ContestEnrolled
  FeedLimit = 1
  Sweepers = {ticker, reader}
  ticker = ticker  reader = reader  poll = poll
  Polls = {poll}
  NoDriver = NoDriver
  NoVehicle = NoVehicle
SYMMETRY ContestSymmetry
INVARIANTS TypeOK SingleWinner TakenRideHasNoRivals OfferAnswersOpportunity
PROPERTIES OneShot
