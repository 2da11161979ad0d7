\* Two rides of different services, one driver with two vehicles.
SPECIFICATION Spec
CONSTANTS
  r1 = r1  r2 = r2  d1 = d1  d2 = d2  v1 = v1  v2 = v2
  rider = rider  economy = economy  comfort = comfort
  Rides = {r1, r2}
  Drivers = {d1}
  Vehicles = {v1, v2}
  Services = {economy, comfort}
  RiderOf <- FleetRiderOf
  ServiceOf <- FleetServiceOf
  OwnerOf <- FleetOwnerOf
  Enrolled <- FleetEnrolled
  FeedLimit = 1
  Sweepers = {ticker}
  ticker = ticker  reader = reader  poll = poll
  Polls = {poll}
  NoDriver = NoDriver
  NoVehicle = NoVehicle
INVARIANTS RequestMatchesTrip TripRunsChosenVehicle FeedBounded SelectableIsAssignable
PROPERTIES NoRevival
