\* Two rides, two drivers with a vehicle each; one driver requests a ride too.
SPECIFICATION Spec
CONSTANTS
  r1 = r1  r2 = r2  d1 = d1  d2 = d2  v1 = v1  v2 = v2
  rider = rider  economy = economy  comfort = comfort
  Rides = {r1, r2}
  Drivers = {d1, d2}
  Vehicles = {v1, v2}
  Services = {economy}
  RiderOf <- TownRiderOf
  ServiceOf <- TownServiceOf
  OwnerOf <- ContestOwnerOf
  Enrolled <- ContestEnrolled
  FeedLimit = 1
  Sweepers = {}
  ticker = ticker  reader = reader  poll = poll
  Polls = {poll}
  NoDriver = NoDriver
  NoVehicle = NoVehicle
INVARIANTS NeverOwnRide OneActiveTrip
PROPERTIES ImplementsContract
