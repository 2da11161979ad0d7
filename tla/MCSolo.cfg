\* One ride, one driver, one vehicle, two processes that sweep: liveness.
SPECIFICATION FairSpec
CONSTANTS
  r1 = r1  r2 = r2  d1 = d1  d2 = d2  v1 = v1  v2 = v2
  rider = rider  economy = economy  comfort = comfort
  Rides = {r1}
  Drivers = {d1}
  Vehicles = {v1}
  Services = {economy}
  RiderOf <- ContestRiderOf
  ServiceOf <- ContestServiceOf
  OwnerOf <- SoloOwnerOf
  Enrolled <- SoloEnrolled
  FeedLimit = 1
  Sweepers = {ticker, reader}
  ticker = ticker  reader = reader  poll = poll
  Polls = {poll}
  NoDriver = NoDriver
  NoVehicle = NoVehicle
PROPERTIES RequestsAreDecided AnswersAreDecided StalePresenceEnds
