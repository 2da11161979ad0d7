CONSTANTS
  r1 = r1
  r2 = r2
  d1 = d1
  d2 = d2
  Rides <- MCRides
  Drivers <- MCDrivers
  Tx <- MCTx
  Openings <- MCOpenings
  NoTx = NoTx
  NoRow = NoRow
  NoRide = NoRide
  NoDriver = NoDriver
  Lease = 0
  OfferTTL = 1
  MaxNow = 1
SPECIFICATION Spec
INVARIANT CommittedRowsAgree
PROPERTY TxImplementsContract
PROPERTY AssignedInTime
PROPERTY HandlersEnd
