\* Three rides, two drivers.
SPECIFICATION Spec
CONSTANTS
  r1 = r1  r2 = r2  r3 = r3  d1 = d1  d2 = d2
  Rides = {r1, r2, r3}
  Drivers = {d1, d2}
  NoDriver = NoDriver
SYMMETRY ContractSymmetry
INVARIANTS OneRideUnderWay
PROPERTIES ChoiceIsFinal
