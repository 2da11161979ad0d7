\* No deadlock check: when the driver has answered, the money is settled, and
\* a fare above MaxAmount ends the attempt.
SPECIFICATION Spec
CONSTANTS
  Policies <- SomePolicies
  Distances <- SomeDistances
  Durations <- SomeDurations
  MaxAmount = 40
INVARIANTS FareIsNearest BandIsExact
CHECK_DEADLOCK FALSE
