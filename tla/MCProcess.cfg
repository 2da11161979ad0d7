CONSTANTS
  p1 = p1
  p2 = p2
  q1 = q1
  q2 = q2
  Processes <- MCProcesses
  Observed = p1
  Versions = 2
  MaxFailures = 1
  Requests <- MCRequests
  Limit = 2
  Window = 2
  MaxWait = 1
  Lifetime = 2
  Spans <- MCSpans
  MaxClock = 4
SPECIFICATION Spec
INVARIANT SchemaStepsOnce
INVARIANT AdmissionsBounded
INVARIANT RatingsAreRecent
PROPERTY StartUpSettles
