\* Two drivers apply for vehicles and services while reviewers decide.
SPECIFICATION Spec
CONSTANTS
  d1 = d1  d2 = d2  p1 = p1  p2 = p2  economy = economy  comfort = comfort
  a1 = a1  a2 = a2  a3 = a3  h1 = h1  h2 = h2
  Drivers = {d1, d2}
  Plates = {p1, p2}
  Services = {economy, comfort}
  Qualifying <- Accepted
  Applications = {a1, a2, a3}
  Handlers = {h1, h2}
  NoApplication = NoApplication
  NoForm = NoForm
SYMMETRY Symmetric
INVARIANTS PendingCanBeApproved RegistryIsWhatWasApproved TypeNeverChanges
PROPERTY DecisionsAreFinal
