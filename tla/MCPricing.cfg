\* Two riders book while two reviewers publish and switch off tariffs.
SPECIFICATION Spec
CONSTANTS
  economy = economy  b1 = b1  b2 = b2  v1 = v1  v2 = v2
  Services = {economy}
  Rates = {1, 2}
  Routes = {1, 2}
  Bookings = {b1, b2}
  Reviewers = {v1, v2}
  MaxVersions = 3
  Nothing = Nothing
SYMMETRY Symmetric
INVARIANTS FareMatchesSnapshot CurrentIsNewest VersionsNeverCollide
PROPERTIES BookedAtCurrentTariff DisabledAsSeen
