\* Two accounts, two sessions, two requests at a time.
SPECIFICATION Spec
CONSTANTS
  a1 = a1  a2 = a2  t1 = t1  t2 = t2  u1 = u1  u2 = u2  q1 = q1  q2 = q2
  Accounts = {a1, a2}
  Sessions = {t1, t2}
  Users = {u1, u2}
  Requests = {q1, q2}
  MaxLife = 2
  Nobody = Nobody
SYMMETRY Symmetric
INVARIANTS OnlyVerifiedAccounts ServedAsThemselves PromisedLifeIsReal
