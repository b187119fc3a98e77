SPECIFICATION Spec
CONSTANTS
  k1 = k1
  k2 = k2
  v1 = v1
  Codes = {a1}
  Tokens = {t1, t2}
  Users = {u1}
  Clients = {k1, k2}
  Public = {k1}
  Registered <- Registration
  Verifiers = {v1}
  Forms <- SomeForms
  Procs = {p1, p2}
SYMMETRY Symmetry
INVARIANTS TypeOK ExchangedOnce OneLiveTokenPerLine BoundToAuthorization NoLineVanishes BumpEndsTheRest CodesAreRedeemable RevokedUserGetsOneMore
PROPERTY ImplementsGrants
CHECK_DEADLOCK FALSE
