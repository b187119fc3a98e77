SPECIFICATION MCSpec
CONSTANTS
  Ids = {u1, u2}
  Procs = {p1, p2}
  None = None
  Browsers = {b1, b2}
  Editors = {e1}
  MaxTime = 1
  MaxPasswords = 2
SYMMETRY Symmetry
INVARIANTS TypeOK SessionsTypeOK RegistrationWaits
PROPERTIES
  LastAdminGoesByRace NothingComesBack SetupOnce PageSparesCaller
  ChangesStay NewCookieIsAccepted
