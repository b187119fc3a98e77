SPECIFICATION SessionsSpec
CONSTANTS
  Browsers = {b1, b2}
  Editors = {e1}
  MaxTime = 1
  MaxPasswords = 2
SYMMETRY Symmetry
PROPERTIES OthersAreSignedOut
