SPECIFICATION FairSpec
CONSTANTS
  Keys = {k1}
  Clients = {c1, c2}
  Mutators = {w1}
  TTL = 1
  MaxEntries = 1
  MaxVersion = 1
INVARIANTS TakesEffectImmediately
