SPECIFICATION FairSpec
CONSTANTS
  Keys = {k1, k2}
  Clients = {c1, c2}
  Mutators = {w1}
  TTL = 2
  MaxEntries = 1
  MaxVersion = 1
INVARIANTS TypeOK WithinCapacity CleanValuesCurrent
PROPERTIES FreshEntriesConverge
