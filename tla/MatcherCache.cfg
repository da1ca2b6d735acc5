\* Two goroutines, three keys, room for two entries, entries outlive one tick.
SPECIFICATION FairSpec
CONSTANTS
  Callers = {c1, c2}
  Keys = {k1, k2, k3}
  Matches = {m}
  NoMatch = NoMatch
  NoEntry = NoEntry
  MaxEntries = 2
  TTL = 1
  MaxTime = 3
  MaxLookups = 4
INVARIANTS OrderCoversEntries BoundUpToExpiries ExactQueueUntilExpiry
PROPERTY LookupReturns
CHECK_DEADLOCK FALSE
