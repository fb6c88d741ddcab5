\* A plain call and a generator with one item, everything may go wrong.
\* CHECK_DEADLOCK FALSE: once every call is over and the proxy closed, it stops.
SPECIFICATION FairSpec
CONSTANTS
  c1 = c1
  g1 = g1
  Calls = {c1, g1}
  Generators = {g1}
  Items = 1
  Environment = {"child_dies", "close", "cancel", "response_lost", "response_unreadable"}
INVARIANT NoOrphanedCalls
PROPERTIES ImplementsRemoteCalls CallsEnd
CHECK_DEADLOCK FALSE
