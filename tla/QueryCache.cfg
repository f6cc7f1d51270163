SPECIFICATION Spec
CONSTANTS
  k1 = k1  o1 = o1  o2 = o2
  Keys = {k1}
  Observers = {o1, o2}
  Watches <- MCWatches
  MaxVersion = 2
  MaxFlights = 2
  Pending = Pending  Aborted = Aborted  Local = Local  NoEntry = NoEntry
SYMMETRY Symmetry
INVARIANTS ObserversCurrent
PROPERTY NeverOlderUnlessOverlapping
