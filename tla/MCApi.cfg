SPECIFICATION FairApi
CONSTANTS
  Profiles = {p1}
  Clients = {c1}
  ChanSize = 1
  MaxEvents = 1
INVARIANTS
  NothingBeforeTLS
  QuietStopIsClean
PROPERTIES
  SignalEndsStart
  ListenersReleased
