SPECIFICATION FairFeed
CONSTANTS
  Profiles = {p1}
  Clients = {c1}
  ChanSize = 2
  MaxEvents = 3
INVARIANTS
  FeedTypeOK
  NothingLostInside
  NothingMissedAfterHeaders
PROPERTIES
  
  StreamReleased
  EventShown
