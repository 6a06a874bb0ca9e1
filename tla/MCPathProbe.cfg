SPECIFICATION Spec
CONSTANTS
  Profiles = {p1}
  Targets = {t1}
  NoRoute = NoRoute
  NoTunnel = NoTunnel
  NoIP = NoIP
  EgressIPs = {NoIP, tunIP}
  TTL = 1
  MaxAge = 0
  NetDelay = 0
  MaxFlight = 1
  MaxTime = 4
  Interval = 1
  Freshness = 1
  HostIP = NoIP
  WgReadable = {}
  Probed = {p1}
  MaxTx = 1
  Helpers = {h1}
  NoHost = NoHost
  ReqTimeout = 0
INVARIANTS
  OkIsFresh
  OkImpliesRecentlyAlive
PROPERTY
  ImplementsGate
