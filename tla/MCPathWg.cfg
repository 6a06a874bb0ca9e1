SPECIFICATION Spec
CONSTANTS
  Profiles = {p1}
  Targets = {}
  NoRoute = NoRoute
  NoTunnel = NoTunnel
  NoIP = NoIP
  EgressIPs = {hostIP, tunIP}
  TTL = 1
  MaxAge = 1
  NetDelay = 1
  MaxFlight = 1
  MaxTime = 5
  Interval = 1
  Freshness = 1
  HostIP = hostIP
  WgReadable = {p1}
  Probed = {}
  MaxTx = 1
  Helpers = {}
  NoHost = NoHost
  ReqTimeout = 0
INVARIANTS
  TypeOK
  DeadTunnelReadsDown
