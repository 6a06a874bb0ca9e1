SPECIFICATION FairBreaker
CONSTANTS
  t1 = t1
  t2 = t2
  r1 = r1
  r2 = r2
  Tunnels = {t1, t2}
  Recorders = {r1, r2}
  Probes <- BothProbe
  Selectors = {s1}
  TierLists <- SomeTiers
  FailThreshold = 2
  Cooldown = 1
INVARIANTS
  TripsWhenDue
  SelectionJustified
PROPERTIES
  ClosesByFreshProbe
  ImplementsCircuit
  ClosesAfterRecovery
