SPECIFICATION StoreSpec
CONSTANTS
  x = x
  t = t
  ProfileIds = {x, y}
  TargetIds = {t, u}
  Names = {1, 2}
  Aliases = {1}
  Tiers = {0, 1}
  RuleIds = {1, 2}
  Hosts = {h}
  Priorities = {0, 1}
  Usernames = {admin}
  NoId = NoId
  NoTx = NoTx
  Seeds <- SomeTables
  MaxEdits = 3
INVARIANTS
  StoreTypeOK
  ReferencesResolve
  
  RetriedPutIsHarmless
PROPERTIES
  EveryMutationAudited
  DeletesReachOnlyDependents
\* the API may be asked for nothing more
CHECK_DEADLOCK FALSE
