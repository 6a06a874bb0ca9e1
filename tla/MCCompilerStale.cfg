SPECIFICATION HSpec
CONSTANTS
  ProfileIds = {"x", "y", "z"}
  TargetIds = {"t"}
  Names = {1, 2}
  Aliases = {1}
  Tiers = {0, 1}
  RuleIds = {}
  Hosts = {}
  Priorities = {}
  Usernames = {}
  NoId = NoId
  NoTx = NoTx
  NoTunnel = NoTunnel
  Seeds <- SeededDBs
  MaxEdits = 1
INVARIANT
  UnroutedHasNoKey
