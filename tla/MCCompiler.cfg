SPECIFICATION HSpec
CONSTANTS
  ProfileIds = {"x", "y", "z"}
  TargetIds = {"t", "u"}
  Names = {1, 2}
  Aliases = {1, 2}
  Tiers = {0, 1}
  RuleIds = {}
  Hosts = {}
  Priorities = {}
  Usernames = {}
  NoId = NoId
  NoTx = NoTx
  NoTunnel = NoTunnel
  Seeds <- CompilerDBs
  MaxEdits = 1
INVARIANTS
  OneEditIsHarmless
  SeededHavePeer
  ArtifactsAgree
  
