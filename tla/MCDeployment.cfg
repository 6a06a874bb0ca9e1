SPECIFICATION FairDeployment
CONSTANTS
  MaxTries = 30
  MaxCrashes = 2
INVARIANTS
  DeploymentTypeOK
  
PROPERTIES
  
  DeadTunnelRefused
  
