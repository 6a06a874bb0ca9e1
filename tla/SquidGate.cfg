SPECIFICATION Spec
CONSTANTS
  Names = {1, 2}
  Aliases = {a, b}
  NoTunnel = NoTunnel
  Refused = Refused
INVARIANT
  LeavesByItsTunnel
