SPECIFICATION FairAcl
CONSTANTS
  Names = {www}
  Numerals = {n0, n1}
  BadNames = {bad}
  Channels = {n0, n1}
  NoChannel = NoChannel
  NoHost = NoHost
  Free = Free
INVARIANTS
  ReplyFitsRequest
  OneReplyAfterSignal
PROPERTIES
  ImplementsProtocol
  RequestsEnd
