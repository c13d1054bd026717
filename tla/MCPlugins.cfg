SPECIFICATION MCSpec
CONSTANTS
  c1 = c1
  c2 = c2
  Conns = {c1, c2}
  Plugins = {"origin", "http_simple", "tls1.2_ticket_auth"}
  Methods = {"openssl", "sodium"}
  Peers <- MCPeers
  Ivs = {1, 2}
  IvCapacity = 2
  FirstWrite = 2
  MaxUnits = 3
  MaxReplies <- MCReplies
  ReplySizes = {1, 2}
  MaxCuts = 1
  StrayHex = TRUE
  HelloLength = 4
  ReplyLength = 3
  ReplyLeast = 2
  FinishLength = 3
  SplitOver = 1
INVARIANTS TypeOK Intact IvFresh RefusedForCause
PROPERTY Served
CHECK_DEADLOCK FALSE
