SPECIFICATION MCSpec
CONSTANTS
  Callers = {"c1"}
  Kinds = {"websocket"}
  Ops = {"send"}
  TransportEvents = {"close", "ping"}
  Implemented = {"get_available_upgrades", "set_ping_timeout", "wiring", "on_packet"}
  InitialPacket = FALSE
  EventCap = 1
  TransportCap = 1
  MaxPackets = 3
  MaxTransportEvents = 2
  BatchSizes = {0, 2}
  CmdCap = 2
  MaxCmds = 4
  MaxMessages = 2
INVARIANTS LeftoverBound WireIsPrefix CloseIsLast
PROPERTIES PacketsLeave CallsReturn CloseReachesServer CloseIsReported
CHECK_DEADLOCK FALSE
