SPECIFICATION FairSpec
CONSTANTS
  Callers = {"c1", "c2"}
  Kinds = {"websocket"}
  Ops = {"server_send"}
  TransportEvents = {"close"}
  Implemented = {"get_available_upgrades", "set_ping_timeout", "wiring"}
  InitialPacket = FALSE
  EventCap = 1
  TransportCap = 2
  MaxPackets = 3
  MaxTransportEvents = 1
PROPERTY DrainIsForwarded
CHECK_DEADLOCK FALSE
