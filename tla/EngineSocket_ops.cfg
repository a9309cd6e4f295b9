SPECIFICATION Spec
CONSTANTS
  Callers = {"c1"}
  Kinds = {"polling", "websocket"}
  Ops = {"send_cb", "server_send", "poll", "close", "maybe_upgrade", "close_socket"}
  TransportEvents = {"close", "error", "drain", "ping", "message", "upgrade", "other"}
  Implemented = {"get_available_upgrades", "set_ping_timeout", "wiring", "handle_upgrade"}
  InitialPacket = TRUE
  EventCap = 1
  TransportCap = 1
  MaxPackets = 2
  MaxTransportEvents = 2
INVARIANTS TypeOK CloseOnce PacketConserved TakenInOrder CallbackOnce
PROPERTIES ClosedIsFinal ImplementsPipe
CHECK_DEADLOCK FALSE
