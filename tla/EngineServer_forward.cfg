SPECIFICATION FairSpec
CONSTANTS
  Ids <- MCIds
  Shard <- MCShard
  Arrivals <- MCArrivals
  Users = {"u1"}
  NoSid = "none"
  HttpRequests <- MCHttpRequests
  PeerEvents = {"message", "close"}
  Transports = {"polling", "websocket"}
  InitialPacket = FALSE
  Implemented = {"headers_into_map", "get_available_upgrades", "set_ping_timeout", "wiring", "close_socket"}
  EventCap = 1
  TransportCap = 2
  MaxPeerEvents = 2
PROPERTIES EventsForwarded
CHECK_DEADLOCK FALSE
