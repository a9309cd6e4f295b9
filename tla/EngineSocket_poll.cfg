SPECIFICATION FairSpec
CONSTANTS
  Callers = {"c1"}
  Kinds = {"polling"}
  Ops = {"poll"}
  TransportEvents = {}
  Implemented = {"get_available_upgrades", "set_ping_timeout"}
  InitialPacket = FALSE
  EventCap = 2
  TransportCap = 2
  MaxPackets = 2
  MaxTransportEvents = 2
PROPERTY PollDrains
CHECK_DEADLOCK FALSE
