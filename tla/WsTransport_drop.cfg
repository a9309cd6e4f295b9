SPECIFICATION WsSpec
CONSTANTS
  BatchSizes = {0, 2}
  CmdCap = 1
  MaxCmds = 1
  MaxMessages = 1
PROPERTY DropStopsTasks
CHECK_DEADLOCK FALSE
