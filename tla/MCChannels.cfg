SPECIFICATION Spec
CONSTANTS
  Adapters = {"telegram", "discord", "slack", "matrix"}
  Chats = {"c"}
  Web = {"w"}
  Order <- MCOrder
  Timers = {"t"}
  Tasks = {"s"}
  Replies <- MCReplies
  MaxLen = 3
  InboundCap = 1
  MaxAsks = 1
  MaxRestarts = 1
INVARIANTS ChunksHome SendFindsChat SpawnAccounted
PROPERTIES WorkSettles
CHECK_DEADLOCK FALSE
