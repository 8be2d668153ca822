SPECIFICATION Spec
CONSTANTS
  Sessions = {s1}
  Turns = {t1, t2}
  Adapters = {"telegram"}
  NoTurn = NoTurn
  NoSession = NoSession
  MaxToolIter = 1
  LLMMaxErrors = 0
  VerifyMaxAttempts = 0
  CompactionThreshold = 1
  CompactionKeepRecent = 1
  RecentMessagesLimit = 3
  MaxCrashes = 1
  MaxNotifies = 1
PROPERTY TurnEnds
CHECK_DEADLOCK FALSE
