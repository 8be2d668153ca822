SPECIFICATION Spec
CONSTANTS
  Sessions = {s1}
  Turns = {t1, t2}
  Adapters = {"telegram"}
  NoTurn = NoTurn
  NoSession = NoSession
  MaxToolIter = 2
  LLMMaxErrors = 1
  VerifyMaxAttempts = 1
  CompactionThreshold = 2
  CompactionKeepRecent = 2
  RecentMessagesLimit = 3
  MaxCrashes = 1
  MaxNotifies = 1
INVARIANT SendReachesCurrentSession
CHECK_DEADLOCK FALSE
