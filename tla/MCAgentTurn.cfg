SPECIFICATION Spec
CONSTANTS
  Sessions = {s1}
  Turns = {t1, t2}
  Adapters = {"telegram"}
  NoTurn = NoTurn
  NoSession = NoSession
  MaxToolIter = 2
  LLMMaxErrors = 0
  VerifyMaxAttempts = 1
  CompactionThreshold = 2
  CompactionKeepRecent = 2
  RecentMessagesLimit = 3
  MaxCrashes = 1
  MaxNotifies = 1
SYMMETRY Symmetry
INVARIANTS TypeOK LockOwnership ModelInputPaired TurnsContiguous
  PromptReachesModel AnswerDurable NoSilentEnd
PROPERTIES OnlyOldDeleted ConversationSpec
CHECK_DEADLOCK FALSE
