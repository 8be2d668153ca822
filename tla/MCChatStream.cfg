SPECIFICATION Spec
CONSTANTS
  Providers = {"anthropic", "openai", "gemini"}
  Callers = {"turn", "subturn", "summary", "check"}
  Answers <- MCAnswers
  Buffer = 1
  LLMMaxRetries = 1
  LLMMaxErrors = 1
  MaxRounds = 2
INVARIANTS CallsIntact AnswerAccounted RequestPaired
PROPERTIES CallEnds
CHECK_DEADLOCK FALSE
