SPECIFICATION Spec
CONSTANTS
  c1 = c1
  c2 = c2
  c3 = c3
  c4 = c4
  turn = turn
  sub = sub
  spawn = spawn
  NoCall = NoCall
  Calls = {c1, c3, c4}
  Batches = {turn, sub, spawn}
  CallsOf <- MCCallsOf
  HostOf <- MCHostOf
  Background = {spawn}
  Concurrency = 1
  MaxRetries = 1
  LLMMaxErrors = 0
  MaxSubIter = 2
  MaxAnswers = 0
PROPERTY BatchEnds
CHECK_DEADLOCK FALSE
