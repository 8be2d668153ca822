SPECIFICATION Spec
CONSTANTS
  c1 = c1
  c2 = c2
  c3 = c3
  c4 = c4
  turn = turn
  sub = sub
  spawn = spawn
  NoCall = NoCall
  Calls = {c1, c2}
  Batches = {turn}
  CallsOf <- PlainCallsOf
  HostOf <- PlainHostOf
  Background = {}
  Concurrency = 1
  MaxRetries = 1
  LLMMaxErrors = 0
  MaxSubIter = 1
  MaxAnswers = 3
INVARIANTS TypeOK ApprovedBeforeRun SlotsConserved PendingIsWaiting ResultsComplete
PROPERTIES SuccessKept
CHECK_DEADLOCK FALSE
