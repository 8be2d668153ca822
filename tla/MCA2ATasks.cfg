SPECIFICATION A2ASpec
CONSTANTS
  q1 = q1
  q2 = q2
  q3 = q3
  t1 = t1
  t2 = t2
  Nobody = Nobody
  Tasks = {t1, t2}
  Requests = {q1, q2, q3}
SYMMETRY Symmetry
INVARIANTS QuiescentIsFinal ConversationKept CancelAtRestStays
CHECK_DEADLOCK FALSE
