SPECIFICATION CacheSpec
CONSTANTS
  p1 = p1
  p2 = p2
  r1 = r1
  w1 = w1
  Paths = {p1, p2}
  Readers = {r1}
  Writers = {w1}
  MaxEntries = 1
  MaxVersion = 1
INVARIANTS StaleIsDetectable WithinLimit
PROPERTIES OnlyReadsInsert EventuallyFresh
CHECK_DEADLOCK FALSE
