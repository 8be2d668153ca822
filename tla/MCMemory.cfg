SPECIFICATION MemorySpec
CONSTANTS
  id = id
  fact = fact
  v1 = v1
  v2 = v2
  NoValue = NoValue
  Keys = {id, fact}
  Immutable = {id}
  Values = {v1, v2}
  Conversations = {s1, s2}
  Setters = {w1, w2}
  Seeds <- MCSeeds
  Large = {fact}
SYMMETRY Symmetric
INVARIANTS ChangesReachModel
PROPERTIES ImmutableSettles
