CONSTANTS
  a1 = a1
  a2 = a2
  s1 = s1
  s2 = s2
  c1 = c1
  c2 = c2
  c3 = c3
  c4 = c4
  None = None
  Cues = {c1, c2}
  Actors = {a1}
  Scenes = {s1}
  Target <- PairTarget
  Home <- PairHome
  Caller <- PairCaller
  TokenModulus = 2
  Results <- AllResults
  Faults <- AllFaults
SPECIFICATION Spec
INVARIANTS
  DispatchFailureIsLocal
