CONSTANTS
  a1 = a1
  a2 = a2
  s1 = s1
  s2 = s2
  c1 = c1
  c2 = c2
  c3 = c3
  c4 = c4
  None = None
  Cues = {c1, c2, c3, c4}
  Actors = {a1, a2}
  Scenes = {s1, s2}
  Target <- SharedTarget
  Home <- SharedHome
  Caller <- SharedCaller
  TokenModulus = 2
  Results <- SomeResults
  Faults <- SomeFaults
SPECIFICATION Spec
INVARIANTS
  ActorsAreSequential
  ClosedSceneIsDrained
