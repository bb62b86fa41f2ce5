SPECIFICATION FairSpec
CONSTANTS
  r1 = r1
  r2 = r2
  h1 = h1
  h2 = h2
  h3 = h3
  s1 = s1
  s2 = s2
  NoName = NoName
  TensorSegment = TensorSegment
  PrepStream = PrepStream
  DefaultStream = DefaultStream
  BindIo = TRUE
  Regions <- MCRegions
  Handles <- MCHandles
  UserStreams <- MCStreams
  Plans <- MCPlans
  CorrectionCaps <- MCCaps
  MaxLaunches = 3
INVARIANTS ComputeSeesOwnCorrections CorrectionsOfOneGroup
PROPERTY AllExecuted
