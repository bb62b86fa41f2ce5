SPECIFICATION Spec
CONSTANTS
  r1 = r1
  r2 = r2
  h1 = h1
  h2 = h2
  NoName = NoName
  TensorSegment = TensorSegment
  BindIo = TRUE
  Regions <- MCRegions
  Handles <- MCHandles
  ExecPlans <- MCExecPlans
  MaxCommands = 2
  MaxPrograms = 2
INVARIANT UploadPagesAlive
