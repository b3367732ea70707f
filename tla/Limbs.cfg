CONSTANTS
  L = 4
  B = 4
  T = 3
  C0 = 3
  C1 = 1
  W = 7
  A = 12
  MulMag = 1
  MaxMag = 4
  SW = 5
  Byte = 3
  Chunk = 1
  Regs = {r1, r2}
  Inputs <- Edge
  Ints <- Small
  MaxCalls = 3
  SL = 4
  SB = 3
  N_C = 75
  SRegs = {s1, s2}
  SInputs <- SEdge
  SBits = {0, 7}
  Shifts = {1, 2}
  MaxSCalls = 2
  None = None
SPECIFICATION LimbsSpec
INVARIANTS FeVerify NormalForm ReadsAgree ProductExact ScalarTests PowerExact
PROPERTIES ImplementsField ImplementsLow
CHECK_DEADLOCK FALSE
VIEW NoLast
