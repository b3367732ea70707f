SPECIFICATION CallersSpec
CONSTANTS
  FieldP = 43
  GX = 2
  GY = 12
  N = 31
  CURVE_B = 7
  Others <- Sums
  Scales <- Factors
  NBits = 5
  WINDOW_A = 4
  WINDOW_G = 3
  GenBits = 2
  GenCount = 3
  NumsX = 12
  Scalars <- Blinds
  Ctxs = {c1}
  MaxBlinds = 2
  Bytes32 = 46
  Keys <- SomeKeys
  Tweaks <- SomeTweaks
  Msgs <- SomeMsgs
  Draws <- Number
  MaxTweaks = 2
  MaxTries = 1
  ByteLog = 1
  WordBytes = 2
  K <- Ks
  IV <- Ivs
  Rot <- Rots
  OPad = 1
  IPad = 2
  Garbage = 3
  Writes <- Cuts
  KeySizes <- MacKeys
  MaxBytes = 63
  MaxDraws = 2
  Half = 16
  SeqTag = 12
  IntTag = 2
  Bytes = 2
  SizeT = 2
  IntMax = 511
  GroupOrder = 1000
  Given <- Signatures
  Noise <- SomeBytes
  Wholes <- LongInputs
  MaxEdits = 2
INVARIANTS KeyPairKept SignedVerifies VerifyExact RecoverExact EncodingsExact PointCalls
  DigestsExact DrawsExact NoEmulation ParseExact ReadsInside SerializeExact
CHECK_DEADLOCK FALSE
