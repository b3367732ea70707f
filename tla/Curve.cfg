SPECIFICATION CurveSpec
CONSTANTS
  FieldP = 43
  GX = 2
  GY = 12
  N = 31
  CURVE_B = 7
  Others <- Sums
  Scales <- Factors
  NBits = 5
  WINDOW_A = 4
  WINDOW_G = 3
  GenBits = 2
  GenCount = 3
  NumsX = 12
  Scalars <- Edges
  Ctxs = {c1, c2}
  MaxBlinds = 2
INVARIANTS GroupLaw PointReads GenExact Recodings
CHECK_DEADLOCK FALSE
