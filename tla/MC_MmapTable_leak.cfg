CONSTANTS
  v1 = v1
  v2 = v2
  v3 = v3
  N = 2
  Views <- MC_Views
  Offsets <- MC_Offsets
  Gran = 2
  Debug = FALSE
  NULL = NULL
SPECIFICATION Spec
INVARIANT NoLeakedView
