CONSTANTS
  ByteBits = 2
  File <- Z_Bytes
  PageSize = 16
  DbType = 0
  DbColumn = 0
  V4Count = 0
  V4Base = 0
  V4Index = 0
  Mode <- MC_Mode
  FieldSize <- MC_FieldSize
  MaxErrors = 3
SPECIFICATION Spec
INVARIANT NoCrash
