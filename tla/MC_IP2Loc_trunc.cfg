CONSTANTS
  ByteBits = 2
  File <- T_Bytes
  PageSize = 16
  DbType = 3
  DbColumn = 4
  V4Count = 3
  V4Base = 159
  V4Index = 31
  Mode <- MC_Mode
  FieldSize <- MC_FieldSize
  MaxErrors = 3
SPECIFICATION Spec
INVARIANT ReadsInBounds
