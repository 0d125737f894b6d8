CONSTANTS
  ByteBits = 2
  File <- B_Bytes
  PageSize = 16
  DbType = 1
  DbColumn = 2
  V4Count = 4
  V4Base = 31
  V4Index = 0
  Mode <- MC_Mode
  FieldSize <- MC_FieldSize
  MaxErrors = 3
SPECIFICATION Spec

INVARIANT LookupCorrect
PROPERTY Terminates
