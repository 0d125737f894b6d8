CONSTANTS
  ByteBits = 2
  File <- V_File
  PageSize = 16
  DbType = 1
  DbColumn = 2
  V4Count = 0
  V4Base = 0
  V4Index = 0
  Mode <- MC_Mode
  FieldSize <- MC_FieldSize
  MaxErrors = 3
  AddrBytes = 7
  V6Count = 4
  V6Base = 159
  V6Index = 31
  Junk <- MC_Junk
  Addrs <- MC_Addrs
SPECIFICATION Spec6
INVARIANT V4MappedFound
