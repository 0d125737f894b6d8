CONSTANTS
  AddrBits = 3
  BlockSize <- MCBlockSize
  MinPrefix = 1
  r1 = r1
  r2 = r2
  Refs = {r1, r2}
  DropFiles <- MCDropFiles
  Drop6Files <- MCDrop6Files
  Special <- MCSpecial
SPECIFICATION Spec
INVARIANT
  CoveredIsListed
