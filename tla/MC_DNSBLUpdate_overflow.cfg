CONSTANTS
  drop = drop
  dropv6 = dropv6
  Order <- MC_Order
  Configured <- MC_Configured
  MaxDays = 2
  SecsPerDay = 4
  Slack = 1
  IntBits = 4
  Epoch = 10
  MaxTime = 20
SPECIFICATION Spec
PROPERTY NoEarlyRedownload
