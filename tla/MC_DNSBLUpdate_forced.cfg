CONSTANTS
  drop = drop
  dropv6 = dropv6
  Order <- MC_Order
  Configured <- MC_Configured
  MaxDays = 1
  SecsPerDay = 4
  Slack = 1
  IntBits = 8
  Epoch = 10
  MaxTime = 20
SPECIFICATION Spec
PROPERTY ForcedRefreshes
