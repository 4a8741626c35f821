SPECIFICATION FairSpec
CONSTANTS
  NumPU = 3
  Cap <- MCCap
  MaxFeed = 2
  MaxReset = 1
  MaxToil = 1
  MayFail = TRUE
INVARIANTS IdleMeansDone
PROPERTIES FlushIsDelivered RestsIdle
