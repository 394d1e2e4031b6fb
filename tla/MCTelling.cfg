CONSTANTS
  Events = {e1, e2}
  Hooks = {h}
  Sweeps = {s1, s2}
  NoHook = NoHook
  NoDelivery = NoDelivery
  FanOutLimit = 1
  SweepLimit = 2
  Lease = 2
  Wants <- All
  Retry <- OneRetry
SPECIFICATION FairSpec
CHECK_DEADLOCK FALSE
INVARIANTS
  TypeOK
  OneSenderWithinTheLease
  NothingPassedOver
PROPERTIES
  PromiseIsKept
