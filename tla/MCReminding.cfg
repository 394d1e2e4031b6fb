CONSTANTS
  ruled = ruled
  unruled = unruled
  Invoices = {ruled, unruled}
  Sweeps = {s1, s2}
  s1 = s1
  s2 = s2
  Owing <- Either
  RulesOf <- TwoRulesAndNone
  Week = 3
  SweepLimit = 1
  MaxClock = 3
  MaxFaults = 2
SPECIFICATION FairSpec
INVARIANTS
  TypeOK
  NobodyIsChasedTwice
PROPERTIES
  EveryRuleIsFollowed
