SPECIFICATION FairSpec
CONSTANTS
  ding = ding
  telegram = telegram
  Configured <- MCConfigured
  Enablings <- MCEnablings
  Threshold = 2
  Remind = 2
  None = None
  MaxTime = 8
INVARIANTS
  AlarmsFollowTheOutage
  AlarmsAreClosed
PROPERTIES
  StepsGoOn
CHECK_DEADLOCK FALSE
