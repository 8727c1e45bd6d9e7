SPECIFICATION Spec
CONSTANTS
  ding = ding
  telegram = telegram
  Configured <- MCConfigured
  Enablings <- MCEnablings
  Threshold = 2
  Remind = 2
  None = None
  MaxTime = 8
INVARIANTS
  AlertsAreOptional
CHECK_DEADLOCK FALSE
