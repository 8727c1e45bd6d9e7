SPECIFICATION Spec
CONSTANTS
  here = here
  also = also
  own = own
  copied = copied
  Records = {1, 2, 3}
  Place <- MCPlace
  Levels = {own, copied}
  Similar = {copied}
  Chain = {here, also}
  Filters <- MCFilters
  Limits = {1, 2}
  BatchSize = 2
  MaxIds = 4
  MaxWrites = 2
INVARIANTS
  WalkSeesAll
  ToolSkipsNothing
CHECK_DEADLOCK FALSE
