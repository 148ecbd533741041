CONSTANTS
  Last = 3
  Fetch = 2
SPECIFICATION FairSpec
INVARIANTS TypeOK DoneIsMarked TokenOnlyForFetch StrangersSpared UnwatchedRunFails
PROPERTY WorkStops
CHECK_DEADLOCK FALSE
