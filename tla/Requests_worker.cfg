\* As many reports as async workers, waiting behind a recording that waits for a search.
SPECIFICATION FairSpec
CHECK_DEADLOCK FALSE
CONSTANTS
  Requests = {r1, r2, r3}
  Workers = 1
PROPERTIES
  AbandonedStops
