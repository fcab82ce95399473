\* Three requests on any routes over one workspace that may be removed, and one worker
\* more than can be blocked.  Every request is made once, so the model stops in the end.
SPECIFICATION FairSpec
CHECK_DEADLOCK FALSE
CONSTANTS
  Requests = {r1, r2, r3}
  Workers = 2
INVARIANTS
  TypeOK
  PatientNotAborted
  ScoreSettles
PROPERTIES
  EveryoneAnswered
  AbandonedStops
