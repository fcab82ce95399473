\* A poller and a client that rescans beside the sweep, in fair behaviours.
SPECIFICATION FairSpec
CONSTANTS
  Observers = {o1}
  Rescanners = {r1}
  Sweeper = sweeper
  Creator = creator
  Interval = 2
  Horizon = 3
INVARIANTS
  TypeOK
  NoRescanWhileWarming
PROPERTIES
  WarmupMeasuredOnce
  NoScanLoop
  RescanRecurs
