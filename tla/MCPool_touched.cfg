\* Two creates, a delete and a use beside the sweep.
SPECIFICATION Spec
CONSTANTS
  Ids = {i1}
  Creates = {r1, r2}
  Deletes = {d1}
  Uses = {u1}
  Sweeper = sweeper
  Drainers = {}
  NoWs = NoWs
  OpenOutcomes = {"refused"}
  DestroyOutcomes = {"released"}
PROPERTIES
  SweepEvictsOnlyIdle
