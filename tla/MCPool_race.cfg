\* Two creates for one root.
SPECIFICATION Spec
CONSTANTS
  Ids = {i1}
  Creates = {r1, r2}
  Deletes = {}
  Uses = {}
  Sweeper = sweeper
  Drainers = {}
  NoWs = NoWs
  OpenOutcomes = {"refused"}
  DestroyOutcomes = {"released"}
PROPERTIES
  ConcurrentCreateHonoured
