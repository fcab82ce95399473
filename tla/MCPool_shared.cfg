\* Two roots, and an engine that may let two workspaces share a database, so that
\* the lost race of create_blocking is reached, and may fail to let go of one.
\* shutdown_all may be called at any time.
SPECIFICATION Spec
CONSTANTS
  Ids = {i1, i2}
  Creates = {r1, r2}
  Deletes = {d1}
  Uses = {}
  Sweeper = sweeper
  Drainers = {dr}
  NoWs = NoWs
  OpenOutcomes = {"refused", "shared"}
  DestroyOutcomes = {"released", "failed"}
SYMMETRY Symmetry
INVARIANTS
  NoOrphanedIndex
PROPERTIES
  RegistrySpec
