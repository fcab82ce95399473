\* A create, a delete and a use, any of whose clients may leave, the sweep, and the
\* way down.  No symmetry, which is unsound for liveness.
SPECIFICATION FairServerSpec
CONSTANTS
  Ids = {i1}
  Creates = {r1}
  Deletes = {d1}
  Uses = {u1}
  Sweeper = sweeper
  Drainers = {drain}
  NoWs = NoWs
  OpenOutcomes = {"refused"}
  DestroyOutcomes = {"released"}
INVARIANTS
  LeftoverIsUnawaited
  ExitCloses
PROPERTIES
  EveryRequestAnswered
  IdleIsEvicted
  ShutdownTerminates
