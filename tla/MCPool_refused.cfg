\* One root, three creates, a delete, a use and the sweep.  The engine refuses a
\* database this process already has open, as src/tests/common/mod.rs says.
SPECIFICATION Spec
CONSTANTS
  Ids = {i1}
  Creates = {r1, r2, r3}
  Deletes = {d1}
  Uses = {u1}
  Sweeper = sweeper
  Drainers = {}
  NoWs = NoWs
  OpenOutcomes = {"refused"}
  DestroyOutcomes = {"released"}
SYMMETRY Symmetry
INVARIANTS
  IInv
  RegisteredIsOpen
  NoOrphanedIndex
  NoOrphanedHandle
  TeardownExclusive
  ReleasedWhenAnswered
  TrackingHasHandle
PROPERTIES
  ConflictOnlyUnderContention
