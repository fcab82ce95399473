\* Every use and index of MCSearch, with up to two changes of the index between pages.  A use
\* ends, and the model with it.
SPECIFICATION Spec
CHECK_DEADLOCK FALSE
CONSTANTS
  Sessions <- MCSessions
  MaxUsize <- MCMaxUsize
  Reads <- MCReads
  MaxPages = 5
  MaxChanges = 2
INVARIANTS
  PagesTile
  NoSilentLoss
  HighlightsFaithful
PROPERTIES
  PageIsWhatItSays
  ClientStops
