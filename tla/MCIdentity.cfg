\* Two servers started over one db_root, seven paths to four places, and up to two
\* changes of the file system, at any time.
SPECIFICATION Spec
CONSTANTS
  Servers = {s1, s2}
  Paths <- MCPaths
  PlaceOf <- MCPlaceOf
  Folded <- MCFolded
  Forbidden <- MCForbidden
  WithIds <- MCWithIds
  Inodes = {1, 2}
  Exclusive = TRUE
  MaxChanges = 2
SYMMETRY Processes
INVARIANTS
  OneDatabasePerDirectory
  NoSharedDatabase
  OpenedByOneServer
