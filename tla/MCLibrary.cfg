SPECIFICATION MCSpec
CONSTANTS
  Notes = {n1}
  n1 = n1
  d1 = d1
  c1 = c1
  c2 = c2
  Docs = {d1}
  MaxChunks = 2
  MaxFiles = 1
  Calls = {c1, c2}
  MaxFolders = 2
  MaxBackups = 1
  None = None
  MaxKills = 1
  MaxInstalls = 1
ACTION_CONSTRAINT Bound
INVARIANTS
  LibraryInv
  ChunksMatchDocuments
  RestoredOnce
  OneFolder
PROPERTIES
  RestoreAdds
  ImportEnds
