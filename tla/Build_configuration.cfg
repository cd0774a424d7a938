CONSTANTS
  InputKinds <- MCInputKinds
  TextOf <- MCTextOf
  Writes <- MCWrites
  Replacements <- MCReplacements
  Deletions = {5}
  DirectoryChanges <- MCDirectoryChanges
  MaxFsEvents = 1
  MaxOperations = 2
  ClassifierLanes = 2
  NoFile = NoFile
  NoCheckpoint = NoCheckpoint
  NoToken = NoToken
  NoSave = NoSave
SPECIFICATION IncrementalBuildSpec
INVARIANT IntactBaselineAccepted
CHECK_DEADLOCK FALSE
