CONSTANTS
  MaxGeneration = 3
  CrashBudget = 2
  MaxLanes = 4
  NamePersists = TRUE

  HashOf <- MCHash
  TypeIds = {"A", "B"}
  ObjectIds = {"x"}
  Intrinsics = {"int", "void"}
  Kinds = {"struct"}
  Derivations <- MCDerivations
  Definitions <- MCDefinitions
  ObjectTypes <- MCObjectTypes
  Initials <- MCInitials
  Paths <- MCPaths
  MaxMembers = 2
  MaxEdits = 2
  MaxFills = 7

  Texts = {"a", "b", "c", "d", "e"}
  IdentityKinds = {"type"}
  MaxStrings = 5
  MaxIdentities = 2

  MapFiles = 2
  MapData <- MCMapData
  LiveData <- MCLiveData
  MapDependencies = {"A", "B", "C", "D", "E"}
  LiveDependencies = {"A", "B", "C", "D"}
  MaxContributions = 3
  MaxDependencies = 5

  Projects <- MCProjects
  ForeignRecords <- MCForeignRecords
  MaxRewrites = 1

  MaxFiles = 3
  MaxStaged = 2

  LexicalProjects <- MCLexicalProjects
  LexicalEdits <- MCLexicalEdits
  MaxLexicalEdits = 2
  LexicalLanes = 3
  Missing = Missing

  InputKinds <- MCInputKinds
  TextOf <- MCTextOf
  Writes <- MCWrites
  Replacements <- MCReplacements
  Deletions = {1, 5}
  DirectoryChanges <- MCDirectoryChanges
  MaxFsEvents = 2
  MaxOperations = 2
  ClassifierLanes = 2
  NoFile = NoFile
  NoCheckpoint = NoCheckpoint
  NoToken = NoToken
  NoSave = NoSave
SPECIFICATION MCSpec
INVARIANTS
  NoMixedGenerations
  FailureLeavesNothing
  ResidentMatchesDisk
  LinksStayTyped
  DeltaReadable
  InterningExact
  SourceMapExact
  EncodedVerifies
  LostPagesRefused
  VerifiedIsGraph
  TopologyExact
  LexicalExact
  PlanExact
PROPERTY DeltaImplementsMap
