CONSTANTS
  Schemas <- MCSchemas
  Near <- MCNear
  LongDoubleSize = 16
  MaxWrites = 1
  MaxSnaps = 1
  MaxRebuilds = 1

  HashOf <- MCHash
  TypeIds = {}
  ObjectIds = {}
  Intrinsics = {"int", "void", "char"}
  RecordLimit = 150
  WordMask = 1023
  MaxLinkSlot = 3
  Loads <- MCLoads
SPECIFICATION MCSpec
INVARIANTS
  LayoutSound
  RuntimeLinked
  TypedRuntime
  SnapshotComplete
  QueryAgrees
  BinaryMatchesRecords
  RoundTrip
  OptionsRespected
PROPERTY ResetAllOrNothing
