CONSTANTS
  ID <- MCID
  Vector <- MCVector
  Query <- MCQuery
  Level <- MCLevel
  M = 1
  EfConstruction = 3
  EfSearch = 4
  MaxDeletes = 1

CHECK_DEADLOCK FALSE

SPECIFICATION Spec

INVARIANTS
  EntryPointOnTop
  ListsBounded
  OneWayOnlyAfterPruning
  ReachableUntilCut
  LayerSearchExact
  FilteredSearchExact
  FileExact
