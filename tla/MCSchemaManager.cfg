SPECIFICATION Spec
CONSTANTS
  Schemas = {1, 2, 3}
  FilePaths <- TwoFiles
  MaxDepth = 2
INVARIANTS
  ReorderIsTopological
  OrderFitsTables
  LoadedIsComplete
  OrderedLoadFindsOrder
CHECK_DEADLOCK FALSE
