SPECIFICATION Spec
CONSTANTS
  Free = Free
  Name <- MCName
  Key <- MCKey
  Handler = {h1, h2}
  MaxObjects = 3
  MaxAppends = 2
  MaxRestarts = 1
INVARIANTS
  CatalogOnDisk
  AckedPresent
  
  
  
SYMMETRY Handlers
CHECK_DEADLOCK FALSE
