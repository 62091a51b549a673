SPECIFICATION Spec
CONSTANTS
  Fields = {"name", "spec"}
  Nested = {"spec"}
  NoRow = NoRow
  NoWrite = NoWrite
  Own = Own
  MaxOthers = 2
  MaxRetries = 2
  MaxEffects = 3
INVARIANTS
  TypeOK
  CachedReadsAreCurrent
  NoStaleException
PROPERTIES
  NoUpdateLost
  ResponseIsCommitted
  RetriesStartAlike
CHECK_DEADLOCK FALSE
