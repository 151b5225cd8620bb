SPECIFICATION Spec
CONSTANTS
  Key <- Keys
  Value = {"old", "new"}
  DefaultValue = "old"
  Hash <- Hashes
  MIN_BUCKETS = 4
  STARTING_BUCKETS = 4
  MaxRequest = 5
INVARIANTS SearchesEnd ElementsFound LoopVisitsAll
PROPERTIES ImplementsMap
