SPECIFICATION Spec
CONSTANTS
  Forks = TRUE
  Threads = {"main", "side"}
  MaxEvents = 2
INVARIANTS
  LockHasOwner
