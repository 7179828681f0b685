SPECIFICATION Spec
CONSTANTS
  Forks = FALSE
  Threads = {"main", "side"}
  MaxEvents = 2
INVARIANTS
  LogIsWhole
