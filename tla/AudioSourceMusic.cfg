SPECIFICATION Spec
CONSTANTS
  Opened <- Screens
  Patient = TRUE
  Unit = 50
  MaxPending = 6
  MaxRestarts = 0
INVARIANTS
  MusicGetsTheChannel
