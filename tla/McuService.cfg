SPECIFICATION FairSpec
CONSTANTS
  Temps = {0, 51, 55, 60, 65, 70, 75, 78, 81}
  MaxRestarts = 1
INVARIANTS
  ProfileIsWhole
  EmergencyRunsFull
  LimitIsKnown
PROPERTIES
  HeatIsAnswered
