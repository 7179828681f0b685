SPECIFICATION AnySpec
CONSTANTS
  Components = {"words", "frames", "balance", "sources", "menu", "reborn", "hasty"}
  Gestures <- WordGestures
  Tones = {}
  Gains = {0, 4, 8, 12}
  Spots = {}
  MaxPosts = 1
  MaxKills = 2
INVARIANTS
  SelectBitsKept
  SettingsReachModule
  TonesReachModule
  SourcesAreGiven
