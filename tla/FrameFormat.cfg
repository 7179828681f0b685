SPECIFICATION AnySpec
CONSTANTS
  Components = {"words"}
  Gestures <- BassOnly
  Tones <- BassTones
  Gains = {}
  Spots = {}
  MaxPosts = 1
  MaxKills = 0
INVARIANTS
  FrameIsWellFormed
