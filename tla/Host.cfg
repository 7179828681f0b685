SPECIFICATION AnySpec
CONSTANTS
  Components = {"timeout", "config", "fastboot", "forwarder", "parallel", "shell", "push", "boot", "cache", "install", "prefs", "flags"}
  Children = {c1, c2}
  Retries = 1
  Timeout = 1
  JoinLimit = 1
  Period = 1
  MaxTime = 4
  Pairs = {"mac"}
  Bucketless = {}
  Hashes = {h0, h1, h2}
  Initial = h0
  Other = other
  Absent = absent
  Broken = broken
  MaxJobs = 2
  UsedAgain = FALSE
  SameFile = FALSE
  Phones = {d1, d2}
  Failing = {"enable", "wait", "oem off", "flash", "restart", "back", "oem on", "reboot", "boot"}
  MaxFaults = 2
  Lingers = TRUE
  Processes = {"p1", "p2", "p3"}
  Group <- TwoGroups
  Forwards <- OneForward
  NoOne = "none"
  N = 3
  MaxCalls = 2
  Sync = FALSE
  Raises = TRUE
  Maps = FALSE
  AdbTries = 2
  CallTries = 2
  MaxTemps = 3
  AdbFails = TRUE
  Tuples = {"t", "u"}
  Below <- SideBySide
  MaxVersion = 2
  Cached = FALSE
  Reverts = FALSE
  Breaks = FALSE
  MaxBoots = 4
  MaxTries = 2
  UserBuild = FALSE
  HasSu = TRUE
  EarlyEnv = FALSE
  Loses = FALSE
  Glitches = FALSE
  Sessions = {s1}
  Values = {v1, v2}
  NoValue = none
  MaxTokens = 5
  Base = "base"
  Splits = {"split1", "split2"}
  ApkVersions = {v1, v2}
  NotCached = none
  Keys = {"k1", "k2"}
  PrefTypes = {"boolean", "string"}
  CanRemove = TRUE
  AppWrites = TRUE
  Flags = {f1, f2}
  Contexts = {c1}
  FlagObjects = {o1}
  Nested = TRUE
  MaxDepth = 2
  FlagFaults = 1
INVARIANTS
  TriesAreKept
  FlashedIsWhole
  CallsAreInOrder
  CommandsAreWhole
  PushedIsThere
  SettingsAreKept
PROPERTIES
  ImplementsBoundedCall
  UpdatesAreWhole
  LiveIsKnown
  CachesAreTrue
