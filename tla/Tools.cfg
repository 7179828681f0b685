SPECIFICATION AnySpec
CONSTANTS
  Components = {"files", "battery", "metering", "speed", "forwarder", "logcat", "lock", "output", "quoting", "lookup", "archive", "battor_map", "battor_path", "log", "data", "controller", "atrace", "ftrace", "battor", "profile"}
  Other = FALSE
  Clients = {p1, p2, p3} Inodes = {f1, f2, f3, f4}
  s1 = s1 k1 = k1 k2 = k2 f1 = f1 f2 = f2 c1 = c1 c2 = c2
  d1 = d1 d2 = d2 p1 = p1 p2 = p2 p3 = p3 none = none h0 = h0 h1 = h1
  h2 = h2 h3 = h3 h4 = h4 h5 = h5 other = other absent = absent broken = broken Nil = Nil
INVARIANTS
  PowerIsRestored
  TextSurvives
  Exclusive
  NothingIsLeftOn
  TracesAreWhole
PROPERTIES
  ReturnsAsPromised
  AnswersAreRight
  DataIsKept
