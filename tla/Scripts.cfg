SPECIFICATION AnyFairSpec
CONSTANTS
  Components = {"downloads", "recovery", "provision"}
  Processes = {p1, p2}
  Hashes = {h1, h2}
  None = None
  Enabled = TRUE
  Devices = {d1, d2}
  Programs = {"recovery"}
  UsbReset = TRUE
  Fresh = {d1}
  Emulators = {d1}
  MaxFaults = 3
INVARIANTS
  DownloadsAreWhole
PROPERTIES
  CallersReturn
  ListedIsTrue
