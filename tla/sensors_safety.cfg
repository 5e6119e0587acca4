SPECIFICATION SensorsSpec
CONSTANTS
  Watchable = {"drive", "downloads", "network", "log", "wmi"}
  NoMemory = NoMemory
  NoSnapshot = NoSnapshot
  NoName = NoName
  NoVolume = NoVolume
  FirstVolume <- MCFirstVolume
  ServiceAccounts = {"SYSTEM"}
  KeepSystem = FALSE
  MaxFiles = 3
  Dir <- MCDir
  FirstFiles <- MCFirstFiles
  WebFiles = {1, 2, 3}
  Temporary = {3}
  MarkRetries = 2
  RepeatWindow = 2
  KernelPids = {4}
  Loopback = {"self"}
  TableRows <- MCRows
  Owners <- MCOwners
  Records <- MCRecords
  Launches <- MCLaunches
  Console <- Anns
  MaxDeeds = 3
  MaxPolls = 5
  MaxHitches = 1
INVARIANTS
  DriveAccounted
  NothingMissed
PROPERTIES
  OnlyNewActivity
  CreditedToActor
CHECK_DEADLOCK FALSE
