CONSTANTS
  Files <- MCFiles
  Storages <- MCStorages
  Envs <- MCEnvs
  Lower <- MCLower
  Unreadable = Unreadable
  NotLoaded = NotLoaded
SPECIFICATION StartupSpec
INVARIANTS
  StartupTypeOK
  EveryPrinterOnce
  EveryNotifierOnce
  DaemonsAreUsable
  DiscoveryIsOptional
  PicturesAsConfigured
