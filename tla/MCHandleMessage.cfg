\* A camera that is silent for ever really stops the handler: no deadlock check.
SPECIFICATION FairHandler
CONSTANTS
  discord = discord
  slack = slack
  telegram = telegram
  Notifiers <- MCNotifiers
  Service <- MCService
  Allowed <- MCAllowed
  Sizes = {0, 1, 2, 10485760, 10485761}
  Batches <- MCBatches
  Cameras <- MCCameras
  URLs = {"rtsps://a"}
CHECK_DEADLOCK FALSE
INVARIANT HandlerTypeOK
INVARIANT RefusedOnce
INVARIANT NothingLostSilently
PROPERTY ImplementsQueues
PROPERTY EverythingIsSent
PROPERTY PicturesAreWhole
