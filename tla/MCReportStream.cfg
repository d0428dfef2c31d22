\* Two error codes, two HMS texts and two trays are enough for "another one
\* came"; the nozzle is 21 degrees too warm or not heated (TrackedPrinter has
\* the threshold itself), and the stage names a reason to pause or none.
SPECIFICATION StreamSpec
CONSTANTS
  runout = runout
  jam = jam
  hmsA = hmsA
  hmsB = hmsB
  tray1 = tray1
  tray2 = tray2
  RunoutCode = runout
  Codes <- MCCodes
  HMSTexts <- MCHMSTexts
  MaxHMS = 2
  Trays <- MCTrays
  PauseStages <- MCPauseStages
  OtherStates <- MCOtherStates
  Targets = {0, 200}
  Actuals = {221}
SYMMETRY MCSymmetry
INVARIANT StreamTypeOK
INVARIANT SubscriberAgrees
INVARIANT LifecycleFirst
PROPERTY ResumedOnlyFromPause
PROPERTY LatchedAlerts
