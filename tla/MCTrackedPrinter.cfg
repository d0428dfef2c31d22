\* Reports complete or not, reconnections, two error codes, an HMS entry,
\* two trays, and a nozzle on both sides of the threshold.
SPECIFICATION TrackedSpec
CONSTANTS
  runout = runout
  jam = jam
  hmsA = hmsA
  tray1 = tray1
  tray2 = tray2
  RunoutCode = runout
  Codes = {runout, jam}
  HMSTexts = {hmsA}
  MaxHMS = 1
  Trays <- MCTrays
  PauseStages = {}
  OtherStates = {}
  Targets = {0, 200}
  Actuals = {220, 221}
  Partial = TRUE
  Reconnects = TRUE
SYMMETRY MCSymmetry
INVARIANT TrackedTypeOK
INVARIANT FirmwareDoesNotMatter
PROPERTY RepeatsOnlyWhatItForgot
