CONSTANTS
  SpMaxHeadx = 6
  SpCbufSize = 10
  SpPhonCap = 28
  SpFsts <- MCStrengths
  SpItems <- MCSpItems
  SpInputs <- MCMarks
  MaxCmd = 2
  MaxP = 4
  MaxT = 6
  InCap = 1
  OutCap = 1
  MaxItems = 8
SPECIFICATION SpSpec
CHECK_DEADLOCK FALSE
PROPERTY SentencesGetOut
