CONSTANTS
  MaxHeadx = 4
  CbufSize = 4
  MaxItemSize = 3
  MaxPossym = 3
  EntrySize = 1
  NumFsts = 2
  PhoneLens = {1, 2}
  InCap = 2
  OutCap = 1
  Inputs <- MCInputs
  MaxItems = 4
  ResetModes = {"full"}
  MaxResets = 1
SPECIFICATION FairSpec
INVARIANTS SlicesOwned EveryWordTransduced
PROPERTIES RefinesPipe PhrasesGetOut
