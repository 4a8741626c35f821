CONSTANTS
  MaxHeadx = 4
  CbufSize = 4
  MaxItemSize = 2
  InCap = 2
  OutCap = 2
  Inputs <- MCInputs
  MaxItems = 5
  MaxResets = 1
  Asked = {"fst", "phones", "tree", "word"}
  LowerTab <- MCLower
  UpperTab <- MCUpper
SPECIFICATION PhrKnowSpec
INVARIANTS BoundsFollow TransducedRight SyllablesMade TreeDecides WordsRead
PROPERTIES RightTone RefinesPipe PhrasesGetOut
