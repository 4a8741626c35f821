CONSTANTS
  Units = {"cep", "sig"}
  MaxWinLen = 5
  MaxHeadx = 5
  MaxCbuf = 6
  CepInputs <- MCCepInputs
  Half = 2
  SdfBufLen = 3
  MaxFile = 8
  Readable <- MCReadable
  Writable <- MCWritable
  MayFailToWrite = TRUE
  SigInputs <- MCSigInputs
  InCap = 1
  OutCap = 1
  MaxItems = 4
SPECIFICATION SignalSpec
CHECK_DEADLOCK FALSE
INVARIANTS FramesInOrder SoundInOrder FilesComplete
PROPERTY SignalGetsOut
