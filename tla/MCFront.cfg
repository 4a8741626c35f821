CONSTANTS
  Units = {"tok", "pr", "wa"}
  InCap = 1
  OutCap = 1
  MaxItems = 3
  TokBuf = 2
  MarkupBuf = 40
  OutBuf = 100
  MaxParams = 1
  Letters <- MCLetters
  Digits <- MCDigits
  TagId <- MCTagId
  Keyword <- MCKeyword
  GoodValues <- MCGoodValues
  Texts <- MCTexts
  Net <- MCNet
  Prods <- MCProds
  Vowels = {105}
  PlayFiles = {}
  CtxProds <- MCCtxProds
  Punct = {46}
  Subst <- MCSubst
  MaxPath = 12
  MaxIter = 100
  DynMem = 4
  PrInputs <- MCPrInputs
  NumGraphs = 2
  BlockSize = 3
  MaxNrRes = 2
  Ulex <- MCUlex
  MainLex <- MCMainLex
  PosTags = {7, 8}
  WaInputs <- MCWaInputs
INIT FrontInit
NEXT FrontNext
CHECK_DEADLOCK FALSE
INVARIANTS TokTextKept PrCheapest LexiconResolves
