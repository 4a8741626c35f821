SPECIFICATION Spec
CONSTANTS
  r1 = r1
  r2 = r2
  r3 = r3
  v1 = v1
  v2 = v2
  d1 = d1
  d2 = d2
  ta = ta
  sg = sg
  default = default
  toolong = toolong
  Rsrc = {r1, r2, r3}
  Voice = {v1, v2}
  Vdef = {d1, d2}
  RName = {ta, sg, default}
  LongRName = {toolong}
  VName = {"eng", "deu"}
  LongVName = {"long"}
  DefaultName = default
  Trunc <- MCTrunc
  MaxResources = 3
  MaxVdefs = 2
  MaxPerVoice = 2
  MaxVoices = 2
  None = None
SYMMETRY Symm
CHECK_DEADLOCK FALSE
INVARIANTS NoDanglingVoice LocksAreUsers ListsSound
PROPERTIES RunningEngineUntouched
