CONSTANTS
  Which = {"fan in", "future", "shared", "merge"}
  N = 3
  Kinds = {"all", "any"}
  InlineInCallback = {"all"}
  InlineOn = {"consumer"}
  Ops = {o1, o2}
  NumSeqs = 2
  WithItem = {1}
SPECIFICATION MCSpec
INVARIANTS
  OutlivesUse
  VerdictIsRight
  StatesOutliveUse
  AssertsHold
  SignalHasReason
  NobodyElseStopsIt
  ValueIfNoneFailed
PROPERTIES
  EndsOnceDecided
  EverythingEnds
  EveryoneIsTold
