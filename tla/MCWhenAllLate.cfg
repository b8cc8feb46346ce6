CONSTANTS
  Which = {"fan in"}
  N = 1
  Kinds = {"all"}
  InlineInCallback = {"all"}
  InlineOn = {}
  Ops = {}
  NumSeqs = 1
  WithItem = {}
SPECIFICATION MCSafety
INVARIANT CompletesOnce
