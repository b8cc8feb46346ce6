CONSTANTS
  Which = {"future"}
  N = 1
  Kinds = {"all"}
  InlineInCallback = {"all"}
  InlineOn = {"consumer", "canceller"}
  Ops = {}
  NumSeqs = 1
  WithItem = {}
SPECIFICATION MCSafety
INVARIANT CancelKeepsState
