CONSTANTS
  Which = {"shared"}
  N = 1
  Kinds = {"all"}
  InlineInCallback = {"all"}
  InlineOn = {}
  Ops = {o1, o2}
  NumSeqs = 1
  WithItem = {}
SPECIFICATION MCSafety
INVARIANT LastOneStopsIt
