CONSTANTS
  Which = {"merge"}
  N = 1
  Kinds = {"all"}
  InlineInCallback = {"all"}
  InlineOn = {}
  Ops = {}
  NumSeqs = 1
  WithItem = {1}
SPECIFICATION MCSafety
INVARIANT ErrorIsDelivered
