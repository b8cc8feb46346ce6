CONSTANTS
  o1 = o1
  o2 = o2
  Nodes <- Commands
  Ops <- TwoOps
  Stoppable = {o1}
  Deadlines <- TwoDeadlines
  Horizon = 0
  Stub = Stub
  Null = Null
SPECIFICATION AliveSpec
CHECK_DEADLOCK FALSE
PROPERTIES
  DueOpCompletes
