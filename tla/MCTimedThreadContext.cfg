CONSTANTS
  o1 = o1
  o2 = o2
  Nodes <- Commands
  Ops <- TwoOps
  Stoppable = {o1}
  Deadlines <- TwoDeadlines
  Horizon = 1
  Stub = Stub
  Null = Null
SPECIFICATION FairSpec
CHECK_DEADLOCK FALSE
INVARIANTS
  RefCountIsHolders
  CompletedIsFree
  ExitedIsUnused
PROPERTIES
  FirstInFirstOut
  ContextExits
  CompletesWhileAlive
