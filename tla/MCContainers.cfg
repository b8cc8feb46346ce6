CONSTANTS
  Which = {"queue", "heap"}
  NumBlocks = 2
  BlockSize = 2
  Thieves = {t1, t2}
  MaxPushes = 6
  Nodes = {n1, n2, n3, n4, n5, n6, n7, n8, n9, n10, n11, n12}
  Keys = {0, 1}
  Null = Null
  Stale = Stale
SPECIFICATION MCSpec
VIEW View
INVARIANTS
  ReadsWhatItClaimed
  IsHeap
PROPERTIES
  ImplementsDeque
  CallsReturn
  ImplementsQueue
