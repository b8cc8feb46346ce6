CONSTANTS
  Ops = {o1, o2, o3}
  Joins = {j1, j2, j3}
  MaxAssociations = 2
  Null = Null
  Nests = {n1}
  Futures = {f1}
  Empties = {e1, e2}
  StoppedWhileDropped = {}
  Tasks = {t1, t2}
SPECIFICATION MCSpec
INVARIANTS
  NoJoinForgotten
  NoUseAfterDestroy
  NobodyGoesOnEarly
  OutlivesUse
  NoTermination
PROPERTIES
  ImplementsPromise
  JoinCompletes
  EverythingEnds
