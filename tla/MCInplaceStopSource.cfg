CONSTANTS
  Threads = {t1, t2}
  Callbacks = {c1, c2, c3}
  Head = Head
  Null = Null
SPECIFICATION Spec
INVARIANTS
  NoUseAfterDestroy
  NoCallbackMissed
PROPERTIES
  ImplementsPromise
  EveryCallReturns
