CONSTANTS
  Tasks = {a, b, c}
  Finishers = {f, g}
  Noop = Noop
  Null = Null
SPECIFICATION Spec
INVARIANTS
  FinishHasLeft
PROPERTIES
  ImplementsPromise
  EverythingRuns
