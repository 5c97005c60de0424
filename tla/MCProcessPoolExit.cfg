\* The pool waits when nobody connects, and it ends.
CHECK_DEADLOCK FALSE
SPECIFICATION Spec
CONSTANTS
  ProcessNumber = 2
  PipeCapacity = 2
  MaxConnections = 1
  MaxSignals = 2
INVARIANT ParentStopsWithChildren
