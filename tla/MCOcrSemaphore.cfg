SPECIFICATION SemSpec
CONSTANTS
  j1 = j1
  j2 = j2
  j3 = j3
  j4 = j4
  j5 = j5
  Job <- MCJob
  MaxConcurrency = 2
INVARIANTS
  SemTypeOK
  CounterIsExact
  NoIdlePlace
PROPERTIES
  FirstComeFirstServed
  EveryWaiterServed
  ImplementsPool
