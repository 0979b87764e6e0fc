SPECIFICATION FairSpec
CONSTANTS
  Task = {t1, t2, t3}
  NoTask = NoTask
  MaxCancels = 2
INVARIANTS
  CountMatches
PROPERTIES
  TasksEnd
  ImplementsTaskPool
