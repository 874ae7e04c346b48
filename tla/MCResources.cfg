SPECIFICATION FairSpec
CONSTANTS
  t1 = t1
  t2 = t2
  t3 = t3
  database = database
  migrations = migrations
  registry = registry
  Tasks = {t1, t2, t3}
  Resources = {database, migrations, registry}
  Needs <- MCNeeds
  DependsOn <- MCDependsOn
  Late = {t3}
  None = None
  MayInterrupt = TRUE
INVARIANTS
  StartedInOrder
  UpWhileUsed
  NoneForgotten
PROPERTIES
  TasksAndTeardownEnd
CHECK_DEADLOCK FALSE
