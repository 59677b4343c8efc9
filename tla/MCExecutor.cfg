SPECIFICATION FairExecutorSpec
CONSTANTS
  t1 = t1
  t2 = t2
  t3 = t3
  Main = Main
  NoTask = NoTask
  Tasks <- ThreeTasks
PROPERTY MainIsPolled
PROPERTY CompletionWakes
PROPERTY QueuedIsRun
CHECK_DEADLOCK FALSE
