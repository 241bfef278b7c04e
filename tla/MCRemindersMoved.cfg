\* One task whose date may change, over three mornings, one worker, a window of two days.
CONSTANTS
  Tasks = {t1}
  Workers = {w1}
  LastDay = 3
  Window = 2
  MaxJobs = 0
  NoDate = NoDate
  NoTask = NoTask
SPECIFICATION RemindersSpec
SYMMETRY Symmetry
INVARIANTS EveryDateReminded
\* The calendar ends: no task and no morning may be left.
CHECK_DEADLOCK FALSE
