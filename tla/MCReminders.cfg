\* One task over three mornings, two workers and jobs, a window of two days.
CONSTANTS
  Tasks = {t1}
  Workers = {w1, w2}
  LastDay = 3
  Window = 2
  MaxJobs = 2
  NoDate = NoDate
  NoTask = NoTask
SPECIFICATION RemindersSpec
SYMMETRY Symmetry
INVARIANTS RemindedWasMailed MailedOnce NobodyForgotten
