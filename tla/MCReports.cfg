\* One report, three processes, two crashes, locks may be lost, any call may fail.
CONSTANTS
  Reports = {x1}
  Procs = {p1, p2, p3}
  NoOne = NoOne
  MaxStalled = 1
  MaxCrashes = 2
  LockLoss = TRUE
  MayFail = {"enqueue", "read", "upload", "complete", "mark", "object", "row"}
SPECIFICATION FairSpec
CHECK_DEADLOCK FALSE
INVARIANTS DownloadsExist PendingIsWorkedOn OrphansAreEarly
PROPERTIES ImplementsLifecycle
