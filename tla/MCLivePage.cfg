\* One page of an editor, one other member's write at a time, two writes in all.
CONSTANTS
  Tabs = {t1}
  Owner = NoOne
  Others = {o1}
  Keys = {"summary", "diary"}
  Sends = {"expense", "dropStage", "entry", "photo", "dropPhoto", "project",
           "dropMember", "dropProject"}
  NoOne = NoOne
  MaxWrites = 2
SPECIFICATION FairSpec
\* A removed member's closed page stays closed once all writes are done.
CHECK_DEADLOCK FALSE
INVARIANTS PagesAgree OwnWritesShown RemovedSeeNothingNew
PROPERTIES PagesCatchUp
