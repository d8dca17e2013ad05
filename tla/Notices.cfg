SPECIFICATION Spec
CONSTANTS
  Client = {c1}
  Lifetimes = {1, 2}
  MaxTime = 1
  MaxEdits = 2
  Thresholds = {1, 2}
  Runner = {r1, r2}
  MaxFaults = 2
  ExpiringDays = 1
  Notifier = {n1, n2}
  MaxDeaths = 1
  Limit = 4
  LineLength = {0, 1, 2, 4, 9}
  MaxLines = 5
CHECK_DEADLOCK FALSE
INVARIANTS TypeOK NoticeOnce
PROPERTIES RemindsOnce NoneStaysDue SkippedWasAnnounced AnnouncedIsTried NothingLost
