SPECIFICATION FairSpec
CONSTANTS
  u1 = u1
  User = {u1}
  Last = 3
  Author <- MCAuthor
  Gallery <- MCGallery
  Unreadable = {1}
  PageSize = 1
  MaxEmptyPages = 2
  BatchLimit = 1
  MaxMishaps = 1
  None = None
INVARIANTS TypeOK NoGap CleanVerdict
PROPERTIES CursorNeverBack EveryRowTried
CHECK_DEADLOCK FALSE
