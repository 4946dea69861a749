\* Locks: three callers, two keys.  Page: two jobs, one of
\* them running at the start, two updates, one fault.
SPECIFICATION PartsFairSpec
CONSTANTS
  Proc = {p1, p2, p3}
  Key = {k1, k2}
  Entry = {e1, e2, e3}
  None = None
  MaxJobs = 2
  MaxUpdates = 2
  Outcome = {"completed"}
  MaxFaults = 1
  WireSize = 1
  NoMeta = NoMeta
INVARIANTS PartsTypeOK NoLeak ReleaseIsPrompt
PROPERTIES KeepsMutex WaitEnds Converges
