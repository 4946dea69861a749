\* Archive: two calls at once, one crash and one failed statement, hard links.
\* Index: two readers, one save, one change of the download directory.
\* Posters: three requests, two posters, one place.
\* Directory: three titles, one of them taken, two files, two failures.
\* Stream: three requests, two places, one change of the password.
SPECIFICATION PartsSpec
CONSTANTS
  i1 = i1
  i2 = i2
  i3 = i3
  u1 = u1
  u2 = u2
  u3 = u3
  n1 = n1
  m1 = m1
  m2 = m2
  c1 = c1
  c2 = c2
  Worker = {w1, w2}
  Item = {i1, i2, i3}
  Url = {u1, u2, u3}
  Name = {n1}
  Content = {c1, c2}
  Media = {m1, m2}
  UrlOf <- MCUrlOf
  NameOf <- MCNameOf
  KeyOf <- MCKeyOf
  ContentOf <- MCContentOf
  MaxSuffix = 2
  HardLinks = TRUE
  MaxCrashes = 1
  MaxFaults = 1
  MaxDeletes = 0
  MaxMishaps = 2
  None = None
  Placeholder = Placeholder
  Shot = {x1}
  Reader = {y1, y2}
  MaxMoves = 1
  NoIndex = NoIndex
  Viewer = {v1, v2, v3}
  Poster = {q1, q2}
  MaxFetches = 1
  Nobody = Nobody
  Title = {a, b, c}
  Taken = {c}
  File = {f1, f2}
  MaxTitles = 3
  MaxTroubles = 2
  NoName = NoName
  Request = {r1, r2, r3}
  MaxSubscribers = 2
  BufferSize = 1
  MaxChanges = 1
INVARIANTS PartsTypeOK RecordTrue OneCopy LostIsSkipped
  ListingCurrent OneFetch PathsLead StreamSafe
