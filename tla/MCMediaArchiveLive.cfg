\* Two calls at once, no hard links; a crash, a failed statement or a deleted file.
SPECIFICATION FairSpec
CONSTANTS
  i1 = i1
  i2 = i2
  i3 = i3
  u1 = u1
  u2 = u2
  u3 = u3
  n1 = n1
  m1 = m1
  m2 = m2
  c1 = c1
  c2 = c2
  Worker = {w1, w2}
  Item = {i1, i2, i3}
  Url = {u1, u2, u3}
  Name = {n1}
  Content = {c1, c2}
  Media = {m1, m2}
  UrlOf <- MCUrlOf
  NameOf <- MCNameOf
  KeyOf <- MCKeyOf
  ContentOf <- MCContentOf
  MaxSuffix = 1
  HardLinks = FALSE
  MaxCrashes = 1
  MaxFaults = 1
  MaxDeletes = 1
  MaxMishaps = 1
  None = None
  Placeholder = Placeholder
INVARIANT NoForgottenFile
PROPERTY CallsReturn
