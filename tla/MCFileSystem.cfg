CONSTANTS
  Null = Null
  f1 = f1
  d1 = d1
  Thread = {t1, t2}
  File = {f1}
  Directory = {d1}
  Under <- MCUnder
  Mutex = {m1, m2, m3}
  Content = {a}
SPECIFICATION FairSpec
INVARIANTS
  TypeOK
  PathExclusion
  NoTornRead
  IInv
PROPERTIES
  Atomicity
  Progress
