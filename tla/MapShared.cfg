CONSTANTS
  a = a
  b = b
  c = c
  d = d
  one = one
  two = two
  Nothing = Nothing
  Key = {a, b, c, d}
  Val = {one, two}
  Hash <- MCHash
  Literals <- MCLiterals
  BitsPerLevel = 1
  BucketSize = 1
  MaxDepth = 2
  m1 = m1
  m2 = m2
  t1 = t1
  t2 = t2
  Object = {m1}
  Task = {t1, t2}
  Overlap = TRUE
SPECIFICATION Spec
PROPERTY ValuesImmutable
