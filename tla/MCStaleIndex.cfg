\* A deletion whose fsync fails, and a repeated upload.
CONSTANTS
  t1 = t1
  t2 = t2
  t3 = t3
  Ticket = {t1, t3}
  Content = {"a", "b"}
  Name = {"n1", "n2"}
  NameOf <- MCNameOf
  EncodedBytes <- MCEncodedBytes
  DecodedBytes <- MCDecodedBytes
  Capacity = 2
  MaxUploads = 2
  MaxBadSyncs = 1
SPECIFICATION Spec
INVARIANTS AckedAlwaysServed
CHECK_DEADLOCK FALSE
