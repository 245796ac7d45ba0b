\* Three tickets, two of them with the same file name, in a store of size 2 whose
\* directory fsync may fail once.
CONSTANTS
  t1 = t1
  t2 = t2
  t3 = t3
  Ticket = {t1, t2, t3}
  Content = {"a", "b"}
  Name = {"n1", "n2"}
  NameOf <- MCNameOf
  EncodedBytes <- MCEncodedBytes
  DecodedBytes <- MCDecodedBytes
  Capacity = 2
  MaxUploads = 2
  MaxBadSyncs = 1
SYMMETRY MCSymmetry
SPECIFICATION Spec
INVARIANTS AckedIsServed RestartOpens DeletedStaysDeleted UsageIsExact
CHECK_DEADLOCK FALSE
