SPECIFICATION FairSpec
CONSTANTS
  Callers = {c1, c2, c3}
  NoCaller = NoCaller
  Inodes = {i1, i2, i3, i4}
  NoInode = NoInode
INVARIANTS MutualExclusion OneLockInode NameStays NoOrphanLock
PROPERTIES ImplementsMutex SomeoneProceeds
