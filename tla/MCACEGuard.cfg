\* Two threads sharing one readers/writer lock, on a platform with
\* thread-specific storage.
CONSTANTS
  t1 = t1
  t2 = t2
  NoThread = NoThread
  Threads <- MCThreads
  MaxOps <- MCMaxOps
  HasTSS = TRUE
SPECIFICATION Spec
INVARIANT TypeOK NoReleaseOfUnheldLock CriticalExclusive
PROPERTY HolderReleases
\* A thread that leaves through thr_exit stops for good; when every thread
\* has exited, nothing is left to run.
CHECK_DEADLOCK FALSE
