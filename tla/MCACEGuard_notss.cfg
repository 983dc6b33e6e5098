\* The same threads on a platform without thread-specific storage, where
\* ACE_TSS_Guard is #defined to ACE_Guard.
CONSTANTS
  t1 = t1
  t2 = t2
  NoThread = NoThread
  Threads <- MCThreads
  MaxOps <- MCMaxOps
  HasTSS = FALSE
SPECIFICATION Spec
PROPERTY HolderReleases
\* A thread that leaves through thr_exit stops for good.
CHECK_DEADLOCK FALSE
