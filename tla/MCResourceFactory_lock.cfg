\* The connection cache lock set twice.
CONSTANTS
  Argvs <- MCLockArgvs
  MaxNumeral <- MCMaxNumeral
  Build <- MCBuild
  LoadableProtocols <- MCLoadableProtocols
  MaxMessageSizes <- MCMaxMessageSizes
  FailingAllocs <- MCNoFailures

SPECIFICATION Spec

INVARIANT
  LockedCacheConsistent

\* The factory's life ends with its destructor.
CHECK_DEADLOCK FALSE
