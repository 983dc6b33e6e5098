\* use_local_memory_pool() after init().
CONSTANTS
  Argvs <- MCDefaultArgvs
  MaxNumeral <- MCMaxNumeral
  Build <- MCBuild
  LoadableProtocols <- MCLoadableProtocols
  MaxMessageSizes <- MCMaxMessageSizes
  FailingAllocs <- MCNoFailures

SPECIFICATION Spec

INVARIANT
  PoolFlagHonoured

\* The factory's life ends with its destructor.
CHECK_DEADLOCK FALSE
