\* One -ORBConnectionPurgingStrategy option with each accepted value.
CONSTANTS
  Argvs <- MCPurgingArgvs
  MaxNumeral <- MCMaxNumeral
  Build <- MCBuild
  LoadableProtocols <- MCLoadableProtocols
  MaxMessageSizes <- MCMaxMessageSizes
  FailingAllocs <- MCNoFailures

SPECIFICATION Spec

INVARIANT
  PurgingStrategyAvailable

\* The factory's life ends with its destructor.
CHECK_DEADLOCK FALSE
