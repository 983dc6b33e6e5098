\* IOR parser names in option/value pairs (up to three pieces), and every
\* other option of init() with the values of each branch (up to two).
CONSTANTS
  Argvs <- MCFactoryArgvs
  MaxNumeral <- MCMaxNumeral
  Build <- MCBuild
  LoadableProtocols <- MCLoadableProtocols
  MaxMessageSizes <- MCMaxMessageSizes
  FailingAllocs <- MCNoFailures

SPECIFICATION Spec

INVARIANT
  TypeOK
  NoParserUB
  ParserNamesExact
  OptionsLastWins
  ProtocolsReady
  CodesetsConfigured
  ReactorTimerQueueAlive
  ReactorResourcesReleased
  NoReactorDoubleFree

\* The factory's life ends with its destructor.
CHECK_DEADLOCK FALSE
