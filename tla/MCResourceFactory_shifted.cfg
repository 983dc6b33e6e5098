\* A parser option after an option that takes no value; the parser array
\* allocation of init() may fail.
CONSTANTS
  Argvs <- MCShiftedArgvs
  MaxNumeral <- MCMaxNumeral
  Build <- MCBuild
  LoadableProtocols <- MCLoadableProtocols
  MaxMessageSizes <- MCMaxMessageSizes
  FailingAllocs <- MCInitParserFailure

SPECIFICATION Spec

INVARIANT
  NoParserUB

\* The factory's life ends with its destructor.
CHECK_DEADLOCK FALSE
