\* The default parser array allocation fails once.
CONSTANTS
  Argvs <- MCDefaultArgvs
  MaxNumeral <- MCMaxNumeral
  Build <- MCBuild
  LoadableProtocols <- MCLoadableProtocols
  MaxMessageSizes <- MCMaxMessageSizes
  FailingAllocs <- MCDefaultParserFailure

SPECIFICATION Spec

INVARIANT
  ParserNamesExact

\* The factory's life ends with its destructor.
CHECK_DEADLOCK FALSE
