CONSTANTS
  Spans <- MCSpans
  IovMax <- MCIovMax
  MaxBlk <- MCMaxBlk
  AheadSpans <- MCAheadSpans
  FailingAllocs <- MCHandledFailures
  StackMsg = StackMsg
  CloneMsg = CloneMsg
  AheadMsg = AheadMsg

SPECIFICATION Spec

INVARIANT TypeOK
INVARIANT WireIsPrefix
INVARIANT SuccessMeansDelivered
INVARIANT NoUseAfterFree
INVARIANT ReleasedAtMostOnce
INVARIANT NoLeak

PROPERTY RemainingNeverGrows
PROPERTY CloneOfUnsentRest
PROPERTY CallerReturns
PROPERTY CopiesReleased
PROPERTY ImplementsQueuedMessage
