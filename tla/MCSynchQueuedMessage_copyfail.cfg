CONSTANTS
  Spans <- MCSpans
  IovMax <- MCIovMax
  MaxBlk <- MCMaxBlk
  AheadSpans <- MCAheadSpans
  FailingAllocs <- MCCopyFailure
  StackMsg = StackMsg
  CloneMsg = CloneMsg
  AheadMsg = AheadMsg

SPECIFICATION Spec


INVARIANT SuccessMeansDelivered
