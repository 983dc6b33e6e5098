\* start () with positive time_to_live values.
CONSTANTS
  Width <- MCWidth
  StartValues <- MCPositiveStarts

SPECIFICATION Spec

INVARIANT
  NestingBounded

PROPERTY
  StartReturns

\* After shutdown () the servant takes no more calls.
CHECK_DEADLOCK FALSE
