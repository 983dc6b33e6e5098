\* start () may be given a time_to_live of 0.
CONSTANTS
  Width <- MCWidth
  StartValues <- MCZeroStart

SPECIFICATION Spec

INVARIANT
  ServerCountsDown

CHECK_DEADLOCK FALSE
