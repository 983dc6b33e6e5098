--------------------------- MODULE MCNestedUpcall ---------------------------
(***************************************************************************)
(* NestedUpcall with a 16-bit time_to_live.  The chains started from 1..8  *)
(* reach every depth and every branching of the client up to eight nested *)
(* upcalls; start (c, 0) is the one value that wraps.                      *)
(***************************************************************************)
EXTENDS NestedUpcall

MCWidth == 16
MCPositiveStarts == 1 .. 8
MCZeroStart == {0, 1}

====
