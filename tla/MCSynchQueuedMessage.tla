------------------------ MODULE MCSynchQueuedMessage ------------------------
(***************************************************************************)
(* Instantiates SynchQueuedMessage for TLC.                                *)
(*                                                                         *)
(* The stream holds the chain of spec.md 8 with "CDE" split over two     *)
(* blocks, "AB", "", "CD", "E", and a trailing empty block as             *)
(* ACE_OutputCDR leaves one after growing: empty blocks in the middle and *)
(* at the end, blocks written in several parts.  Two iovecs per write let *)
(* a write span a block boundary, while three non-empty blocks still fill *)
(* the iovec array and need a second write.                               *)
(* A message of two one-byte blocks is queued ahead, so a write spans   *)
(* both messages and cleanup_queue carries its count from one to the    *)
(* next.  Thirteen block ids cover the stream, the message ahead, a full *)
(* copy of the stream and a clone.                                        *)
(***************************************************************************)
EXTENDS SynchQueuedMessage

MCSpans == <<2, 0, 2, 1, 0>>
MCIovMax == 2
MCAheadSpans == <<1, 1>>
MCMaxBlk == 13

\* The allocations whose failure the code handles.
MCHandledFailures == {"clone_mb", "consolidate", "clone_qm"}

\* The clone () inside copy_if_necessary, whose result is not checked.
MCCopyFailure == {"copy"}
=============================================================================
