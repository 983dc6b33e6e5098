--------------------------- MODULE QueuedMessage ---------------------------
(***************************************************************************)
(* What a queued message promises its sender (spec.md 4.2, 5, 7), with    *)
(* the bytes reduced to how many of them reached the wire.                 *)
(*                                                                         *)
(* The message is queued until it is complete (all Size bytes written),   *)
(* closed (the connection went away first) or dropped (a copy needed to  *)
(* keep it could not be made).  Bytes only ever go forward, and never     *)
(* past the message.  The sender is told once: "sent" only for a           *)
(* complete message, "closed" only for a closed one, "queued" while it is  *)
(* still queued, "dropped" exactly when it is dropped.                     *)
(***************************************************************************)
EXTENDS Naturals

CONSTANT Size   \* bytes in the application's message

VARIABLES
  sent,     \* bytes of the message on the wire
  status,   \* "queued", "complete", "closed" or "dropped"
  told      \* what the sender was told: "none", "sent", "closed", "queued", "dropped"

avars == <<sent, status, told>>

Init ==
  /\ sent = 0
  /\ status = "queued"
  /\ told = "none"

\* A write of some bytes; the one that writes the last byte completes it.
Write ==
  /\ status = "queued"
  /\ \E n \in sent + 1 .. Size :
       /\ sent' = n
       /\ status' = IF n = Size THEN "complete" ELSE "queued"
  /\ UNCHANGED told

Close ==
  /\ status = "queued"
  /\ status' = "closed"
  /\ UNCHANGED <<sent, told>>

\* The sender gives up on a message it could not keep.
Drop ==
  /\ status = "queued" /\ told = "none"
  /\ status' = "dropped"
  /\ told' = "dropped"
  /\ UNCHANGED sent

Tell ==
  /\ told = "none"
  /\ \/ status = "complete" /\ told' = "sent"
     \/ status = "closed" /\ told' = "closed"
     \/ status = "queued" /\ told' = "queued"
  /\ UNCHANGED <<sent, status>>

Next == Write \/ Close \/ Drop \/ Tell

\* A queued message is eventually written, and the sender eventually told.
Spec == Init /\ [][Next]_avars /\ WF_avars(Write) /\ WF_avars(Tell)

====
