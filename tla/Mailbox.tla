------------------------------- MODULE Mailbox -------------------------------
(***************************************************************************)
(* What the queue server promises about messages, threads left out: they   *)
(* are delivered once each and in the order accepted, none after an exit   *)
(* message, and at most one more once the mailbox has been closed.         *)
(***************************************************************************)
EXTENDS Naturals, Sequences

CONSTANTS Message, Exit

VARIABLES
  accepted,   \* messages in the order they were accepted
  delivered,  \* messages in the order they were delivered
  phase       \* "open", "last": closed, one delivery may follow, or "shut"

vars == <<accepted, delivered, phase>>

Init == accepted = << >> /\ delivered = << >> /\ phase = "open"

Accept ==
  /\ \E m \in Message : accepted' = Append(accepted, m)
  /\ UNCHANGED <<delivered, phase>>

Deliver ==
  /\ phase # "shut"
  /\ Len(delivered) < Len(accepted)
  /\ LET m == accepted[Len(delivered) + 1]
     IN  /\ delivered' = Append(delivered, m)
         /\ phase' = IF m.body = Exit \/ phase = "last" THEN "shut" ELSE "open"
  /\ UNCHANGED accepted

Close ==
  /\ phase = "open"
  /\ phase' \in {"last", "shut"}
  /\ UNCHANGED <<accepted, delivered>>

GiveUp ==
  /\ phase = "last"
  /\ phase' = "shut"
  /\ UNCHANGED <<accepted, delivered>>

Next == Accept \/ Deliver \/ Close \/ GiveUp

Spec == Init /\ [][Next]_vars
=============================================================================
