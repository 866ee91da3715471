----------------------------- MODULE MessageChannel -----------------------------
(***************************************************************************)
(* What one direction of the link promises to the two programs: whole      *)
(* messages, in the order they were sent, none twice.  A link that breaks   *)
(* loses what was not received; nothing comes out of it afterwards.         *)
(***************************************************************************)
EXTENDS Naturals, Sequences

VARIABLES
  sent,      \* the messages whose sending has been completed
  received   \* the messages that a receive call has returned

chanvars == <<sent, received>>

Init == sent = <<>> /\ received = <<>>

Send ==
  /\ Len(sent') = Len(sent) + 1
  /\ SubSeq(sent', 1, Len(sent)) = sent
  /\ UNCHANGED received

Receive ==
  /\ Len(received) < Len(sent)
  /\ received' = Append(received, sent[Len(received) + 1])
  /\ UNCHANGED sent

Next == Send \/ Receive

Spec == Init /\ [][Next]_chanvars
===============================================================================
