------------------------------ MODULE Pairing ------------------------------
(***************************************************************************)
(* What key verification promises: of two devices on a live connection the *)
(* Sender opens a session first, and only if each has registered the       *)
(* other's key; the Receiver follows; and neither leaves the other in it.  *)
(***************************************************************************)
VARIABLES
  session,        \* who shows a session on the live connection
  senderTrusts,   \* has the Sender registered the Receiver's key
  receiverTrusts  \* has the Receiver registered the Sender's key

vars == <<session, senderTrusts, receiverTrusts>>

Init ==
  /\ session = "nobody"
  /\ senderTrusts \in {"yes", "no"}
  /\ receiverTrusts \in {"yes", "no"}

SenderOpens ==
  /\ session = "nobody"
  /\ senderTrusts = "yes" /\ receiverTrusts = "yes"
  /\ session' = "sender"
  /\ UNCHANGED <<senderTrusts, receiverTrusts>>

ReceiverOpens ==
  /\ session = "sender"
  /\ session' = "both"
  /\ UNCHANGED <<senderTrusts, receiverTrusts>>

End ==
  /\ session' = "nobody"
  /\ UNCHANGED <<senderTrusts, receiverTrusts>>

\* The lists of keys change only while nobody relies on them.
Register ==
  /\ session = "nobody"
  /\ senderTrusts' \in {"yes", "no"}
  /\ receiverTrusts' \in {"yes", "no"}
  /\ UNCHANGED session

Next == SenderOpens \/ ReceiverOpens \/ End \/ Register

Spec == Init /\ [][Next]_vars
=============================================================================
