------------------------------ MODULE MCLuminT ------------------------------
(***************************************************************************)
(* Small instances of LuminT for TLC.                                      *)
(***************************************************************************)
EXTENDS LuminT

CONSTANTS f1, f2, empty, n1, n2, d1, d2

\* f1 takes three packets and f2 one; the Sender refuses the empty file.
MCPackets == [f \in File |-> CASE f = f1 -> 3 [] f = f2 -> 1 [] OTHER -> 0]
\* For the run with every liberty.
MCTwoPackets == [f \in File |-> 2]
\* f1 and f2 have the same name in different folders of the Sender.
MCNameOf == [f \in File |-> n1]
=============================================================================
