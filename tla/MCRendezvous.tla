---------------------------- MODULE MCRendezvous ----------------------------
(***************************************************************************)
(* Small instances of Rendezvous for TLC.                                  *)
(***************************************************************************)
EXTENDS Rendezvous

CONSTANTS d1, d2, d3, i1, i2, i3, gateway

\* d1 and d2 have each other's keys; d3 is known to d1 alone, and knows both.
MCTrusts == [d \in Device |-> IF d = d2 THEN {d1} ELSE Device \ {d}]

\* d2's address may change also while it shows its start page.
MCMovesOn == [d \in Device |-> IF d = d2 THEN {"off", "start"} ELSE {"off"}]
=============================================================================
