---------------------------- MODULE FileDelivery ----------------------------
(***************************************************************************)
(* What file transfer promises, whatever is paused, cancelled, cut or      *)
(* resumed: a file comes into being empty, grows by the next packet of one *)
(* file of the Sender, and is delivered with its last packet or deleted.   *)
(* Nothing else on the Receiver's disk changes.                            *)
(***************************************************************************)
EXTENDS Naturals, Sequences

CONSTANTS
  File, Packets, NameOf,  \* the Sender's files, their packets and their names
  Path,                   \* where the Receiver may write
  Absent, NoPath, NoFile, Foreign

VARIABLES
  files,     \* the content of every path
  partial,   \* the path of the file that is being received, in this session or the next
  source,    \* the Sender's file it comes from
  delivered  \* pairs of a path and the name of what was delivered there

vars == <<files, partial, source, delivered>>

Image(f, n) == [k \in 1 .. n |-> <<f, k - 1>>]
Old == << <<Foreign, 0>> >>

Init ==
  /\ files \in [Path -> {Absent, Old}]
  /\ partial = NoPath
  /\ source = NoFile
  /\ delivered = {}

Begin(p, f) ==
  /\ partial = NoPath
  /\ files[p] = Absent
  /\ files' = [files EXCEPT ![p] = <<>>]
  /\ partial' = p
  /\ source' = f
  /\ UNCHANGED delivered

\* Packet n of the file is stored, after all the packets before it.
Grow(n) ==
  /\ partial # NoPath
  /\ n < Packets[source]
  /\ files[partial] = Image(source, n)
  /\ files' = [files EXCEPT ![partial] = Image(source, n + 1)]

Store(n) ==
  /\ Grow(n)
  /\ n + 1 < Packets[source]
  /\ UNCHANGED <<partial, source, delivered>>

Deliver(n) ==
  /\ Grow(n)
  /\ n + 1 = Packets[source]
  /\ delivered' = delivered \union {<<partial, NameOf[source]>>}
  /\ partial' = NoPath
  /\ source' = NoFile

Drop ==
  /\ partial # NoPath
  /\ files' = [files EXCEPT ![partial] = Absent]
  /\ partial' = NoPath
  /\ source' = NoFile
  /\ UNCHANGED delivered

Next ==
  \/ \E p \in Path, f \in File : Begin(p, f)
  \/ \E f \in File : source = f /\ \E n \in 0 .. Packets[f] : Store(n) \/ Deliver(n)
  \/ Drop

Spec == Init /\ [][Next]_vars
=============================================================================
