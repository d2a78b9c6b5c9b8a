-------------------------------- MODULE Link --------------------------------
(***************************************************************************)
(* The TCP/TLS connection between LuminT's Sender and Receiver and the     *)
(* messages that cross it, as the code of modules/communications uses      *)
(* QSslSocket and QTcpServer (both are Qt's and modelled from their use).  *)
(*                                                                         *)
(* A channel is the sequence of messages written by one end and not yet    *)
(* read by the other: TCP neither reorders nor duplicates.  When the       *)
(* connection goes down each end may still read a prefix of what the other *)
(* wrote, until it handles its own disconnected() signal.                  *)
(***************************************************************************)
EXTENDS Naturals, Sequences

CONSTANTS
  File,         \* the files the Sender's user may pick
  Packets,      \* Packets[f]: the number of PACKET_BYTES packets of f, 0 if f is refused
  Name,         \* file names
  NameOf,       \* NameOf[f]: the last component of f's path
  Environment,  \* the liberties the users, the disk and the network take, see Liberties
  MaxTexts      \* bound: text messages unread by the Receiver at a time

Liberties ==
  { "interrupt",     \* the link drops, or a user presses Back, during a session
    "rename",        \* the Receiver's user saves the file under another name
    "browse",        \* the Receiver's folder is changed while a transfer is under way
    "cancelPausing", \* Cancel is pressed between Pause and the packet that confirms it
    "cancelSaved",   \* Cancel is pressed on a transfer that has a saved record
    "diskFault",     \* opening or writing the received file fails
    "osFault",       \* listening or connecting fails for good
    "register",      \* keys are added to and removed from the device lists
    "suspend",       \* Android suspends the application
    "quit",          \* the application is closed, also during a session
    "crash" }        \* the application is killed

ASSUME ConstantsAssumption ==
  /\ Packets \in [File -> Nat]
  /\ NameOf \in [File -> Name]
  /\ Environment \subseteq Liberties
  /\ MaxTexts \in Nat

VARIABLES
  conn,        \* the connection Sender's socket holds or tries to get
  listening,   \* QTcpServer::isListening()
  stale,       \* an aborted connection still queued in the listener's backlog
  toSender,    \* what Receiver wrote and Sender has not read
  toReceiver   \* what Sender wrote and Receiver has not read

linkVars == <<conn, listening, stale, toSender, toReceiver>>

-----------------------------------------------------------------------------
(* Messages.  The Message::MessageID, with the InfoType, Request or        *)
(* Acknowledge it carries, is the message's type.                          *)

SignalType ==
  { "REQUEST_DEVICE_KEY", "DEVICE_KEY", "DEVICE_KEY_OK", "ERROR", "TEXT",
    "CANCEL_FILE_TRANSFER", "PAUSE_FILE_TRANSFER", "FILE_ERROR", "FILE_SUCCESS" }

Message ==
  [type : SignalType]
    \union [type : {"FILE_PACKET"}, packet : Nat]
    \union [type : {"FILE_INFO"}, size : Nat, name : Name]
    \union [type : {"PACKET"}, file : File, seq : Nat]

Signal(t) == [type |-> t]
FilePacket(n) == [type |-> "FILE_PACKET", packet |-> n]
FileInfo(f) == [type |-> "FILE_INFO", size |-> Packets[f], name |-> NameOf[f]]
Packet(f, n) == [type |-> "PACKET", file |-> f, seq |-> n]

\* What a write to an open socket does: it reaches the peer only while both
\* ends hold the connection, and is lost without an error otherwise.
SendToReceiver(m) ==
  toReceiver' = IF conn = "accepted" THEN Append(toReceiver, m) ELSE toReceiver

SendToSender(m) ==
  toSender' = IF conn = "accepted" THEN Append(toSender, m) ELSE toSender

-----------------------------------------------------------------------------
(* The ends of a connection.                                               *)

Prefixes(ch) == {SubSeq(ch, 1, n) : n \in 0 .. Len(ch)}

\* What may survive of a channel when the connection it belongs to is cut now.
Surviving(ch) == IF conn = "accepted" THEN Prefixes(ch) ELSE {ch}

\* QAbstractSocket::abort() on Sender's socket: a connection the Receiver has
\* not accepted yet stays in the listener's backlog as a dead one.
ClientAbort ==
  /\ conn' = "none"
  /\ stale' = IF conn = "pending" THEN "queued" ELSE stale
  /\ toSender' = <<>>
  /\ toReceiver' \in Surviving(toReceiver)

\* QTcpServer::close(): what waits in the backlog is reset.
CloseListener ==
  /\ listening' = "no"
  /\ stale' = "none"
  /\ conn' = IF conn = "pending" THEN "none" ELSE conn

\* QAbstractSocket::abort() on Receiver's socket.
ServerAbort ==
  /\ conn' = IF conn = "accepted" THEN "none" ELSE conn
  /\ toReceiver' = <<>>
  /\ toSender' \in Surviving(toSender)

\* The network loses an established connection; neither end knows yet.
LinkDrop ==
  /\ "interrupt" \in Environment
  /\ conn = "accepted"
  /\ conn' = "none"
  /\ toSender' \in Prefixes(toSender)
  /\ toReceiver' \in Prefixes(toReceiver)
  /\ UNCHANGED <<listening, stale>>

\* The operating system closes the sockets of a killed Receiver; a killed
\* Sender's connection goes as if aborted.
ServerCrash ==
  /\ conn' = IF conn \in {"pending", "accepted"} THEN "none" ELSE conn
  /\ listening' = "no"
  /\ stale' = "none"
  /\ toReceiver' = <<>>
  /\ toSender' \in Surviving(toSender)

LinkTypeOK ==
  /\ conn \in {"none", "dialing", "pending", "accepted"}
  /\ listening \in {"yes", "no"}
  /\ stale \in {"none", "queued"}
  /\ toSender \in Seq(Message)
  /\ toReceiver \in Seq(Message)

LinkInit ==
  /\ conn = "none"
  /\ listening = "no"
  /\ stale = "none"
  /\ toSender = <<>>
  /\ toReceiver = <<>>
=============================================================================
