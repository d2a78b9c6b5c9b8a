------------------------------- MODULE LuminT -------------------------------
(***************************************************************************)
(* Two devices running LuminT, one as Sender and one as Receiver, joined   *)
(* by a link: discovery, TLS and key verification, text and file transfer, *)
(* pause, resume, cancel, disconnection and what is recorded across it.    *)
(***************************************************************************)
EXTENDS Sender, Receiver, FiniteSets

vars == <<linkVars, senderVars, receiverVars>>

Init == LinkInit /\ SenderInit /\ ReceiverInit

\* Without the liberty to interrupt, nobody leaves once both ends are encrypted.
MayLeave ==
  "interrupt" \in Environment \/ ~(clientState = "ENCRYPTED" /\ serverState = "ENCRYPTED")

SenderUser ==
  \/ SOpenWaitingPage
  \/ ConnectToReceiver
  \/ MayLeave /\ SBack
  \/ SendTextMessage
  \/ \E f \in File : SendFile(f)
  \/ SRegister

ReceiverUser ==
  \/ StartServer
  \/ MayLeave /\ RBack
  \/ PauseFileTransfer
  \/ ResumeFileTransfer
  \/ CancelFileTransfer
  \/ \E folder \in Folder : SetFilePath(folder)
  \/ \E name \in Name : CreateUnderAnotherName(name)
  \/ CreateWithoutName
  \/ SendFileError
  \/ RRegister

SenderStep ==
  \/ SenderUser \/ SenderHandlers
  \/ SocketError \/ SEncryptingTimeout \/ SSuspend \/ SCrash \/ SQuit

ReceiverStep ==
  \/ ReceiverUser \/ ReceiverHandlers
  \/ REncryptingTimeout \/ RSuspend \/ RCrash \/ RQuit

Next ==
  \/ SenderStep /\ UNCHANGED receiverVars
  \/ ReceiverStep /\ UNCHANGED senderVars
  \/ LinkDrop /\ UNCHANGED <<senderVars, receiverVars>>

Spec == Init /\ [][Next]_vars

TypeOK == LinkTypeOK /\ SenderTypeOK /\ ReceiverTypeOK
-----------------------------------------------------------------------------
(* Safety.                                                                 *)

\* Key verification (the process described at the head of sender.hpp and
\* receiver.hpp): on a live connection the Receiver shows a session only if
\* the Sender already shows it, and the Sender shows one only if each device
\* has the other's key.
KeyVerification ==
  conn = "accepted" =>
    /\ rPage = "receiver" => sPage = "sender"
    /\ sPage = "sender" => sTrusts = "yes" /\ rTrusts = "yes"

\* stopServer dereferences serverSocket in every state but DISCONNECTED and
\* CONNECTING, and startServer relies on CONNECTING to know that it listens:
\* the server's state, its socket and its listener must never drift apart,
\* whatever the order of accepts, timeouts, errors and disconnections.
ServerConsistent ==
  /\ serverSocket = "set" <=> serverState \in {"ENCRYPTING", "ENCRYPTED", "UNRECOGNIZED"}
  /\ listening = "yes" <=> serverState = "CONNECTING"

\* The five-second encryption timers cut the connection when they fire: each
\* runs in the handshake it was started for and never into a session.
TimersStopWithHandshake ==
  /\ sTimer = "on" => clientState = "CONNECTED" /\ sPage = "waiting"
  /\ rTimer = "on" => serverState = "ENCRYPTING" /\ rPage = "waiting"

\* Whichever page a signal pushes or pops, a device that shows the start page
\* (from which another connection can be started) has shut down the last one.
StartPageIsIdle ==
  /\ sPage = "start" => clientState = "DISCONNECTED"
  /\ rPage = "start" => serverState = "DISCONNECTED" /\ currentOpen = "closed"

InSession == conn = "accepted" /\ rPage = "receiver"

\* A packet is being waited for: a transfer runs, is about to pause, or is
\* being cancelled.
AwaitsPacket ==
  \/ rMessageState \in {"FILE_SENDING", "FILE_ABORTING"}
  \/ rMessageState = "FILE_PAUSED" /\ pauseButton = "Pause"

Count(ch, t) == Cardinality({i \in 1 .. Len(ch) : ch[i].type = t})
Outstanding == Count(toSender, "FILE_PACKET") + Count(toReceiver, "PACKET")

\* Stop-and-wait: on a live session exactly one request or packet is under way
\* while the Receiver awaits a packet and none otherwise, and the Sender is
\* then in a file state and will answer.  Neither a lost wake-up nor a second
\* request (which would store a packet twice) is possible.
OneRequestAtATime ==
  InSession =>
    /\ Outstanding = IF AwaitsPacket THEN 1 ELSE 0
    /\ rMessageState # "MESSAGE" => sMessageState # "MESSAGE"

\* The Receiver's message state tells the framing of the next bytes; nothing
\* is ever read under the wrong framing, so that every text and every packet
\* comes out as it was sent (test_data_transfer.cpp, test_send_text).
StreamInSync == rStream = "aligned"

\* While the exists or the error popup waits for the user, the transfer it is
\* about is the only business of the session.
PopupHoldsTransfer ==
  InSession /\ popup # "none" =>
    /\ rMessageState = "MESSAGE"
    /\ sMessageState = "FILE_SENDING"
    /\ toSender = <<>> /\ toReceiver = <<>>

\* SenderPage's rows are enabled only when no transfer is under way, which is
\* what keeps a second file or a text out of a running transfer.
RowsFollowTransfer ==
  sPage = "sender" /\ sRows = "enabled" => sMessageState = "MESSAGE"

Image(f, n) == [k \in 1 .. n |-> <<f, k - 1>>]

\* A file reported complete holds every packet of the Sender's file, once and
\* in order, and still does whatever happens later (test_data_transfer.cpp,
\* "Check both files match").
CompletedFilesIntact ==
  \A c \in completed : \E f \in File :
    NameOf[f] = c[2] /\ disk[c[1]] = Image(f, Packets[f])

\* What a resumed transfer starts from: the record, the file on the Receiver's
\* disk and the Sender's record of what it was sending are about the same file
\* and the same packet.
ResumePointExact ==
  rSaved # NoRecord /\ serverState = "DISCONNECTED" =>
    \E f \in File :
      /\ f = sSaved \/ (sMessageState # "MESSAGE" /\ f = sFile)
      /\ rSaved.name = NameOf[f] /\ rSaved.size = Packets[f]
      /\ rSaved.packetNumber < Packets[f]
      /\ disk[<<rSaved.folder, rSaved.name>>] = Image(f, rSaved.packetNumber)

\* A partly received file belongs to a transfer that can still be finished or
\* cancelled: none is left behind.
NoOrphans ==
  \A p \in Path :
    \/ disk[p] \in {Absent, Old}
    \/ \E c \in completed : c[1] = p
    \/ rMessageState \in {"FILE_SENDING", "FILE_PAUSED"} /\ p = currentPath
    \/ rSaved # NoRecord /\ p = <<rSaved.folder, rSaved.name>>

\* The devices agree whether a transfer is under way: when nothing is in
\* flight and no popup is open, a Sender in a file state faces a Receiver that
\* has the transfer, so that it can be resumed, finished or cancelled.
TransferHasReceiver ==
  InSession /\ toSender = <<>> /\ toReceiver = <<>> /\ popup = "none" =>
    (sMessageState # "MESSAGE" => rMessageState # "MESSAGE")

\* The file that is being received, or will be when its record is taken up.
Partial ==
  IF rMessageState \in {"FILE_SENDING", "FILE_PAUSED"} THEN currentPath
  ELSE IF rSaved # NoRecord THEN <<rSaved.folder, rSaved.name>>
  ELSE NoPath

\* The file the Sender is sending, or will go on with.
Offered == IF sMessageState # "MESSAGE" THEN sFile ELSE sSaved

Delivery == INSTANCE FileDelivery WITH
  files <- disk,
  partial <- Partial,
  source <- IF Partial = NoPath THEN NoFile ELSE Offered,
  delivered <- completed

\* LuminT implements FileDelivery: over any number of sessions, pauses,
\* cancellations and cuts, the Receiver's disk changes only as files are
\* begun, grow by the right packet of the file the Sender is sending, are
\* delivered whole, or are dropped.
FileDelivered == Delivery!Spec

\* Who shows a session on a connection that is up.
Session ==
  IF conn # "accepted" THEN "nobody"
  ELSE IF rPage = "receiver" THEN "both"
  ELSE IF sPage = "sender" THEN "sender"
  ELSE "nobody"

Keys == INSTANCE Pairing WITH
  session <- Session,
  senderTrusts <- sTrusts,
  receiverTrusts <- rTrusts

\* LuminT implements Pairing: whatever is lost, cut, timed out or registered
\* in between, a session opens at the Sender and then at the Receiver, between
\* devices that know each other, and its end at one device ends the connection.
SessionsOpenInOrder == Keys!Spec

\* LuminT never changes or deletes a file that was there before it.
ForeignFilesKept ==
  [][\A p \in Path : disk[p] = Old => disk'[p] = Old]_vars

\* Only createFile brings a file into being: a cancelled file stays deleted
\* (test_data_transfer.cpp, "Make sure file has been deleted").
CancelledStaysDeleted ==
  [][\A p \in Path : disk[p] = Absent /\ disk'[p] # Absent => rMessageState = "MESSAGE"]_vars

\* A session ends for the Receiver only with a return to the start page: once
\* the keys are verified neither the error nor the unrecognised page can come.
SessionEndsQuietly ==
  [][ /\ rPage = "receiver" => rPage' \in {"receiver", "start"}
      /\ sPage = "sender" => sPage' \in {"sender", "start"}]_vars

-----------------------------------------------------------------------------
(* Liveness, under fairness of each device's event loop and timers.        *)

Fairness ==
  /\ WF_vars(SenderHandlers /\ UNCHANGED receiverVars)
  /\ WF_vars(ReceiverHandlers /\ UNCHANGED senderVars)

FairSpec == Spec /\ Fairness

\* A Sender that got through to a listener ends up in a session or learns why not.
HandshakeEnds ==
  clientState = "CONNECTED" ~> sPage \in {"sender", "error", "unrecognized", "start"}

\* A cancelled transfer is over once the packet under way has come in.
CancelEnds ==
  rMessageState = "FILE_ABORTING" ~> rMessageState = "MESSAGE" \/ serverState = "DISCONNECTED"

\* A transfer the Receiver's user leaves alone runs to its end, and the Sender
\* hears of it.
TransferEnds ==
  sMessageState = "FILE_SENDING" ~>
    \/ sMessageState # "FILE_SENDING" \/ clientState = "DISCONNECTED"
    \/ popup # "none" \/ pauseButton = "Resume"
=============================================================================
