------------------------------ MODULE Receiver ------------------------------
(***************************************************************************)
(* The receiving device: class Receiver (modules/communications/           *)
(* receiver.cpp) with the pages that drive it (main.qml,                   *)
(* ReceiverWaitingPage.qml, ReceiverPage.qml) and the folders it writes    *)
(* to.  Every slot is one action, as in module Sender.                     *)
(*                                                                         *)
(* A file on the Receiver's disk is a sequence of chunks; chunk <<f, n>>   *)
(* is the nth packet of f.  A file that was there before LuminT is one     *)
(* chunk of the file Foreign, which no Sender sends.                       *)
(***************************************************************************)
EXTENDS Link

CONSTANTS
  Folder,      \* the folders the user may pick
  Documents,   \* the folder a fresh Receiver writes to
  MaxChunks,   \* bound: a file that has this many chunks is not resumed
  Absent, NoName, NoPath, NoRecord, Foreign

Path == Folder \X Name
Chunk == (File \union {Foreign}) \X Nat
Content == Seq(Chunk)
Old == << <<Foreign, 0>> >>
TransferInfo == [folder : Folder, name : Name, size : Nat, packetNumber : Nat]

\* The constructor's fileTransferInfo.
NoTransfer == [folder |-> Documents, name |-> NoName, size |-> 0, packetNumber |-> 0]

ASSUME ReceiverAssumption ==
  /\ Documents \in Folder
  /\ MaxChunks \in Nat
  /\ Absent \notin Content
  /\ NoName \notin Name
  /\ NoPath \notin Path
  /\ NoRecord \notin TransferInfo
  /\ Foreign \notin File

VARIABLES
  serverState,     \* Receiver::serverState
  serverSocket,    \* is Receiver::serverSocket set
  rTimer,          \* is encryptingTimer running
  rMessageState,   \* Receiver::messageState
  rStream,         \* does the next unread byte start a message
  rInfo,           \* Receiver::fileTransferInfo
  rSaved,          \* the record for the peer in RECEIVER_FILE_TRANSFER_INFO_NAME
  currentPath,     \* the name of Receiver::currentFile
  currentOpen,     \* is Receiver::currentFile open
  disk,            \* the content of every path
  rPage,           \* the page on top of the window's stack
  popup,           \* ReceiverPage's modal popup
  pauseButton,     \* the text of ReceiverPage's Pause/Resume button
  rTrusts,         \* is the Sender's key in the Receiver's device list
  completed        \* history: what fileCompleted() was emitted for

connectionVars == <<serverState, serverSocket, rTimer, rPage>>
fileVars == <<rInfo, currentPath, currentOpen, disk>>
receiverVars == <<connectionVars, fileVars, rMessageState, rStream, rSaved, popup,
                  pauseButton, rTrusts, completed>>

ServerState == {"ERROR", "DISCONNECTED", "CONNECTING", "ENCRYPTING", "ENCRYPTED", "UNRECOGNIZED"}
ReceiverMessageState == {"MESSAGE", "FILE_SENDING", "FILE_PAUSED", "FILE_ABORTING"}

ReceiverTypeOK ==
  /\ serverState \in ServerState
  /\ serverSocket \in {"null", "set"}
  /\ rTimer \in {"on", "off"}
  /\ rMessageState \in ReceiverMessageState
  /\ rStream \in {"aligned", "misaligned"}
  /\ rInfo \in [folder : Folder, name : Name \union {NoName}, size : Nat, packetNumber : Nat]
  /\ rSaved \in TransferInfo \union {NoRecord}
  /\ currentPath \in Path \union {NoPath}
  /\ currentOpen \in {"open", "closed"}
  /\ disk \in [Path -> Content \union {Absent}]
  /\ rPage \in {"start", "waiting", "receiver", "error", "unrecognized"}
  /\ popup \in {"none", "exists", "error"}
  /\ pauseButton \in {"Pause", "Resume"}
  /\ rTrusts \in {"yes", "no"}
  /\ completed \subseteq Path \X Name
ReceiverInit ==
  /\ serverState = "DISCONNECTED"
  /\ serverSocket = "null"
  /\ rTimer = "off"
  /\ rMessageState = "MESSAGE"
  /\ rStream = "aligned"
  /\ rInfo = NoTransfer
  /\ rSaved = NoRecord
  /\ currentPath = NoPath
  /\ currentOpen = "closed"
  /\ disk \in [Path -> {Absent, Old}]
  /\ rPage = "start"
  /\ popup = "none"
  /\ pauseButton = "Pause"
  /\ rTrusts \in (IF "register" \in Environment THEN {"yes", "no"} ELSE {"yes"})
  /\ completed = {}

-----------------------------------------------------------------------------
(* Connection methods and slots.                                           *)

\* StartPage's Receive button: the waiting page calls startServer when it is
\* complete.  The page stays even when listen fails.
StartServer ==
  /\ rPage = "start"
  /\ rPage' = "waiting"
  /\ \/ /\ serverState # "CONNECTING"
        /\ listening' = "yes"
        /\ serverState' = "CONNECTING"
        /\ rMessageState' = "MESSAGE"
     \/ /\ serverState = "CONNECTING" \/ "osFault" \in Environment
        /\ UNCHANGED <<listening, serverState, rMessageState>>
  /\ UNCHANGED <<conn, stale, toSender, toReceiver, serverSocket, rTimer>>
  /\ UNCHANGED <<fileVars, rStream, rSaved, popup, pauseButton, rTrusts, completed>>

\* incomingConnection: closes the listener, so that one Sender is served at a
\* time, and starts encryption on the connection at the head of the backlog.
IncomingConnection ==
  /\ listening = "yes"
  /\ stale = "queued" \/ conn = "pending"
  /\ listening' = "no"
  /\ stale' = "none"
  /\ conn' = IF conn # "pending" THEN conn
               ELSE IF stale = "queued" THEN "none" ELSE "accepted"
  /\ serverSocket' = "set"
  /\ rTimer' = "on"
  /\ serverState' = "ENCRYPTING"
  /\ UNCHANGED <<toSender, toReceiver, fileVars, rMessageState, rStream, rSaved, rPage, popup,
                 pauseButton, rTrusts, completed>>

\* socketReady: encryption is done and key verification starts.
RSocketReady ==
  /\ serverState = "ENCRYPTING"
  /\ conn = "accepted"
  /\ rTimer' = "off"
  /\ rStream' = "aligned"
  /\ SendToSender(Signal("REQUEST_DEVICE_KEY"))
  /\ serverState' = "ENCRYPTED"
  /\ UNCHANGED <<conn, listening, stale, toReceiver, serverSocket, fileVars, rMessageState,
                 rSaved, rPage, popup, pauseButton, rTrusts, completed>>

\* Mutant: a transfer that is being cancelled is recorded too.
RSaveAborting == rSaved' = IF rMessageState # "MESSAGE" THEN rInfo ELSE rSaved

\* Mutant: only a paused transfer is recorded.
RSavePausedOnly == rSaved' = IF rMessageState = "FILE_PAUSED" THEN rInfo ELSE rSaved

\* Mutant: fileTransferInfo is reset before it is recorded.
RSaveAfterReset ==
  rSaved' = IF rMessageState \in {"FILE_SENDING", "FILE_PAUSED"} THEN NoTransfer ELSE rSaved

\* A stop while a transfer is under way records it, whatever the reason.
RSaveFileTransferInfo ==
  rSaved' = IF rMessageState \in {"FILE_SENDING", "FILE_PAUSED"} THEN rInfo ELSE rSaved

\* stopServer() entered with serverState = state, which is not DISCONNECTED.
\* Leaving ReceiverPage destroys its popup.
StopServer(state) ==
  /\ rTimer' = "off"
  /\ currentOpen' = "closed"
  /\ RSaveFileTransferInfo
  /\ popup' = "none"
  /\ serverState' = "DISCONNECTED"
  /\ \/ /\ state = "CONNECTING"
        /\ CloseListener
        /\ UNCHANGED <<toSender, toReceiver, serverSocket>>
     \/ /\ state # "CONNECTING"
        /\ serverSocket' = "null"
        /\ ServerAbort
        /\ UNCHANGED <<listening, stale>>
  /\ UNCHANGED <<rMessageState, rStream, rInfo, currentPath, disk, pauseButton, rTrusts, completed>>

\* The signal stopServer() emits moves main.qml to another page.
PageAfter(state) ==
  CASE state = "UNRECOGNIZED" -> "unrecognized"
    [] state = "ERROR" -> "error"
    [] OTHER -> "start"

RSocketDisconnected ==
  /\ serverState \in {"ENCRYPTING", "ENCRYPTED", "UNRECOGNIZED"}
  /\ conn # "accepted"
  /\ LET state == IF serverState = "ENCRYPTING" THEN "ERROR" ELSE serverState IN
       /\ StopServer(state)
       /\ rPage' = PageAfter(state)

\* Mutant: the server is not stopped.
REncryptingTimeoutOnly ==
  /\ rTimer = "on"
  /\ rTimer' = "off"
  /\ serverState' = "ERROR"
  /\ rPage' = PageAfter("ERROR")
  /\ UNCHANGED <<linkVars, serverSocket, fileVars, rMessageState, rStream, rSaved, popup,
                 pauseButton, rTrusts, completed>>

REncryptingTimeout ==
  /\ rTimer = "on"
  /\ StopServer("ERROR")
  /\ rPage' = PageAfter("ERROR")

\* stopServer() and pop(null), from the back button or key.
RBack ==
  /\ rPage # "start"
  /\ rPage' = "start"
  /\ IF serverState = "DISCONNECTED"
       THEN UNCHANGED <<linkVars, serverState, serverSocket, rTimer, fileVars, rMessageState,
                        rStream, rSaved, popup, pauseButton, rTrusts, completed>>
       ELSE StopServer(serverState)

-----------------------------------------------------------------------------
(* handleReadyRead while messageState is MESSAGE: one message a call.      *)

Readable ==
  /\ serverState \in {"ENCRYPTED", "UNRECOGNIZED"}
  /\ rStream = "aligned"
  /\ toReceiver # <<>>

NextMessage(t) ==
  /\ Readable
  /\ rMessageState = "MESSAGE"
  /\ Head(toReceiver).type = t

Receives(t) ==
  /\ NextMessage(t)
  /\ toReceiver' = Tail(toReceiver)

\* handleDeviceKey's search of the device list.
RKeyRegistered == rTrusts = "yes"

RHandleDeviceKey ==
  /\ Receives("DEVICE_KEY")
  /\ \/ /\ RKeyRegistered
        /\ SendToSender(Signal("DEVICE_KEY"))
        /\ UNCHANGED serverState
     \/ /\ ~RKeyRegistered
        /\ SendToSender(Signal("ERROR"))
        /\ serverState' = "UNRECOGNIZED"
  /\ UNCHANGED <<conn, listening, stale, serverSocket, rTimer, rPage, fileVars, rMessageState,
                 rStream, rSaved, popup, pauseButton, rTrusts, completed>>

\* Acknowledge ERROR: abort() emits disconnected(), which stops the server.
RHandleError ==
  /\ NextMessage("ERROR")
  /\ StopServer("UNRECOGNIZED")
  /\ rPage' = PageAfter("UNRECOGNIZED")
\* Acknowledge DEVICE_KEY_OK, and ReceiverPage's onCompleted when connected()
\* pushes it: a recorded transfer comes back paused.
RHandleDeviceKeyOk ==
  /\ Receives("DEVICE_KEY_OK")
  /\ rPage' = "receiver"
  /\ \/ /\ rSaved = NoRecord
        /\ pauseButton' = "Pause"
        /\ UNCHANGED <<fileVars, rMessageState>>
     \/ /\ rSaved # NoRecord
        /\ rInfo' = rSaved
        /\ rMessageState' = "FILE_PAUSED"
        /\ currentPath' = <<rSaved.folder, rSaved.name>>
        /\ pauseButton' = "Resume"
        /\ UNCHANGED <<currentOpen, disk>>
  /\ UNCHANGED <<conn, listening, stale, toSender, serverState, serverSocket, rTimer, rStream,
                 rSaved, popup, rTrusts, completed>>

RHandleText ==
  /\ Receives("TEXT")
  /\ UNCHANGED <<conn, listening, stale, toSender, receiverVars>>

\* Mutant: an existing file is not noticed.
NothingExists(path) == FALSE

\* currentFile.exists()
FileExists(path) == disk[path] # Absent

\* createFile(name) with ReceiverPage's onFileStatus: when the file opens, the
\* page calls requestFirstPacket before createFile returns.
CreateFile(path) ==
  /\ currentPath' = path
  /\ \/ /\ FileExists(path)
        /\ popup' = "exists"
        /\ currentOpen' = "closed"
        /\ UNCHANGED <<disk, toSender, rMessageState>>
     \/ /\ ~FileExists(path)
        /\ popup' = "none"
        /\ currentOpen' = "open"
        /\ disk' = [disk EXCEPT ![path] = <<>>]
        /\ SendToSender(FilePacket(0))
        /\ rMessageState' = "FILE_SENDING"
     \/ /\ ~FileExists(path)
        /\ "diskFault" \in Environment
        /\ popup' = "error"
        /\ currentOpen' = "closed"
        /\ UNCHANGED <<disk, toSender, rMessageState>>

\* handleFileInfo.  receiveProgress() turns the button to Pause.
RHandleFileInfo ==
  /\ Receives("FILE_INFO")
  /\ LET info == Head(toReceiver) IN
       /\ rInfo' = [rInfo EXCEPT !.size = info.size, !.name = info.name, !.packetNumber = 0]
       /\ CreateFile(<<rInfo.folder, info.name>>)
  /\ pauseButton' = "Pause"
  /\ UNCHANGED <<conn, listening, stale, connectionVars, rStream, rSaved, rTrusts, completed>>

-----------------------------------------------------------------------------
(* handleReadyRead while a transfer is under way: one packet a call.       *)

\* Mutant: one packet too many is asked for.
IsPastLast(n, size) == n >= size

\* Only the last packet of a file is short.  readFile reads as many bytes as
\* it expects, so that a packet comes out whole only if both are the last of
\* their file or neither is.
IsLast(n, size) == n + 1 >= size

Fits(m) ==
  /\ m.type = "PACKET"
  /\ IsLast(m.seq, Packets[m.file]) <=> IsLast(rInfo.packetNumber, rInfo.size)

ReadsPacket ==
  /\ Readable
  /\ rMessageState # "MESSAGE"
  /\ Fits(Head(toReceiver))
  /\ toReceiver' = Tail(toReceiver)

\* Mutant: the message state is not reset.
RFinishCancelKeepsState ==
  /\ ReadsPacket
  /\ rMessageState = "FILE_ABORTING"
  /\ SendToSender(Signal("CANCEL_FILE_TRANSFER"))
  /\ UNCHANGED <<conn, listening, stale, connectionVars, fileVars, rMessageState, rStream, rSaved,
                 popup, pauseButton, rTrusts, completed>>

\* The packet Cancel was waiting for: it is dropped.
RFinishCancel ==
  /\ ReadsPacket
  /\ rMessageState = "FILE_ABORTING"
  /\ SendToSender(Signal("CANCEL_FILE_TRANSFER"))
  /\ rMessageState' = "MESSAGE"
  /\ UNCHANGED <<conn, listening, stale, connectionVars, fileVars, rStream, rSaved, popup,
                 pauseButton, rTrusts, completed>>

\* handlePacket: the result of write() is not looked at.
WritePacket(m) ==
  \/ /\ currentOpen = "open"
     /\ disk' = [disk EXCEPT ![currentPath] = Append(@, <<m.file, m.seq>>)]
  \/ /\ currentOpen = "closed" \/ "diskFault" \in Environment
     /\ UNCHANGED disk

StoresPacket ==
  /\ ReadsPacket
  /\ rMessageState # "FILE_ABORTING"
  /\ rInfo' = [rInfo EXCEPT !.packetNumber = @ + 1]
  /\ WritePacket(Head(toReceiver))
  /\ UNCHANGED <<conn, listening, stale, connectionVars, rStream, currentPath, popup, rTrusts>>

RFinishFile ==
  /\ StoresPacket
  /\ IsLast(rInfo.packetNumber, rInfo.size)
  /\ SendToSender(Signal("FILE_SUCCESS"))
  /\ rMessageState' = "MESSAGE"
  /\ rSaved' = NoRecord
  /\ currentOpen' = "closed"
  /\ pauseButton' = "Pause"
  /\ completed' = completed \union {<<currentPath, rInfo.name>>}

RConfirmPause ==
  /\ StoresPacket
  /\ ~IsLast(rInfo.packetNumber, rInfo.size)
  /\ rMessageState = "FILE_PAUSED"
  /\ SendToSender(Signal("PAUSE_FILE_TRANSFER"))
  /\ currentOpen' = "closed"
  /\ pauseButton' = "Resume"
  /\ UNCHANGED <<rMessageState, rSaved, completed>>

RRequestNext ==
  /\ StoresPacket
  /\ ~IsLast(rInfo.packetNumber, rInfo.size)
  /\ rMessageState = "FILE_SENDING"
  /\ SendToSender(FilePacket(rInfo.packetNumber + 1))
  /\ pauseButton' = "Pause"
  /\ UNCHANGED <<rMessageState, rSaved, currentOpen, completed>>

\* The bytes at hand are not what the message state makes of them: a packet
\* parsed as a message, a message taken for a packet, or a packet cut at the
\* wrong byte.  Nothing read from this connection is meaningful afterwards,
\* and the model reads nothing more from it.
Misread ==
  /\ Readable
  /\ IF rMessageState = "MESSAGE" THEN Head(toReceiver).type = "PACKET"
                                  ELSE ~Fits(Head(toReceiver))
  /\ rStream' = "misaligned"
  /\ UNCHANGED <<linkVars, connectionVars, fileVars, rMessageState, rSaved, popup, pauseButton,
                 rTrusts, completed>>

-----------------------------------------------------------------------------
(* What the user does on ReceiverPage, and on RegisterPage before a        *)
(* session.  A popup is modal.                                             *)

OnReceiverPage == rPage = "receiver" /\ popup = "none"

PauseFileTransfer ==
  /\ OnReceiverPage
  /\ pauseButton = "Pause"
  /\ rMessageState = "FILE_SENDING"
  /\ rMessageState' = "FILE_PAUSED"
  /\ UNCHANGED <<linkVars, connectionVars, fileVars, rStream, rSaved, popup, pauseButton,
                 rTrusts, completed>>

\* Mutant: without Append.
OpenTruncating == disk' = [disk EXCEPT ![currentPath] = <<>>]

\* Opening with Append keeps what the file holds and creates it when it is
\* gone; writes go to its end wherever seek() went.
OpenToAppend == disk' = [disk EXCEPT ![currentPath] = IF @ = Absent THEN <<>> ELSE @]

ResumeFileTransfer ==
  /\ OnReceiverPage
  /\ pauseButton = "Resume"
  /\ rMessageState = "FILE_PAUSED"
  /\ disk[currentPath] # Absent => Len(disk[currentPath]) < MaxChunks
  /\ \/ /\ currentOpen' = "open"
        /\ OpenToAppend
     \/ /\ "diskFault" \in Environment
        /\ currentOpen' = "closed"
        /\ UNCHANGED disk
  /\ SendToSender(FilePacket(rInfo.packetNumber))
  /\ rMessageState' = "FILE_SENDING"
  /\ pauseButton' = "Pause"
  /\ UNCHANGED <<conn, listening, stale, toReceiver, connectionVars, rInfo, currentPath, rStream,
                 rSaved, popup, rTrusts, completed>>

\* Cancel deletes what was received; while a packet is on its way the peer is
\* told only when it arrives.  The saved record is left alone.
CancelFileTransfer ==
  /\ OnReceiverPage
  /\ rMessageState # "MESSAGE"
  /\ rSaved # NoRecord => "cancelSaved" \in Environment
  /\ rMessageState = "FILE_PAUSED" /\ pauseButton = "Pause" => "cancelPausing" \in Environment
  /\ currentOpen' = "closed"
  /\ disk' = [disk EXCEPT ![currentPath] = Absent]
  /\ pauseButton' = "Pause"
  /\ \/ /\ rMessageState # "FILE_PAUSED"
        /\ rMessageState' = "FILE_ABORTING"
        /\ UNCHANGED toSender
     \/ /\ rMessageState = "FILE_PAUSED"
        /\ SendToSender(Signal("CANCEL_FILE_TRANSFER"))
        /\ rMessageState' = "MESSAGE"
  /\ UNCHANGED <<conn, listening, stale, toReceiver, connectionVars, rInfo, currentPath, rStream,
                 rSaved, popup, rTrusts, completed>>

\* The folder dialog's setFilePath.  A dialog opened before FILE_INFO came may be
\* accepted with a popup open.
SetFilePath(folder) ==
  /\ rPage = "receiver"
  /\ rMessageState # "MESSAGE" => "browse" \in Environment
  /\ rInfo' = [rInfo EXCEPT !.folder = folder]
  /\ UNCHANGED <<linkVars, connectionVars, currentPath, currentOpen, disk, rMessageState, rStream,
                 rSaved, popup, pauseButton, rTrusts, completed>>

\* Create in the exists popup.  rInfo keeps the name the Sender gave.
CreateUnderAnotherName(name) ==
  /\ popup = "exists"
  /\ "rename" \in Environment
  /\ CreateFile(<<rInfo.folder, name>>)
  /\ UNCHANGED <<conn, listening, stale, toReceiver, connectionVars, rInfo, rStream, rSaved,
                 pauseButton, rTrusts, completed>>

\* Mutant: the peer is told before the user has confirmed.
CreateWithoutNameTellsPeer ==
  /\ popup = "exists"
  /\ popup' = "error"
  /\ SendToSender(Signal("FILE_ERROR"))
  /\ UNCHANGED <<conn, listening, stale, toReceiver, connectionVars, fileVars, rMessageState,
                 rStream, rSaved, pauseButton, rTrusts, completed>>

\* Create with the name field left empty: createFile reports ERROR at once.
CreateWithoutName ==
  /\ popup = "exists"
  /\ popup' = "error"
  /\ UNCHANGED <<linkVars, connectionVars, fileVars, rMessageState, rStream, rSaved, pauseButton,
                 rTrusts, completed>>

\* Cancel in the exists popup, or Ok in the error popup.
SendFileError ==
  /\ popup \in {"exists", "error"}
  /\ popup' = "none"
  /\ SendToSender(Signal("FILE_ERROR"))
  /\ rMessageState' = "MESSAGE"
  /\ UNCHANGED <<conn, listening, stale, toReceiver, connectionVars, fileVars, rStream, rSaved,
                 pauseButton, rTrusts, completed>>

RRegister ==
  /\ "register" \in Environment
  /\ rPage = "start"
  /\ rTrusts' = IF rTrusts = "yes" THEN "no" ELSE "yes"
  /\ UNCHANGED <<linkVars, connectionVars, fileVars, rMessageState, rStream, rSaved, popup,
                 pauseButton, completed>>

-----------------------------------------------------------------------------
(* Suspension and death of the application.                                *)

RSuspend ==
  /\ "suspend" \in Environment
  /\ RSaveFileTransferInfo
  /\ UNCHANGED <<linkVars, connectionVars, fileVars, rMessageState, rStream, popup, pauseButton,
                 rTrusts, completed>>

\* The end of the process and a new start: the record and the files survive.
RRestart ==
  /\ ServerCrash
  /\ serverState' = "DISCONNECTED"
  /\ serverSocket' = "null"
  /\ rTimer' = "off"
  /\ rMessageState' = "MESSAGE"
  /\ rStream' = "aligned"
  /\ rInfo' = NoTransfer
  /\ currentPath' = NoPath
  /\ currentOpen' = "closed"
  /\ rPage' = "start"
  /\ popup' = "none"
  /\ pauseButton' = "Pause"
  /\ UNCHANGED <<disk, rTrusts, completed>>

RCrash ==
  /\ "crash" \in Environment
  /\ RRestart
  /\ UNCHANGED rSaved

\* The window is closed: ~Receiver closes the listener and aborts the
\* connection, and stopServer records what was under way.
RQuit ==
  /\ "quit" \in Environment
  /\ RRestart
  /\ IF serverSocket = "null" THEN UNCHANGED rSaved ELSE RSaveFileTransferInfo

ReceiverHandlers ==
  \/ IncomingConnection \/ RSocketReady \/ RSocketDisconnected
  \/ RHandleDeviceKey \/ RHandleError \/ RHandleDeviceKeyOk \/ RHandleText \/ RHandleFileInfo
  \/ RFinishCancel \/ RFinishFile \/ RConfirmPause \/ RRequestNext \/ Misread
=============================================================================
