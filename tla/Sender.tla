------------------------------- MODULE Sender -------------------------------
(***************************************************************************)
(* The sending device: class Sender (modules/communications/sender.cpp)    *)
(* with the pages that drive it (main.qml, SenderWaitingPage.qml,          *)
(* SenderPage.qml).  Every slot runs to completion in the GUI thread's     *)
(* event loop, so every slot is one action.  The model has one peer, so    *)
(* the map of saved transfers has at most one entry.                       *)
(***************************************************************************)
EXTENDS Link

CONSTANT NoFile
ASSUME NoFileAssumption == NoFile \notin File

VARIABLES
  clientState,     \* Sender::clientState
  sTimer,          \* is encryptingTimer running
  sMessageState,   \* Sender::messageState
  sFile,           \* fileTransferInfo.filePath
  sSaved,          \* the file recorded for the peer in SENDER_FILE_TRANSFER_INFO_NAME
  sPage,           \* the page on top of the window's stack
  sRows,           \* are SenderPage's text and file rows enabled
  sTrusts          \* is the Receiver's key in the Sender's device list

senderVars == <<clientState, sTimer, sMessageState, sFile, sSaved, sPage, sRows, sTrusts>>

ClientState == {"ERROR", "DISCONNECTED", "CONNECTING", "CONNECTED", "ENCRYPTED", "UNRECOGNIZED"}
SenderMessageState == {"MESSAGE", "FILE_SENDING", "FILE_PAUSED"}

SenderTypeOK ==
  /\ clientState \in ClientState
  /\ sTimer \in {"on", "off"}
  /\ sMessageState \in SenderMessageState
  /\ sFile \in File \union {NoFile}
  /\ sSaved \in File \union {NoFile}
  /\ sPage \in {"start", "waiting", "sender", "error", "unrecognized"}
  /\ sRows \in {"enabled", "disabled"}
  /\ sTrusts \in {"yes", "no"}

SenderInit ==
  /\ clientState = "DISCONNECTED"
  /\ sTimer = "off"
  /\ sMessageState = "MESSAGE"
  /\ sFile = NoFile
  /\ sSaved = NoFile
  /\ sPage = "start"
  /\ sRows = "enabled"
  /\ sTrusts \in (IF "register" \in Environment THEN {"yes", "no"} ELSE {"yes"})

-----------------------------------------------------------------------------
(* Connection methods and slots.                                           *)

\* StartPage's Send button.
SOpenWaitingPage ==
  /\ sPage = "start"
  /\ sPage' = "waiting"
  /\ UNCHANGED <<linkVars, clientState, sTimer, sMessageState, sFile, sSaved, sRows, sTrusts>>

\* SenderWaitingPage's Start button, enabled once per visit of the page.
ConnectToReceiver ==
  /\ sPage = "waiting"
  /\ clientState = "DISCONNECTED"
  /\ conn' = "dialing"
  /\ clientState' = "CONNECTING"
  /\ sMessageState' = "MESSAGE"
  /\ UNCHANGED <<listening, stale, toSender, toReceiver>>
  /\ UNCHANGED <<sTimer, sFile, sSaved, sPage, sRows, sTrusts>>

\* connected(): the listener's backlog takes the connection.  A refused
\* attempt makes socketError call connectToReceiver again, which changes nothing.
SocketConnected ==
  /\ clientState = "CONNECTING"
  /\ conn = "dialing"
  /\ listening = "yes"
  /\ conn' = "pending"
  /\ clientState' = "CONNECTED"
  /\ sTimer' = "on"
  /\ UNCHANGED <<listening, stale, toSender, toReceiver>>
  /\ UNCHANGED <<sMessageState, sFile, sSaved, sPage, sRows, sTrusts>>

\* Any other error (host unreachable, network down): socketError ignores it.
SocketError ==
  /\ "osFault" \in Environment
  /\ clientState = "CONNECTING"
  /\ conn = "dialing"
  /\ conn' = "none"
  /\ UNCHANGED <<listening, stale, toSender, toReceiver, senderVars>>

\* Mutant: the encryption timer is left running.
SSocketReadyTimerRuns ==
  /\ clientState = "CONNECTED"
  /\ conn = "accepted"
  /\ clientState' = "ENCRYPTED"
  /\ UNCHANGED <<linkVars, sTimer, sMessageState, sFile, sSaved, sPage, sRows, sTrusts>>

\* encrypted(): needs the Receiver to have started server encryption.
SSocketReady ==
  /\ clientState = "CONNECTED"
  /\ conn = "accepted"
  /\ clientState' = "ENCRYPTED"
  /\ sTimer' = "off"
  /\ UNCHANGED <<linkVars, sMessageState, sFile, sSaved, sPage, sRows, sTrusts>>

\* Whatever the handler, a disconnection while a file is under way records it.
SSaveFileTransferInfo ==
  sSaved' = IF sMessageState \in {"FILE_SENDING", "FILE_PAUSED"} THEN sFile ELSE sSaved

\* socketDisconnected() with clientState = state.
SLeave(state) ==
  /\ sTimer' = "off"
  /\ sPage' = CASE state = "UNRECOGNIZED" -> "unrecognized"
                [] state \in {"CONNECTED", "ERROR"} -> "error"
                [] OTHER -> "start"
  /\ clientState' = "DISCONNECTED"
  /\ SSaveFileTransferInfo
  /\ UNCHANGED <<sMessageState, sFile, sRows, sTrusts>>

SSocketDisconnected ==
  /\ clientState \in {"CONNECTED", "ENCRYPTED", "UNRECOGNIZED"}
  /\ conn \notin {"pending", "accepted"}
  /\ SLeave(clientState)
  /\ toSender' = <<>>
  /\ UNCHANGED <<conn, listening, stale, toReceiver>>

\* abort() emits disconnected() before it returns.
SEncryptingTimeout ==
  /\ sTimer = "on"
  /\ ClientAbort
  /\ SLeave("ERROR")
  /\ UNCHANGED listening

\* Mutant: the page goes but the connection stays.
SBackPopsOnly ==
  /\ sPage # "start"
  /\ sPage' = "start"
  /\ UNCHANGED <<linkVars, clientState, sTimer, sMessageState, sFile, sSaved, sRows, sTrusts>>

\* disconnectFromReceiver() and pop(null), from the back button or key.
SBack ==
  /\ sPage # "start"
  /\ sPage' = "start"
  /\ IF clientState = "DISCONNECTED"
       THEN UNCHANGED <<linkVars, clientState, sTimer, sSaved>>
       ELSE /\ ClientAbort
            /\ clientState' = "DISCONNECTED"
            /\ sTimer' = "off"
            /\ SSaveFileTransferInfo
            /\ UNCHANGED listening
  /\ UNCHANGED <<sMessageState, sFile, sRows, sTrusts>>

-----------------------------------------------------------------------------
(* handleReadyRead: one message per readyRead().                           *)

Reads(t) ==
  /\ clientState \in {"ENCRYPTED", "UNRECOGNIZED"}
  /\ toSender # <<>>
  /\ Head(toSender).type = t
  /\ toSender' = Tail(toSender)

SHandleKeyRequest ==
  /\ Reads("REQUEST_DEVICE_KEY")
  /\ SendToReceiver(Signal("DEVICE_KEY"))
  /\ UNCHANGED <<conn, listening, stale, senderVars>>

\* Mutant: every key is accepted.
SAnyKey == TRUE

\* handleDeviceKey's search of the device list.
SKeyRegistered == sTrusts = "yes"

\* handleDeviceKey, and SenderPage's onCompleted when connected() pushes it.
SHandleDeviceKey ==
  /\ Reads("DEVICE_KEY")
  /\ \/ /\ SKeyRegistered
        /\ SendToReceiver(Signal("DEVICE_KEY_OK"))
        /\ sPage' = "sender"
        /\ sFile' = IF sSaved # NoFile THEN sSaved ELSE sFile
        /\ sMessageState' = IF sSaved # NoFile THEN "FILE_PAUSED" ELSE sMessageState
        /\ sRows' = IF sMessageState' = "FILE_PAUSED" THEN "disabled" ELSE "enabled"
        /\ UNCHANGED clientState
     \/ /\ ~SKeyRegistered
        /\ SendToReceiver(Signal("ERROR"))
        /\ clientState' = "UNRECOGNIZED"
        /\ UNCHANGED <<sPage, sFile, sMessageState, sRows>>
  /\ UNCHANGED <<conn, listening, stale, sTimer, sSaved, sTrusts>>

\* Mutant: the connection is not cut.
SHandleErrorStays ==
  /\ Reads("ERROR")
  /\ clientState' = "UNRECOGNIZED"
  /\ UNCHANGED <<conn, listening, stale, toReceiver>>
  /\ UNCHANGED <<sTimer, sMessageState, sFile, sSaved, sPage, sRows, sTrusts>>

\* Acknowledge ERROR: disconnectFromHost() closes the connection gracefully.
SHandleError ==
  /\ Reads("ERROR")
  /\ clientState' = "UNRECOGNIZED"
  /\ conn' = IF conn = "accepted" THEN "none" ELSE conn
  /\ UNCHANGED <<listening, stale, toReceiver>>
  /\ UNCHANGED <<sTimer, sMessageState, sFile, sSaved, sPage, sRows, sTrusts>>

\* A packet past the end of the file is empty and puts nothing on the wire.
SHandleFilePacket ==
  /\ Reads("FILE_PACKET")
  /\ LET n == Head(toSender).packet IN
       IF sMessageState # "MESSAGE" /\ sFile # NoFile /\ n < Packets[sFile]
         THEN SendToReceiver(Packet(sFile, n))
         ELSE UNCHANGED toReceiver
  /\ UNCHANGED <<conn, listening, stale, senderVars>>

\* Mutant: the rows come back but the message state does not.
FileDoneRowsOnly ==
  /\ sMessageState' = sMessageState
  /\ sRows' = "enabled"
  /\ UNCHANGED <<conn, listening, stale, toReceiver, clientState, sTimer, sPage, sTrusts>>

\* fileCompleted() and fileError() enable SenderPage's rows again.
FileDone ==
  /\ sMessageState' = "MESSAGE"
  /\ sRows' = "enabled"
  /\ UNCHANGED <<conn, listening, stale, toReceiver, clientState, sTimer, sPage, sTrusts>>

SHandleCancel ==
  /\ Reads("CANCEL_FILE_TRANSFER")
  /\ FileDone
  /\ sSaved' = NoFile
  /\ sFile' = NoFile

SHandleFileSuccess ==
  /\ Reads("FILE_SUCCESS")
  /\ FileDone
  /\ sSaved' = NoFile
  /\ sFile' = NoFile

SHandleFileError ==
  /\ Reads("FILE_ERROR")
  /\ FileDone
  /\ UNCHANGED <<sSaved, sFile>>

\* Mutant: a paused transfer gives the rows back, as a finished one does.
SHandlePauseEnablesRows ==
  /\ Reads("PAUSE_FILE_TRANSFER")
  /\ sMessageState' = "FILE_PAUSED"
  /\ sRows' = "enabled"
  /\ UNCHANGED <<conn, listening, stale, toReceiver>>
  /\ UNCHANGED <<clientState, sTimer, sFile, sSaved, sPage, sTrusts>>

\* Mutant: a pause takes the Sender out of the transfer.
SHandlePauseLeavesTransfer ==
  /\ Reads("PAUSE_FILE_TRANSFER")
  /\ sMessageState' = "MESSAGE"
  /\ UNCHANGED <<conn, listening, stale, toReceiver>>
  /\ UNCHANGED <<clientState, sTimer, sFile, sSaved, sPage, sRows, sTrusts>>

SHandlePause ==
  /\ Reads("PAUSE_FILE_TRANSFER")
  /\ sMessageState' = "FILE_PAUSED"
  /\ UNCHANGED <<conn, listening, stale, toReceiver>>
  /\ UNCHANGED <<clientState, sTimer, sFile, sSaved, sPage, sRows, sTrusts>>

-----------------------------------------------------------------------------
(* What the user does on SenderPage, and on RegisterPage before a session. *)

UnreadTexts == Len(SelectSeq(toReceiver, LAMBDA m : m.type = "TEXT"))

SendTextMessage ==
  /\ sPage = "sender"
  /\ sRows = "enabled"
  /\ sMessageState # "FILE_SENDING"
  /\ UnreadTexts < MaxTexts
  /\ SendToReceiver(Signal("TEXT"))
  /\ UNCHANGED <<conn, listening, stale, toSender, senderVars>>

\* The Send button disables the rows whatever sendFile returns.
SendFile(f) ==
  /\ sPage = "sender"
  /\ sRows = "enabled"
  /\ sRows' = "disabled"
  /\ IF sMessageState = "FILE_SENDING"
       THEN UNCHANGED <<sFile, sMessageState, toReceiver>>
       ELSE /\ sFile' = f
            /\ IF Packets[f] = 0
                 THEN UNCHANGED <<sMessageState, toReceiver>>
                 ELSE /\ SendToReceiver(FileInfo(f))
                      /\ sMessageState' = "FILE_SENDING"
  /\ UNCHANGED <<conn, listening, stale, toSender, clientState, sTimer, sSaved, sPage, sTrusts>>

SRegister ==
  /\ "register" \in Environment
  /\ sPage = "start"
  /\ sTrusts' = IF sTrusts = "yes" THEN "no" ELSE "yes"
  /\ UNCHANGED <<linkVars, clientState, sTimer, sMessageState, sFile, sSaved, sPage, sRows>>

-----------------------------------------------------------------------------
(* Suspension and death of the application.                                *)

\* main.qml's onAppStateChanged looks at messageState alone.
SSuspend ==
  /\ "suspend" \in Environment
  /\ SSaveFileTransferInfo
  /\ UNCHANGED <<linkVars, clientState, sTimer, sMessageState, sFile, sPage, sRows, sTrusts>>

\* The end of the process and a new start: only the record survives.
SRestart ==
  /\ ClientAbort
  /\ clientState' = "DISCONNECTED"
  /\ sTimer' = "off"
  /\ sMessageState' = "MESSAGE"
  /\ sFile' = NoFile
  /\ sPage' = "start"
  /\ sRows' = "enabled"
  /\ UNCHANGED <<listening, sTrusts>>

SCrash ==
  /\ "crash" \in Environment
  /\ SRestart
  /\ UNCHANGED sSaved

\* The window is closed: ~Sender aborts the connection, and
\* socketDisconnected records what was under way.
SQuit ==
  /\ "quit" \in Environment
  /\ SRestart
  /\ IF clientState = "DISCONNECTED" THEN UNCHANGED sSaved ELSE SSaveFileTransferInfo

SenderHandlers ==
  \/ SocketConnected \/ SSocketReady \/ SSocketDisconnected
  \/ SHandleKeyRequest \/ SHandleDeviceKey \/ SHandleError \/ SHandleFilePacket
  \/ SHandleCancel \/ SHandleFileSuccess \/ SHandleFileError \/ SHandlePause
=============================================================================
