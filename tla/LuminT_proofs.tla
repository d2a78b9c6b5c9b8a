--------------------------- MODULE LuminT_proofs ---------------------------
(***************************************************************************)
(* What holds of LuminT for every set of files, names and folders and      *)
(* under every liberty: types, the pairing of the server's state with its  *)
(* socket and listener, the timers, the pages, and key verification.       *)
(***************************************************************************)
EXTENDS LuminT, SequenceTheorems, TLAPS

Has(ch, t) == \E i \in 1 .. Len(ch) : ch[i].type = t

\* The file being received is on the disk, and a transfer has a name.
FileInv ==
  /\ currentOpen = "open" => currentPath \in Path /\ disk[currentPath] # Absent
  /\ currentOpen = "open" => rMessageState \in {"FILE_SENDING", "FILE_PAUSED"} /\ popup = "none"
  /\ rMessageState # "MESSAGE" => currentPath \in Path
  /\ rMessageState # "MESSAGE" \/ popup # "none" => rInfo.name \in Name

\* Where a connection stands for the Sender.
SenderInv ==
  /\ clientState # "ERROR"
  /\ clientState \in {"CONNECTING", "CONNECTED"} => sPage = "waiting"
  /\ sPage = "start" => clientState = "DISCONNECTED"
  /\ sPage = "sender" => clientState \in {"ENCRYPTED", "UNRECOGNIZED"}
  /\ sTimer = "on" => clientState = "CONNECTED"
  /\ clientState \in {"DISCONNECTED", "CONNECTING"} => toSender = <<>>
  /\ conn = "dialing" => clientState = "CONNECTING"
  /\ conn = "pending" => clientState = "CONNECTED" /\ toSender = <<>>
  /\ conn = "accepted" => clientState \in {"CONNECTED", "ENCRYPTED", "UNRECOGNIZED"}

\* Where a connection stands for the Receiver.
ReceiverInv ==
  /\ serverState # "ERROR"
  /\ ServerConsistent
  /\ serverState \in {"CONNECTING", "ENCRYPTING"} => rPage = "waiting"
  /\ rPage = "start" => serverState = "DISCONNECTED"
  /\ rPage = "receiver" => serverState \in {"ENCRYPTED", "UNRECOGNIZED"}
  /\ rTimer = "on" => serverState = "ENCRYPTING"
  /\ popup # "none" => serverState \in {"ENCRYPTED", "UNRECOGNIZED"}
  /\ serverState = "DISCONNECTED" => currentOpen = "closed"
  /\ serverState \in {"DISCONNECTED", "CONNECTING"} => toReceiver = <<>>
  /\ conn = "pending" => serverState = "CONNECTING"
  /\ conn = "accepted" => serverState \in {"ENCRYPTING", "ENCRYPTED", "UNRECOGNIZED"}

\* What the messages of a live connection say about the keys.
KeyInv ==
  conn = "accepted" =>
    /\ Has(toReceiver, "DEVICE_KEY_OK") \/ rPage = "receiver" => sPage = "sender"
    /\ Has(toSender, "DEVICE_KEY") \/ sPage = "sender" => rTrusts = "yes"
    /\ sPage = "sender" => sTrusts = "yes"

IInv == TypeOK /\ FileInv /\ SenderInv /\ ReceiverInv /\ KeyInv

-----------------------------------------------------------------------------
(* Messages and channels.                                                  *)

\* The fields of a message follow from its type.
LEMMA MessageFields ==
  ASSUME NEW m \in Message
  PROVE  /\ m.type = "FILE_INFO" => m.size \in Nat /\ m.name \in Name
         /\ m.type = "FILE_PACKET" => m.packet \in Nat
         /\ m.type = "PACKET" => m.file \in File /\ m.seq \in Nat
BY DEF Message, SignalType

\* Every message the code sends is one.
LEMMA MessageKinds ==
  /\ \A t \in SignalType : Signal(t) \in Message /\ Signal(t).type = t
  /\ \A n \in Nat : FilePacket(n) \in Message /\ FilePacket(n).type = "FILE_PACKET"
  /\ \A f \in File : FileInfo(f) \in Message /\ FileInfo(f).type = "FILE_INFO"
  /\ \A f \in File, n \in Nat : Packet(f, n) \in Message /\ Packet(f, n).type = "PACKET"
BY ConstantsAssumption DEF Message, Signal, FilePacket, FileInfo, Packet, SignalType

\* A channel after a message is written to it, or read from it.
LEMMA AppendMessage ==
  ASSUME NEW ch \in Seq(Message), NEW m \in Message
  PROVE  /\ Append(ch, m) \in Seq(Message)
         /\ \A t : Has(Append(ch, m), t) => Has(ch, t) \/ t = m.type
BY DEF Has

\* What reading a message leaves.
LEMMA TailMessage ==
  ASSUME NEW ch \in Seq(Message), ch # <<>>
  PROVE  /\ Head(ch) \in Message
         /\ Tail(ch) \in Seq(Message)
         /\ Has(ch, Head(ch).type)
         /\ \A t : Has(Tail(ch), t) => Has(ch, t)
BY DEF Has

\* What a cut leaves of a channel.
LEMMA PrefixMessage ==
  ASSUME NEW ch \in Seq(Message), NEW p \in Prefixes(ch)
  PROVE  p \in Seq(Message)
BY DEF Prefixes

\* The channel nothing was written to.
LEMMA EmptyMessage ==
  /\ <<>> \in Seq(Message)
  /\ \A t : ~Has(<<>>, t)
BY DEF Has

\* What a write does to a channel.
LEMMA WriteToReceiver ==
  ASSUME toReceiver \in Seq(Message), NEW m \in Message, SendToReceiver(m)
  PROVE  /\ toReceiver' \in Seq(Message)
         /\ conn # "accepted" => toReceiver' = toReceiver
         /\ \A t : t # m.type /\ Has(toReceiver', t) => Has(toReceiver, t)
BY AppendMessage DEF SendToReceiver

\* The same the other way.
LEMMA WriteToSender ==
  ASSUME toSender \in Seq(Message), NEW m \in Message, SendToSender(m)
  PROVE  /\ toSender' \in Seq(Message)
         /\ conn # "accepted" => toSender' = toSender
         /\ \A t : t # m.type /\ Has(toSender', t) => Has(toSender, t)
BY AppendMessage DEF SendToSender

\* Nothing but the exchange of keys writes a key to the Sender.
QuietToSender ==
  /\ toSender' \in Seq(Message)
  /\ conn # "accepted" => toSender' = toSender
  /\ Has(toSender', "DEVICE_KEY") => Has(toSender, "DEVICE_KEY")

\* The requests and the acknowledgements of a transfer are such writes.
LEMMA QuietWrite ==
  ASSUME toSender \in Seq(Message),
         \/ UNCHANGED toSender
         \/ \E n \in Nat : SendToSender(FilePacket(n))
         \/ \E t \in SignalType \ {"DEVICE_KEY"} : SendToSender(Signal(t))
  PROVE  QuietToSender
<1>1. CASE UNCHANGED toSender
  BY <1>1 DEF QuietToSender
<1>2. ASSUME NEW n \in Nat, SendToSender(FilePacket(n)) PROVE QuietToSender
  <2>1. FilePacket(n) \in Message /\ FilePacket(n).type = "FILE_PACKET"
    BY MessageKinds
  <2> QED BY <1>2, <2>1, WriteToSender DEF QuietToSender
<1>3. ASSUME NEW t \in SignalType \ {"DEVICE_KEY"}, SendToSender(Signal(t)) PROVE QuietToSender
  <2>1. Signal(t) \in Message /\ Signal(t).type = t
    BY MessageKinds
  <2> QED BY <1>3, <2>1, WriteToSender DEF QuietToSender
<1> QED BY <1>1, <1>2, <1>3

-----------------------------------------------------------------------------
(* Files.                                                                  *)

\* A new file is one that exists.
LEMMA EmptyFile == <<>> \in Content /\ <<>> # Absent
<1>1. <<>> \in Content
  BY EmptySeq DEF Content
<1> QED BY <1>1, ReceiverAssumption

\* A record is only ever written while a transfer has a name.
LEMMA RecordTyped ==
  ASSUME ReceiverTypeOK, FileInv, RSaveFileTransferInfo
  PROVE  rSaved' \in TransferInfo \union {NoRecord}
<1>1. CASE rMessageState \in {"FILE_SENDING", "FILE_PAUSED"}
  <2>1. rInfo.name \in Name
    BY <1>1 DEF FileInv
  <2>2. rInfo \in TransferInfo
    BY <2>1 DEF ReceiverTypeOK, TransferInfo
  <2> QED BY <1>1, <2>2 DEF RSaveFileTransferInfo
<1>2. CASE rMessageState \notin {"FILE_SENDING", "FILE_PAUSED"}
  BY <1>2 DEF RSaveFileTransferInfo, ReceiverTypeOK
<1> QED BY <1>1, <1>2

\* Storing a packet leaves the open file on the disk.
LEMMA PacketStored ==
  ASSUME ReceiverTypeOK, FileInv, NEW m \in Message, m.type = "PACKET", WritePacket(m)
  PROVE  /\ disk' \in [Path -> Content \union {Absent}]
         /\ currentOpen = "open" => disk'[currentPath] # Absent
<1>1. <<m.file, m.seq>> \in Chunk
  BY MessageFields DEF Chunk
<1>2. CASE /\ currentOpen = "open"
           /\ disk' = [disk EXCEPT ![currentPath] = Append(@, <<m.file, m.seq>>)]
  <2>1. currentPath \in Path /\ disk[currentPath] \in Content
    BY <1>2 DEF FileInv, ReceiverTypeOK
  <2>2. Append(disk[currentPath], <<m.file, m.seq>>) \in Content
    BY <1>1, <2>1 DEF Content
  <2> QED BY <1>2, <2>1, <2>2, ReceiverAssumption DEF ReceiverTypeOK
<1>3. CASE UNCHANGED disk
  BY <1>3 DEF FileInv, ReceiverTypeOK
<1> QED BY <1>2, <1>3 DEF WritePacket

\* createFile leaves a typed state, with the file on the disk if it is open.
LEMMA FileCreated ==
  ASSUME ReceiverTypeOK, toSender \in Seq(Message), NEW path \in Path, CreateFile(path)
  PROVE  /\ currentPath' = path
         /\ currentOpen' \in {"open", "closed"}
         /\ popup' \in {"none", "exists", "error"}
         /\ rMessageState' \in {rMessageState, "FILE_SENDING"}
         /\ disk' \in [Path -> Content \union {Absent}]
         /\ currentOpen' = "open" => disk'[path] # Absent
         /\ currentOpen' = "open" => popup' = "none" /\ rMessageState' = "FILE_SENDING"
         /\ QuietToSender
<1>1. CASE UNCHANGED <<disk, toSender, rMessageState>> /\ currentOpen' = "closed"
  BY <1>1, QuietWrite DEF CreateFile, ReceiverTypeOK
<1>2. CASE /\ SendToSender(FilePacket(0)) /\ disk' = [disk EXCEPT ![path] = <<>>]
           /\ currentOpen' = "open" /\ popup' = "none" /\ rMessageState' = "FILE_SENDING"
  <2>1. QuietToSender
    BY <1>2, QuietWrite
  <2>2. disk' \in [Path -> Content \union {Absent}] /\ disk'[path] # Absent
    BY <1>2, EmptyFile DEF ReceiverTypeOK
  <2> QED BY <1>2, <2>1, <2>2 DEF CreateFile
<1> QED BY <1>1, <1>2 DEF CreateFile

-----------------------------------------------------------------------------
(* Steps of the Receiver.                                                  *)

\* Within a connection only the channels and the transfer change.
LEMMA TransferStep ==
  ASSUME IInv, UNCHANGED senderVars,
         UNCHANGED <<conn, listening, stale, connectionVars, rTrusts>>,
         serverState \in {"ENCRYPTED", "UNRECOGNIZED"},
         UNCHANGED toReceiver \/ (toReceiver # <<>> /\ toReceiver' = Tail(toReceiver)),
         QuietToSender, ReceiverTypeOK', FileInv'
  PROVE  IInv'
<1>1. toReceiver' \in Seq(Message) /\ \A t : Has(toReceiver', t) => Has(toReceiver, t)
  BY TailMessage DEF IInv, TypeOK, LinkTypeOK
<1>2. TypeOK'
  BY <1>1 DEF IInv, TypeOK, LinkTypeOK, SenderTypeOK, senderVars, QuietToSender
<1>3. SenderInv'
  BY DEF IInv, SenderInv, QuietToSender, senderVars
<1>4. ReceiverInv'
  BY <1>1 DEF IInv, ReceiverInv, ServerConsistent, connectionVars
<1>5. KeyInv'
  BY <1>1 DEF IInv, KeyInv, QuietToSender, senderVars, connectionVars
<1> QED BY <1>2, <1>3, <1>4, <1>5 DEF IInv

\* Whatever stops the server, it is stopped altogether.
LEMMA ServerStopped ==
  ASSUME IInv, NEW state, StopServer(state), UNCHANGED senderVars,
         serverState # "DISCONNECTED", state = "CONNECTING" <=> serverState = "CONNECTING",
         rPage' \in {"start", "error", "unrecognized"}
  PROVE  IInv'
<1>1. ReceiverTypeOK'
  <2>1. rSaved' \in TransferInfo \union {NoRecord}
    BY RecordTyped DEF IInv, TypeOK, StopServer
  <2> QED BY <2>1 DEF IInv, TypeOK, ReceiverTypeOK, StopServer, ServerState
<1>2. FileInv'
  BY DEF IInv, FileInv, StopServer
<1>3. /\ listening' = "no" /\ conn' # "accepted" /\ conn' # "pending"
      /\ conn' = "dialing" => conn = "dialing"
      /\ toReceiver' = <<>> /\ toSender' \in Seq(Message)
      /\ toSender = <<>> => toSender' = <<>>
      /\ conn' \in {"none", "dialing"} /\ stale' \in {"none", "queued"}
      /\ serverSocket' = "null"
  <2>1. CASE state = "CONNECTING"
    BY <2>1 DEF StopServer, CloseListener, IInv, TypeOK, LinkTypeOK, SenderInv, ReceiverInv,
       ServerConsistent, ReceiverTypeOK
  <2>2. CASE state # "CONNECTING"
    <3>1. ServerAbort /\ UNCHANGED <<listening, stale>> /\ serverSocket' = "null"
      BY <2>2 DEF StopServer
    <3>2. toSender' \in Seq(Message) /\ (toSender = <<>> => toSender' = <<>>)
      BY <3>1, PrefixMessage DEF ServerAbort, Surviving, Prefixes, IInv, TypeOK, LinkTypeOK
    <3> QED BY <2>2, <3>1, <3>2 DEF ServerAbort, IInv, TypeOK, LinkTypeOK, ReceiverInv,
            ServerConsistent, ReceiverTypeOK
  <2> QED BY <2>1, <2>2
<1>4. TypeOK'
  BY <1>1, <1>3, EmptyMessage DEF IInv, TypeOK, LinkTypeOK, SenderTypeOK, senderVars
<1>5. SenderInv'
  BY <1>3 DEF IInv, SenderInv, senderVars
<1>6. ReceiverInv'
  BY <1>3 DEF StopServer, ReceiverInv, ServerConsistent
<1>7. KeyInv'
  BY <1>3 DEF KeyInv
<1> QED BY <1>2, <1>4, <1>5, <1>6, <1>7 DEF IInv

\* The ends of a session, whatever brings them about.
LEMMA ServerStops ==
  ASSUME IInv, UNCHANGED senderVars,
         RSocketDisconnected \/ RHandleError \/ REncryptingTimeout \/ RBack
  PROVE  IInv'
<1>1. CASE RSocketDisconnected
  <2> DEFINE state == IF serverState = "ENCRYPTING" THEN "ERROR" ELSE serverState
  <2>1. StopServer(state) /\ rPage' = PageAfter(state)
    BY <1>1 DEF RSocketDisconnected
  <2>2. serverState # "DISCONNECTED" /\ serverState # "CONNECTING"
    BY <1>1 DEF RSocketDisconnected
  <2> QED BY <2>1, <2>2, ServerStopped DEF PageAfter
<1>2. CASE RHandleError
  <2>1. StopServer("UNRECOGNIZED") /\ rPage' = "unrecognized"
    BY <1>2 DEF RHandleError, PageAfter
  <2>2. serverState # "DISCONNECTED" /\ serverState # "CONNECTING"
    BY <1>2 DEF RHandleError, NextMessage, Readable
  <2> QED BY <2>1, <2>2, ServerStopped
<1>3. CASE REncryptingTimeout
  <2>1. StopServer("ERROR") /\ rPage' = "error" /\ serverState = "ENCRYPTING"
    BY <1>3 DEF REncryptingTimeout, PageAfter, IInv, ReceiverInv
  <2> QED BY <2>1, ServerStopped
<1>4. CASE RBack
  <2>1. CASE serverState = "DISCONNECTED"
    BY <1>4, <2>1 DEF RBack, IInv, TypeOK, LinkTypeOK, SenderTypeOK, ReceiverTypeOK, FileInv,
       SenderInv, ReceiverInv, ServerConsistent, KeyInv, linkVars, senderVars, fileVars
  <2>2. CASE serverState # "DISCONNECTED"
    <3>1. StopServer(serverState) /\ rPage' = "start"
      BY <1>4, <2>2 DEF RBack
    <3> QED BY <2>2, <3>1, ServerStopped
  <2> QED BY <2>1, <2>2
<1> QED BY <1>1, <1>2, <1>3, <1>4

\* The keys are exchanged.
LEMMA KeySteps ==
  ASSUME IInv, UNCHANGED senderVars,
         RSocketReady \/ RHandleDeviceKey \/ RHandleDeviceKeyOk
  PROVE  IInv'
<1> USE DEF IInv, TypeOK, LinkTypeOK, SenderTypeOK, ReceiverTypeOK, FileInv, SenderInv, ReceiverInv,
        ServerConsistent, ServerState, senderVars, connectionVars, fileVars
<1>1. CASE RSocketReady
  <2>1. QuietToSender
    BY <1>1, QuietWrite DEF RSocketReady, SignalType
  <2> QED BY <1>1, <2>1 DEF RSocketReady, QuietToSender, KeyInv
<1>2. CASE RHandleDeviceKey
  <2>1. /\ serverState \in {"ENCRYPTED", "UNRECOGNIZED"}
        /\ toReceiver' \in Seq(Message)
        /\ \A t : Has(toReceiver', t) => Has(toReceiver, t)
    BY <1>2, TailMessage DEF RHandleDeviceKey, Receives, NextMessage, Readable
  <2>2. CASE RKeyRegistered /\ SendToSender(Signal("DEVICE_KEY")) /\ UNCHANGED serverState
    <3>1. Signal("DEVICE_KEY") \in Message
      BY MessageKinds DEF SignalType
    <3>2. toSender' \in Seq(Message) /\ (conn # "accepted" => toSender' = toSender)
      BY <2>2, <3>1, WriteToSender
    <3> QED BY <1>2, <2>1, <2>2, <3>2 DEF RHandleDeviceKey, RKeyRegistered, KeyInv
  <2>3. CASE SendToSender(Signal("ERROR")) /\ serverState' = "UNRECOGNIZED"
    <3>1. QuietToSender
      BY <2>3, QuietWrite DEF SignalType
    <3> QED BY <1>2, <2>1, <2>3, <3>1 DEF RHandleDeviceKey, QuietToSender, KeyInv
  <2> QED BY <1>2, <2>2, <2>3 DEF RHandleDeviceKey
<1>3. CASE RHandleDeviceKeyOk
  <2>1. /\ serverState \in {"ENCRYPTED", "UNRECOGNIZED"}
        /\ Has(toReceiver, "DEVICE_KEY_OK")
        /\ toReceiver' \in Seq(Message)
        /\ \A t : Has(toReceiver', t) => Has(toReceiver, t)
    BY <1>3, TailMessage DEF RHandleDeviceKeyOk, Receives, NextMessage, Readable
  <2>2. /\ pauseButton' \in {"Pause", "Resume"}
        /\ rMessageState' \in ReceiverMessageState
        /\ rInfo' \in [folder : Folder, name : Name \union {NoName}, size : Nat, packetNumber : Nat]
        /\ currentPath' \in Path \union {NoPath}
        /\ rMessageState' # "MESSAGE" \/ popup' # "none" => rInfo'.name \in Name
        /\ rMessageState' # "MESSAGE" => currentPath' \in Path
        /\ currentOpen = "closed"
        /\ UNCHANGED <<currentOpen, disk, popup>>
    <3>1. rMessageState = "MESSAGE"
      BY <1>3 DEF RHandleDeviceKeyOk, Receives, NextMessage
    <3>2. CASE rSaved = NoRecord
      BY <1>3, <3>1, <3>2 DEF RHandleDeviceKeyOk, ReceiverMessageState
    <3>3. CASE rSaved # NoRecord
      <4>1. rSaved \in TransferInfo /\ rInfo' = rSaved
        BY <1>3, <3>3 DEF RHandleDeviceKeyOk
      <4> QED BY <1>3, <3>1, <4>1, <3>3
          DEF RHandleDeviceKeyOk, ReceiverMessageState, TransferInfo, Path
    <3> QED BY <3>2, <3>3
  <2> QED BY <1>3, <2>1, <2>2 DEF RHandleDeviceKeyOk, KeyInv
<1> QED BY <1>1, <1>2, <1>3


\* A packet is taken out of the channel.
LEMMA PacketSteps ==
  ASSUME IInv, UNCHANGED senderVars,
         RFinishCancel \/ RFinishFile \/ RConfirmPause \/ RRequestNext
  PROVE  IInv'
<1> USE DEF IInv, TypeOK
<1>1. /\ serverState \in {"ENCRYPTED", "UNRECOGNIZED"}
      /\ rMessageState # "MESSAGE"
      /\ Head(toReceiver) \in Message /\ Head(toReceiver).type = "PACKET"
      /\ toReceiver # <<>> /\ toReceiver' = Tail(toReceiver)
  BY TailMessage DEF RFinishCancel, RFinishFile, RConfirmPause, RRequestNext, StoresPacket,
     ReadsPacket, Readable, Fits, LinkTypeOK
<1>2. QuietToSender
  BY QuietWrite DEF RFinishCancel, RFinishFile, RConfirmPause, RRequestNext, SignalType,
     LinkTypeOK, ReceiverTypeOK
<1>3. CASE RFinishCancel
  <2>1. ReceiverTypeOK'
    BY <1>3 DEF RFinishCancel, ReceiverTypeOK, connectionVars, fileVars, ReceiverMessageState
  <2>2. FileInv'
    BY <1>3 DEF RFinishCancel, FileInv, ReceiverTypeOK, fileVars
  <2> QED BY <1>1, <1>2, <1>3, <2>1, <2>2, TransferStep DEF RFinishCancel
<1>4. ASSUME StoresPacket, RFinishFile \/ RConfirmPause \/ RRequestNext PROVE IInv'
  <2>1. /\ disk' \in [Path -> Content \union {Absent}]
        /\ currentOpen = "open" => disk'[currentPath] # Absent
    BY <1>1, <1>4, PacketStored DEF StoresPacket
  <2>2. /\ rInfo' \in [folder : Folder, name : Name \union {NoName}, size : Nat, packetNumber : Nat]
        /\ rInfo'.name = rInfo.name /\ rInfo.name \in Name
    BY <1>1, <1>4 DEF StoresPacket, ReceiverTypeOK, FileInv
  <2>3. ReceiverTypeOK' /\ FileInv'
    <3>1. CASE RFinishFile
      <4>1. currentOpen' = "closed" /\ rMessageState' = "MESSAGE"
        BY <3>1 DEF RFinishFile
      <4>2. FileInv'
        BY <1>4, <2>2, <4>1 DEF StoresPacket, FileInv
      <4>3. completed' \subseteq Path \X Name
        BY <3>1, <2>2, <1>1 DEF RFinishFile, ReceiverTypeOK, FileInv
      <4> QED BY <1>4, <2>1, <2>2, <3>1, <4>1, <4>2, <4>3 DEF StoresPacket, RFinishFile,
              ReceiverTypeOK, ReceiverMessageState, connectionVars
    <3>2. CASE RConfirmPause \/ RRequestNext
      <4>1. FileInv'
        BY <1>4, <2>1, <2>2, <3>2 DEF StoresPacket, RConfirmPause, RRequestNext, FileInv
      <4> QED BY <1>4, <2>1, <2>2, <3>2, <4>1 DEF StoresPacket, RConfirmPause, RRequestNext,
              ReceiverTypeOK, connectionVars
    <3> QED BY <1>4, <3>1, <3>2
  <2> QED BY <1>1, <1>2, <1>4, <2>3, TransferStep DEF StoresPacket
<1> QED BY <1>3, <1>4 DEF RFinishFile, RConfirmPause, RRequestNext

\* What the user does to a transfer.
LEMMA UserSteps ==
  ASSUME IInv, UNCHANGED senderVars,
         \/ PauseFileTransfer \/ ResumeFileTransfer \/ CancelFileTransfer
         \/ CreateWithoutName \/ SendFileError \/ \E folder \in Folder : SetFilePath(folder)
  PROVE  IInv'
<1> USE DEF IInv, TypeOK
<1>1. UNCHANGED <<conn, listening, stale, toReceiver, connectionVars, rTrusts>>
  BY DEF PauseFileTransfer, ResumeFileTransfer, CancelFileTransfer, CreateWithoutName,
     SendFileError, SetFilePath, linkVars
<1>2. serverState \in {"ENCRYPTED", "UNRECOGNIZED"}
  BY DEF PauseFileTransfer, ResumeFileTransfer, CancelFileTransfer, CreateWithoutName,
     SendFileError, SetFilePath, OnReceiverPage, ReceiverInv
<1>3. QuietToSender
  BY QuietWrite DEF PauseFileTransfer, ResumeFileTransfer, CancelFileTransfer, CreateWithoutName,
     SendFileError, SetFilePath, linkVars, LinkTypeOK, ReceiverTypeOK, SignalType
<1>4. SUFFICES ReceiverTypeOK' /\ FileInv'
  BY <1>1, <1>2, <1>3, TransferStep
<1> USE DEF ReceiverTypeOK, FileInv, ReceiverMessageState, connectionVars, fileVars, OnReceiverPage
<1>5. CASE PauseFileTransfer
  BY <1>5 DEF PauseFileTransfer
<1>6. CASE ResumeFileTransfer
  <2>1. rInfo.name \in Name /\ rMessageState' = "FILE_SENDING" /\ popup = "none"
    BY <1>6 DEF ResumeFileTransfer
  <2>2. CASE currentOpen' = "open" /\ OpenToAppend
    <3>1. disk' \in [Path -> Content \union {Absent}]
      BY <2>2, EmptyFile DEF OpenToAppend
    <3>2. currentPath \in Path => disk'[currentPath] # Absent
      BY <2>2, EmptyFile DEF OpenToAppend
    <3>3. currentPath \in Path
      BY <1>6 DEF ResumeFileTransfer
    <3> QED BY <1>6, <2>1, <2>2, <3>1, <3>2, <3>3 DEF ResumeFileTransfer
  <2>3. CASE currentOpen' = "closed" /\ UNCHANGED disk
    BY <1>6, <2>1, <2>3 DEF ResumeFileTransfer
  <2> QED BY <1>6, <2>2, <2>3 DEF ResumeFileTransfer
<1>7. CASE CancelFileTransfer
  <2>1. disk' \in [Path -> Content \union {Absent}]
    BY <1>7 DEF CancelFileTransfer
  <2> QED BY <1>7, <2>1 DEF CancelFileTransfer
<1>8. CASE CreateWithoutName
  BY <1>8 DEF CreateWithoutName
<1>9. CASE SendFileError
  BY <1>9 DEF SendFileError
<1>10. ASSUME NEW folder \in Folder, SetFilePath(folder) PROVE ReceiverTypeOK' /\ FileInv'
  BY <1>10 DEF SetFilePath
<1> QED BY <1>5, <1>6, <1>7, <1>8, <1>9, <1>10

\* A file is created, under the Sender's name or the user's.
LEMMA CreateSteps ==
  ASSUME IInv, UNCHANGED senderVars,
         RHandleFileInfo \/ \E name \in Name : CreateUnderAnotherName(name)
  PROVE  IInv'
<1> USE DEF IInv, TypeOK
<1>1. CASE RHandleFileInfo
  <2> DEFINE info == Head(toReceiver)
  <2>1. /\ serverState \in {"ENCRYPTED", "UNRECOGNIZED"}
        /\ toReceiver # <<>> /\ toReceiver' = Tail(toReceiver)
        /\ info \in Message /\ info.type = "FILE_INFO"
    BY <1>1, TailMessage DEF RHandleFileInfo, Receives, NextMessage, Readable, LinkTypeOK
  <2>2. info.size \in Nat /\ info.name \in Name
    BY <2>1, MessageFields
  <2>3. <<rInfo.folder, info.name>> \in Path /\ CreateFile(<<rInfo.folder, info.name>>)
    BY <1>1, <2>2 DEF RHandleFileInfo, Path, ReceiverTypeOK
  <2>4. /\ rInfo' \in [folder : Folder, name : Name \union {NoName}, size : Nat, packetNumber : Nat]
        /\ rInfo'.name \in Name
    BY <1>1, <2>2 DEF RHandleFileInfo, ReceiverTypeOK
  <2> HIDE DEF info
  <2>5. ReceiverTypeOK' /\ FileInv' /\ QuietToSender
    BY <1>1, <2>3, <2>4, FileCreated DEF RHandleFileInfo, LinkTypeOK, ReceiverTypeOK, FileInv,
       ReceiverMessageState, connectionVars
  <2> QED BY <1>1, <2>1, <2>5, TransferStep DEF RHandleFileInfo
<1>2. ASSUME NEW name \in Name, CreateUnderAnotherName(name) PROVE IInv'
  <2>1. rInfo.name \in Name /\ serverState \in {"ENCRYPTED", "UNRECOGNIZED"}
    BY <1>2 DEF CreateUnderAnotherName, FileInv, ReceiverInv
  <2>2. <<rInfo.folder, name>> \in Path /\ CreateFile(<<rInfo.folder, name>>)
    BY <1>2 DEF CreateUnderAnotherName, Path, ReceiverTypeOK
  <2>3. ReceiverTypeOK' /\ FileInv' /\ QuietToSender
    BY <1>2, <2>1, <2>2, FileCreated DEF CreateUnderAnotherName, LinkTypeOK, ReceiverTypeOK,
       FileInv, ReceiverMessageState, connectionVars
  <2> QED BY <1>2, <2>1, <2>3, TransferStep DEF CreateUnderAnotherName
<1> QED BY <1>1, <1>2

\* Every step of the Receiver keeps the invariant.
LEMMA ReceiverKeeps ==
  ASSUME IInv, ReceiverStep, UNCHANGED senderVars
  PROVE  IInv'
<1> USE DEF IInv, TypeOK, LinkTypeOK, SenderTypeOK, ReceiverTypeOK, FileInv, SenderInv,
        ReceiverInv, KeyInv, ServerConsistent, linkVars, senderVars, connectionVars, fileVars
<1>1. CASE StartServer
  BY <1>1 DEF StartServer, ServerState, ReceiverMessageState
<1>2. CASE IncomingConnection
  BY <1>2, EmptyMessage DEF IncomingConnection, ServerState
<1>3. CASE RHandleText
  BY <1>3, TailMessage DEF RHandleText, Receives, NextMessage, Readable, receiverVars
<1>4. CASE Misread
  BY <1>4 DEF Misread
<1>5. CASE RSuspend
  BY <1>5, RecordTyped DEF RSuspend
<1>6. CASE RRegister
  BY <1>6 DEF RRegister
<1>7. CASE RCrash \/ RQuit
  <2>1. RRestart /\ rSaved' \in TransferInfo \union {NoRecord}
    BY <1>7, RecordTyped DEF RCrash, RQuit
  <2>2. ReceiverTypeOK' /\ FileInv'
    BY <2>1, ReceiverAssumption DEF RRestart, NoTransfer, ServerState, ReceiverMessageState
  <2>3. toSender' \in Seq(Message) /\ (toSender = <<>> => toSender' = <<>>)
    BY <2>1, PrefixMessage DEF RRestart, ServerCrash, Surviving, Prefixes
  <2>4. LinkTypeOK'
    BY <2>1, <2>3, EmptyMessage DEF RRestart, ServerCrash
  <2>5. SenderInv'
    BY <2>1, <2>3 DEF RRestart, ServerCrash
  <2>6. ReceiverInv' /\ KeyInv'
    BY <2>1 DEF RRestart, ServerCrash
  <2> QED BY <2>2, <2>4, <2>5, <2>6
<1> QED BY <1>1, <1>2, <1>3, <1>4, <1>5, <1>6, <1>7, ServerStops, KeySteps, PacketSteps,
        UserSteps, CreateSteps DEF ReceiverStep, ReceiverUser, ReceiverHandlers

-----------------------------------------------------------------------------
(* Steps of the Sender and of the network.                                 *)

\* A write by the Sender, which says nothing about keys being right unless it
\* is DEVICE_KEY_OK.
LEMMA SenderWrites ==
  ASSUME IInv, UNCHANGED receiverVars,
         UNCHANGED <<conn, listening, stale, clientState, sTimer, sPage, sTrusts>>,
         UNCHANGED toSender \/ (toSender # <<>> /\ toSender' = Tail(toSender)),
         SenderTypeOK',
         \/ UNCHANGED toReceiver
         \/ \E m \in Message : SendToReceiver(m) /\ m.type # "DEVICE_KEY_OK"
  PROVE  IInv'
<1> USE DEF IInv, TypeOK, LinkTypeOK
<1>1. /\ toReceiver' \in Seq(Message)
      /\ conn # "accepted" => toReceiver' = toReceiver
      /\ Has(toReceiver', "DEVICE_KEY_OK") => Has(toReceiver, "DEVICE_KEY_OK")
  <2>1. ASSUME NEW m \in Message, SendToReceiver(m), m.type # "DEVICE_KEY_OK"
        PROVE  /\ toReceiver' \in Seq(Message)
               /\ conn # "accepted" => toReceiver' = toReceiver
               /\ Has(toReceiver', "DEVICE_KEY_OK") => Has(toReceiver, "DEVICE_KEY_OK")
    BY <2>1, WriteToReceiver
  <2> QED BY <2>1
<1>2. toSender' \in Seq(Message) /\ \A t : Has(toSender', t) => Has(toSender, t)
  BY TailMessage
<1>3. toSender = <<>> => toSender' = <<>>
  OBVIOUS
<1>4. TypeOK' /\ FileInv'
  BY <1>1, <1>2 DEF ReceiverTypeOK, FileInv, receiverVars, connectionVars, fileVars
<1>5. SenderInv' /\ ReceiverInv' /\ KeyInv'
  BY <1>1, <1>2, <1>3
  DEF SenderInv, ReceiverInv, ServerConsistent, KeyInv, receiverVars, connectionVars,
     fileVars
<1> QED BY <1>4, <1>5

\* Every step of the Sender keeps the invariant.
LEMMA SenderKeeps ==
  ASSUME IInv, SenderStep, UNCHANGED receiverVars
  PROVE  IInv'
<1> USE DEF IInv, TypeOK, LinkTypeOK, SenderTypeOK
<1>1. CASE SendTextMessage
  <2>1. Signal("TEXT") \in Message /\ Signal("TEXT").type = "TEXT"
    BY MessageKinds DEF SignalType
  <2> QED BY <1>1, <2>1, SenderWrites DEF SendTextMessage, senderVars
<1>2. ASSUME NEW f \in File, SendFile(f) PROVE IInv'
  <2>1. FileInfo(f) \in Message /\ FileInfo(f).type = "FILE_INFO"
    BY MessageKinds
  <2>2. SenderTypeOK'
    BY <1>2 DEF SendFile, SenderMessageState
  <2> QED BY <1>2, <2>1, <2>2, SenderWrites DEF SendFile
<1>3. CASE SHandleKeyRequest
  <2>1. Signal("DEVICE_KEY") \in Message /\ Signal("DEVICE_KEY").type = "DEVICE_KEY"
    BY MessageKinds DEF SignalType
  <2> QED BY <1>3, <2>1, SenderWrites DEF SHandleKeyRequest, Reads, senderVars
<1>4. CASE SHandleFilePacket
  <2> DEFINE n == Head(toSender).packet
  <2>1. n \in Nat /\ toSender # <<>> /\ toSender' = Tail(toSender)
    BY <1>4, TailMessage, MessageFields DEF SHandleFilePacket, Reads
  <2>2. CASE UNCHANGED toReceiver
    BY <1>4, <2>1, <2>2, SenderWrites DEF SHandleFilePacket, senderVars
  <2>3. CASE sFile # NoFile /\ SendToReceiver(Packet(sFile, n))
    <3>1. Packet(sFile, n) \in Message /\ Packet(sFile, n).type = "PACKET"
      BY <2>1, <2>3, MessageKinds
    <3> HIDE DEF n
    <3> QED BY <1>4, <2>1, <2>3, <3>1, SenderWrites DEF SHandleFilePacket, senderVars
  <2> QED BY <1>4, <2>2, <2>3 DEF SHandleFilePacket
<1>5. CASE SHandleCancel \/ SHandleFileSuccess \/ SHandleFileError \/ SHandlePause
  BY <1>5, SenderWrites DEF SHandleCancel, SHandleFileSuccess, SHandleFileError, SHandlePause,
     FileDone, Reads, SenderMessageState
<1> USE DEF ReceiverTypeOK, FileInv, SenderInv, ReceiverInv, KeyInv, ServerConsistent, ClientState,
        SenderMessageState, linkVars, receiverVars, connectionVars, fileVars
<1>6. CASE SHandleDeviceKey
  <2>1. /\ clientState \in {"ENCRYPTED", "UNRECOGNIZED"}
        /\ Has(toSender, "DEVICE_KEY")
        /\ toSender' \in Seq(Message)
        /\ \A t : Has(toSender', t) => Has(toSender, t)
    BY <1>6, TailMessage DEF SHandleDeviceKey, Reads
  <2>2. CASE SKeyRegistered /\ SendToReceiver(Signal("DEVICE_KEY_OK")) /\ sPage' = "sender"
    <3>1. Signal("DEVICE_KEY_OK") \in Message
      BY MessageKinds DEF SignalType
    <3>2. toReceiver' \in Seq(Message) /\ (conn # "accepted" => toReceiver' = toReceiver)
      BY <2>2, <3>1, WriteToReceiver
    <3> QED BY <1>6, <2>1, <2>2, <3>2 DEF SHandleDeviceKey, SKeyRegistered
  <2>3. CASE SendToReceiver(Signal("ERROR")) /\ UNCHANGED <<sPage, sFile, sMessageState, sRows>>
    <3>1. Signal("ERROR") \in Message /\ Signal("ERROR").type = "ERROR"
      BY MessageKinds DEF SignalType
    <3>2. /\ toReceiver' \in Seq(Message)
          /\ conn # "accepted" => toReceiver' = toReceiver
          /\ Has(toReceiver', "DEVICE_KEY_OK") => Has(toReceiver, "DEVICE_KEY_OK")
      BY <2>3, <3>1, WriteToReceiver
    <3> QED BY <1>6, <2>1, <2>3, <3>2 DEF SHandleDeviceKey
  <2> QED BY <1>6, <2>2, <2>3 DEF SHandleDeviceKey
<1>7. CASE SHandleError
  BY <1>7, TailMessage DEF SHandleError, Reads
<1>8. CASE SOpenWaitingPage \/ ConnectToReceiver \/ SocketConnected \/ SocketError
  BY <1>8 DEF SOpenWaitingPage, ConnectToReceiver, SocketConnected, SocketError, senderVars
<1>9. CASE SSocketReady
  BY <1>9 DEF SSocketReady
<1>10. CASE SRegister
  BY <1>10 DEF SRegister
<1>11. CASE SSuspend
  BY <1>11 DEF SSuspend, SSaveFileTransferInfo
<1>12. CASE SSocketDisconnected
  BY <1>12, EmptyMessage DEF SSocketDisconnected, SLeave, SSaveFileTransferInfo
<1>13. CASE SEncryptingTimeout \/ SCrash \/ SQuit \/ (SBack /\ clientState # "DISCONNECTED")
  <2>1. ClientAbort /\ UNCHANGED listening /\ clientState' = "DISCONNECTED" /\ sTimer' = "off"
        /\ sPage' \in {"start", "error"} /\ SenderTypeOK'
    BY <1>13
    DEF SEncryptingTimeout, SCrash, SQuit, SRestart, SBack, SLeave, SSaveFileTransferInfo
  <2>2. toReceiver' \in Seq(Message) /\ (toReceiver = <<>> => toReceiver' = <<>>)
    BY <2>1, PrefixMessage DEF ClientAbort, Surviving, Prefixes
  <2> QED BY <2>1, <2>2, EmptyMessage DEF ClientAbort
<1>14. CASE SBack /\ clientState = "DISCONNECTED"
  BY <1>14 DEF SBack
<1> QED BY <1>1, <1>2, <1>3, <1>4, <1>5, <1>6, <1>7, <1>8, <1>9, <1>10, <1>11, <1>12, <1>13, <1>14
    DEF SenderStep, SenderUser, SenderHandlers

-----------------------------------------------------------------------------
(* The invariant and what follows from it.                                 *)

\* Every initial state satisfies the invariant.
LEMMA Initially ==
  ASSUME Init
  PROVE  IInv
<1> USE DEF Init, LinkInit, SenderInit, ReceiverInit
<1>1. LinkTypeOK
  BY EmptyMessage DEF LinkTypeOK
<1>2. SenderTypeOK
  BY DEF SenderTypeOK, ClientState, SenderMessageState
<1>3. ReceiverTypeOK
  <2>1. Old \in Content
    BY DEF Old, Content, Chunk
  <2> QED BY <2>1, ReceiverAssumption
      DEF ReceiverTypeOK, ServerState, ReceiverMessageState, NoTransfer
<1>4. FileInv /\ SenderInv /\ ReceiverInv /\ KeyInv
  BY DEF FileInv, SenderInv, ReceiverInv, ServerConsistent, KeyInv
<1> QED BY <1>1, <1>2, <1>3, <1>4 DEF IInv, TypeOK

\* Every step keeps it.
LEMMA Kept ==
  ASSUME IInv, [Next]_vars
  PROVE  IInv'
<1>1. CASE LinkDrop /\ UNCHANGED <<senderVars, receiverVars>>
  <2>1. toSender' \in Seq(Message) /\ toReceiver' \in Seq(Message)
    BY <1>1, PrefixMessage DEF LinkDrop, IInv, TypeOK, LinkTypeOK
  <2> QED BY <1>1, <2>1 DEF LinkDrop, IInv, TypeOK, LinkTypeOK, SenderTypeOK, ReceiverTypeOK,
          FileInv, SenderInv, ReceiverInv, KeyInv, ServerConsistent, senderVars, receiverVars,
          connectionVars, fileVars
<1>2. CASE UNCHANGED vars
  BY <1>2 DEF vars, linkVars, senderVars, receiverVars, connectionVars, fileVars, IInv, TypeOK,
     LinkTypeOK, SenderTypeOK, ReceiverTypeOK, FileInv, SenderInv, ReceiverInv, KeyInv,
     ServerConsistent
<1> QED BY <1>1, <1>2, SenderKeeps, ReceiverKeeps DEF Next

\* IInv holds in every reachable state.
THEOREM Invariance == Spec => []IInv
<1>1. Init => IInv
  BY Initially
<1>2. IInv /\ [Next]_vars => IInv'
  BY Kept
<1> QED BY <1>1, <1>2, PTL DEF Spec

\* Every variable keeps its type.
THEOREM TypeCorrect == Spec => []TypeOK
<1>1. IInv => TypeOK
  BY DEF IInv
<1> QED BY <1>1, Invariance, PTL

\* On a live connection the Receiver shows a session only after the Sender,
\* and the Sender only when each device has the other's key: the four-message
\* exchange in handleReadyRead verifies both keys, whatever the links lose.
THEOREM KeysVerified == Spec => []KeyVerification
<1>1. IInv => KeyVerification
  BY DEF IInv, KeyInv, KeyVerification
<1> QED BY <1>1, Invariance, PTL

\* The server's state always tells whether it has a socket, which stopServer
\* dereferences, and whether it listens.
THEOREM ServerNeverDrifts == Spec => []ServerConsistent
<1>1. IInv => ServerConsistent
  BY DEF IInv, ReceiverInv
<1> QED BY <1>1, Invariance, PTL

\* No encryption timer runs into a session.
THEOREM TimersStop == Spec => []TimersStopWithHandshake
<1>1. IInv => TimersStopWithHandshake
  BY DEF IInv, SenderInv, ReceiverInv, TimersStopWithHandshake
<1> QED BY <1>1, Invariance, PTL

\* A device that shows the start page holds no connection and no open file.
THEOREM StartPageIdle == Spec => []StartPageIsIdle
<1>1. IInv => StartPageIsIdle
  BY DEF IInv, SenderInv, ReceiverInv, StartPageIsIdle
<1> QED BY <1>1, Invariance, PTL

-----------------------------------------------------------------------------
(* Key verification, as module Pairing specifies it.                       *)

\* While the connection is up a device leaves the session only with it.
LEMMA SessionSteps ==
  ASSUME IInv, Next, conn' = "accepted"
  PROVE  \/ UNCHANGED <<conn, rPage, sPage>>
         \/ conn = "accepted" /\ SHandleDeviceKey /\ UNCHANGED receiverVars
         \/ conn = "accepted" /\ RHandleDeviceKeyOk /\ UNCHANGED senderVars
         \/ conn = "pending" /\ UNCHANGED <<rPage, sPage>>
<1> USE DEF IInv, SenderInv, ReceiverInv, ServerConsistent, linkVars, senderVars, receiverVars,
        connectionVars
<1>1. CASE LinkDrop /\ UNCHANGED <<senderVars, receiverVars>>
  BY <1>1 DEF LinkDrop
<1>2. CASE SenderStep /\ UNCHANGED receiverVars
  BY <1>2 DEF SenderStep, SenderUser, SenderHandlers, SOpenWaitingPage, ConnectToReceiver, SBack,
     SendTextMessage, SendFile, SRegister, SocketConnected, SSocketReady, SSocketDisconnected,
     SHandleKeyRequest, SHandleError, SHandleFilePacket, SHandleCancel, SHandleFileSuccess,
     SHandleFileError, SHandlePause, FileDone, SocketError, SEncryptingTimeout, SSuspend, SCrash,
     SQuit, SRestart, ClientAbort, SHandleDeviceKey
<1>3. CASE ReceiverStep /\ UNCHANGED senderVars
  <2>1. CASE \/ RSocketDisconnected \/ RHandleError \/ REncryptingTimeout \/ RBack
             \/ RCrash \/ RQuit
    BY <2>1 DEF RSocketDisconnected, RHandleError, REncryptingTimeout, RBack, StopServer,
       ServerAbort, CloseListener, RCrash, RQuit, RRestart, ServerCrash
  <2>2. CASE StartServer \/ IncomingConnection
    BY <1>3, <2>2 DEF StartServer, IncomingConnection
  <2>3. ASSUME NEW folder \in Folder, SetFilePath(folder) PROVE UNCHANGED <<conn, rPage, sPage>>
    BY <1>3, <2>3, Zenon DEF SetFilePath
  <2>4. ASSUME NEW name \in Name, CreateUnderAnotherName(name)
        PROVE  UNCHANGED <<conn, rPage, sPage>>
    BY <1>3, <2>4, Zenon DEF CreateUnderAnotherName
  <2>5. CASE \/ PauseFileTransfer \/ ResumeFileTransfer \/ CancelFileTransfer
             \/ CreateWithoutName \/ SendFileError \/ RRegister \/ RSuspend
    BY <1>3, <2>5, Zenon DEF PauseFileTransfer, ResumeFileTransfer, CancelFileTransfer,
       CreateWithoutName, SendFileError, RRegister, RSuspend
  <2>6. CASE \/ RSocketReady \/ RHandleDeviceKey \/ RHandleText \/ RHandleFileInfo
             \/ RFinishCancel \/ RFinishFile \/ RConfirmPause \/ RRequestNext \/ Misread
    BY <1>3, <2>6, Zenon DEF RSocketReady, RHandleDeviceKey, RHandleText, RHandleFileInfo,
       StoresPacket, RFinishCancel, RFinishFile, RConfirmPause, RRequestNext, Misread
  <2>7. CASE RHandleDeviceKeyOk
    BY <1>3, <2>7 DEF RHandleDeviceKeyOk
  <2> QED BY <1>3, <2>1, <2>2, <2>3, <2>4, <2>5, <2>6, <2>7
          DEF ReceiverStep, ReceiverUser, ReceiverHandlers
<1> QED BY <1>1, <1>2, <1>3 DEF Next

\* The lists of keys change only on the start page.
LEMMA RegistrationSteps ==
  ASSUME Next
  PROVE  \/ UNCHANGED <<sTrusts, rTrusts>>
         \/ (sPage = "start" \/ rPage = "start") /\ UNCHANGED <<conn, rPage, sPage>>
            /\ sTrusts' \in {"yes", "no", sTrusts} /\ rTrusts' \in {"yes", "no", rTrusts}
<1> USE DEF senderVars, receiverVars, connectionVars, linkVars
<1>1. CASE SenderStep /\ UNCHANGED receiverVars
  BY <1>1 DEF SenderStep, SenderUser, SenderHandlers, SOpenWaitingPage, ConnectToReceiver, SBack,
     SendTextMessage, SendFile, SRegister, SocketConnected, SSocketReady, SSocketDisconnected,
     SLeave, SHandleDeviceKey, SHandleKeyRequest, SHandleError, SHandleFilePacket, SHandleCancel,
     SHandleFileSuccess, SHandleFileError, SHandlePause, FileDone, SocketError,
     SEncryptingTimeout, SSuspend, SCrash, SQuit, SRestart
<1>2. CASE ReceiverStep /\ UNCHANGED senderVars
  <2>1. ASSUME NEW folder \in Folder, SetFilePath(folder) PROVE UNCHANGED <<sTrusts, rTrusts>>
    BY <1>2, <2>1, Zenon DEF SetFilePath
  <2>2. ASSUME NEW name \in Name, CreateUnderAnotherName(name)
        PROVE  UNCHANGED <<sTrusts, rTrusts>>
    BY <1>2, <2>2, Zenon DEF CreateUnderAnotherName
  <2>3. CASE \/ PauseFileTransfer \/ ResumeFileTransfer \/ CancelFileTransfer
             \/ CreateWithoutName \/ SendFileError \/ RSuspend
    BY <1>2, <2>3, Zenon DEF PauseFileTransfer, ResumeFileTransfer, CancelFileTransfer,
       CreateWithoutName, SendFileError, RSuspend
  <2>4. CASE \/ RSocketReady \/ RHandleDeviceKey \/ RHandleText \/ RHandleFileInfo
             \/ RFinishCancel \/ RFinishFile \/ RConfirmPause \/ RRequestNext \/ Misread
    BY <1>2, <2>4, Zenon DEF RSocketReady, RHandleDeviceKey, RHandleText, RHandleFileInfo,
       StoresPacket, RFinishCancel, RFinishFile, RConfirmPause, RRequestNext, Misread
  <2>5. CASE \/ RSocketDisconnected \/ RHandleError \/ REncryptingTimeout \/ RBack
             \/ RCrash \/ RQuit
    BY <1>2, <2>5, Zenon DEF RSocketDisconnected, RHandleError, REncryptingTimeout, RBack,
       StopServer, RCrash, RQuit, RRestart
  <2>6. CASE StartServer \/ IncomingConnection \/ RHandleDeviceKeyOk
    BY <1>2, <2>6, Zenon DEF StartServer, IncomingConnection, RHandleDeviceKeyOk
  <2>7. CASE RRegister
    BY <1>2, <2>7 DEF RRegister
  <2> QED BY <1>2, <2>1, <2>2, <2>3, <2>4, <2>5, <2>6, <2>7
          DEF ReceiverStep, ReceiverUser, ReceiverHandlers
<1> QED BY <1>1, <1>2 DEF Next

\* LuminT implements key verification: a session opens at the Sender, then at
\* the Receiver, only between devices that know each other, and ends for both.
THEOREM PairingImplemented == Spec => SessionsOpenInOrder
<1>1. Init => Keys!Init
  BY DEF Init, LinkInit, SenderInit, ReceiverInit, Keys!Init, Session
<1>2. IInv /\ IInv' /\ [Next]_vars => [Keys!Next]_(Keys!vars)
  <2> SUFFICES ASSUME IInv, IInv', [Next]_vars PROVE [Keys!Next]_(Keys!vars)
    OBVIOUS
  <2> USE DEF Keys!Next, Keys!SenderOpens, Keys!ReceiverOpens, Keys!End, Keys!Register, Keys!vars
  <2>1. CASE UNCHANGED vars
    BY <2>1 DEF vars, linkVars, senderVars, receiverVars, connectionVars, Session
  <2>2. CASE Next /\ ~UNCHANGED <<sTrusts, rTrusts>>
    <3>1. /\ sPage = "start" \/ rPage = "start"
          /\ UNCHANGED <<conn, rPage, sPage>>
      BY <2>2, RegistrationSteps
    <3>2. Session = "nobody" /\ Session' = "nobody"
      BY <3>1 DEF Session, IInv, SenderInv, ReceiverInv, KeyInv
    <3>3. sTrusts' \in {"yes", "no"} /\ rTrusts' \in {"yes", "no"}
      BY DEF IInv, TypeOK, SenderTypeOK, ReceiverTypeOK
    <3> QED BY <3>2, <3>3
  <2>3. CASE Next /\ UNCHANGED <<sTrusts, rTrusts>> /\ conn' # "accepted"
    BY <2>3 DEF Session
  <2>4. CASE Next /\ UNCHANGED <<sTrusts, rTrusts>> /\ conn' = "accepted"
    <3>1. CASE UNCHANGED <<conn, rPage, sPage>>
      BY <2>4, <3>1 DEF Session
    <3>2. CASE conn = "accepted" /\ SHandleDeviceKey /\ UNCHANGED receiverVars
      <4>1. Has(toSender, "DEVICE_KEY") /\ UNCHANGED rPage /\ rTrusts = "yes"
        BY <3>2, TailMessage DEF SHandleDeviceKey, Reads, IInv, TypeOK, LinkTypeOK, KeyInv,
           receiverVars, connectionVars
      <4>2. sPage' \in {sPage, "sender"} /\ (sPage' # sPage => sTrusts = "yes")
        BY <3>2 DEF SHandleDeviceKey, SKeyRegistered
      <4> QED BY <2>4, <3>2, <4>1, <4>2 DEF Session, IInv, KeyInv
    <3>3. CASE conn = "accepted" /\ RHandleDeviceKeyOk /\ UNCHANGED senderVars
      <4>1. Has(toReceiver, "DEVICE_KEY_OK") /\ UNCHANGED sPage /\ rPage' = "receiver"
        BY <3>3, TailMessage DEF RHandleDeviceKeyOk, Receives, NextMessage, Readable, IInv, TypeOK,
           LinkTypeOK, senderVars
      <4>2. sPage = "sender"
        BY <3>3, <4>1 DEF IInv, KeyInv
      <4> QED BY <2>4, <3>3, <4>1, <4>2 DEF Session
    <3>4. CASE conn = "pending" /\ UNCHANGED <<rPage, sPage>>
      <4>1. rPage # "receiver" /\ sPage # "sender"
        BY <3>4 DEF IInv, SenderInv, ReceiverInv
      <4> QED BY <2>4, <3>4, <4>1 DEF Session
    <3> QED BY <2>4, <3>1, <3>2, <3>3, <3>4, SessionSteps
  <2> QED BY <2>1, <2>2, <2>3, <2>4
<1> QED BY <1>1, <1>2, Invariance, PTL DEF Spec, SessionsOpenInOrder, Keys!Spec

-----------------------------------------------------------------------------
(* Channels: the order of messages in one, and what writing, reading and   *)
(* cutting do to it.                                                       *)

\* What the Receiver writes: key verification, the messages that end a
\* transfer, and all that are about a transfer.
KeyTalk == {"REQUEST_DEVICE_KEY", "DEVICE_KEY", "ERROR"}
Ending == {"CANCEL_FILE_TRANSFER", "FILE_SUCCESS", "FILE_ERROR"}
FileTalk == Ending \union {"PAUSE_FILE_TRANSFER", "FILE_PACKET"}

\* What the Sender writes; the first of each pair stands alone in the channel.
Alone == {"DEVICE_KEY", "ERROR", "PACKET"}
Queued == {"DEVICE_KEY_OK", "TEXT", "FILE_INFO"}

\* The order of messages in a channel: only a pause may be followed by another
\* message to the Sender; nothing follows FILE_INFO to the Receiver.
SenderShape(ch) ==
  \A i \in 1 .. Len(ch) :
    /\ ch[i].type \in KeyTalk \union FileTalk
    /\ ch[i].type # "PAUSE_FILE_TRANSFER" => i = Len(ch)
    /\ ch[i].type \in KeyTalk => Len(ch) = 1

ReceiverShape(ch) ==
  \A i \in 1 .. Len(ch) :
    /\ ch[i].type \in Alone \union Queued
    /\ ch[i].type \in Alone => Len(ch) = 1
    /\ ch[i].type = "FILE_INFO" => i = Len(ch)
    /\ ch[i].type = "DEVICE_KEY_OK" => i = 1

\* The packets asked for and the files and packets sent are these.
PacketAsked(ch, n) ==
  \A i \in 1 .. Len(ch) : ch[i].type = "FILE_PACKET" => ch[i].packet = n

IsOf(m, f, n) ==
  /\ m.type = "FILE_INFO" => m = FileInfo(f)
  /\ m.type = "PACKET" => m = Packet(f, n)

Carries(ch, f, n) == \A i \in 1 .. Len(ch) : IsOf(ch[i], f, n)

\* p holds only messages of ch, none of them later than it was.
Part(p, ch) == \A i \in 1 .. Len(p) : \E j \in 1 .. Len(ch) : p[i] = ch[j]

\* The first message and the rest.
LEMMA FirstAndRest ==
  ASSUME NEW ch \in Seq(Message), ch # <<>>
  PROVE  /\ Len(ch) \in Nat \ {0} /\ Head(ch) = ch[1] /\ Head(ch) \in Message
         /\ Tail(ch) \in Seq(Message) /\ Len(Tail(ch)) = Len(ch) - 1
         /\ \A i \in 1 .. Len(Tail(ch)) : Tail(ch)[i] = ch[i + 1]
         /\ Len(ch) = 1 => Tail(ch) = <<>>
<1> DEFINE rest == Tail(ch)
<1>1. Len(ch) \in Nat \ {0} /\ Head(ch) = ch[1]
  BY EmptySeq
<1>2. /\ Head(ch) \in Message /\ rest \in Seq(Message) /\ Len(rest) = Len(ch) - 1
      /\ \A i \in 1 .. Len(rest) : rest[i] = ch[i + 1]
  BY HeadTailProperties
<1>3. \A s \in Seq(Message) : s # <<>> => Len(s) \in Nat \ {0}
  BY EmptySeq
<1> HIDE DEF rest
<1>4. Len(ch) = 1 => rest = <<>>
  BY <1>2, <1>3
<1> QED BY <1>1, <1>2, <1>4 DEF rest

\* What is left when a message was read is of the same shape and has only
\* messages that were there.
LEMMA TailShape ==
  ASSUME NEW ch \in Seq(Message), ch # <<>>
  PROVE  /\ Part(Tail(ch), ch)
         /\ \A t : t # Head(ch).type /\ Has(ch, t) => Has(Tail(ch), t)
         /\ SenderShape(ch) => SenderShape(Tail(ch))
         /\ ReceiverShape(ch) => ReceiverShape(Tail(ch)) /\ ~Has(Tail(ch), "DEVICE_KEY_OK")
<1> DEFINE rest == Tail(ch)
<1>1. /\ Len(ch) \in Nat /\ Len(rest) = Len(ch) - 1
      /\ \A i \in 1 .. Len(rest) : i + 1 \in 2 .. Len(ch) /\ rest[i] = ch[i + 1]
  BY FirstAndRest
<1> HIDE DEF rest
<1>2. Part(rest, ch)
  BY <1>1 DEF Part
<1>3. ASSUME SenderShape(ch) PROVE SenderShape(rest)
  <2> SUFFICES ASSUME NEW i \in 1 .. Len(rest)
               PROVE  /\ rest[i].type \in KeyTalk \union FileTalk
                      /\ rest[i].type # "PAUSE_FILE_TRANSFER" => i = Len(rest)
                      /\ rest[i].type \notin KeyTalk
    BY DEF SenderShape
  <2>1. i + 1 \in 1 .. Len(ch) /\ i + 1 # 1 /\ rest[i] = ch[i + 1]
    BY <1>1
  <2>2. /\ ch[i + 1].type \in KeyTalk \union FileTalk
        /\ ch[i + 1].type # "PAUSE_FILE_TRANSFER" => i + 1 = Len(ch)
        /\ ch[i + 1].type \in KeyTalk => Len(ch) = 1
    BY <1>3, <2>1 DEF SenderShape
  <2> QED BY <1>1, <2>1, <2>2
<1>4. ASSUME ReceiverShape(ch) PROVE ReceiverShape(rest) /\ ~Has(rest, "DEVICE_KEY_OK")
  <2>1. ASSUME NEW i \in 1 .. Len(rest)
        PROVE  /\ rest[i].type \in Alone \union Queued
               /\ rest[i].type \notin Alone
               /\ rest[i].type = "FILE_INFO" => i = Len(rest)
               /\ rest[i].type # "DEVICE_KEY_OK"
    <3>1. i + 1 \in 1 .. Len(ch) /\ i + 1 # 1 /\ rest[i] = ch[i + 1]
      BY <1>1, <2>1
    <3>2. /\ ch[i + 1].type \in Alone \union Queued
          /\ ch[i + 1].type \in Alone => Len(ch) = 1
          /\ ch[i + 1].type = "FILE_INFO" => i + 1 = Len(ch)
          /\ ch[i + 1].type = "DEVICE_KEY_OK" => i + 1 = 1
      BY <1>4, <3>1 DEF ReceiverShape
    <3> QED BY <1>1, <2>1, <3>1, <3>2
  <2> QED BY <2>1 DEF ReceiverShape, Has
<1>5. ASSUME NEW t, t # Head(ch).type, Has(ch, t) PROVE Has(rest, t)
  <2>1. PICK i \in 1 .. Len(ch) : ch[i].type = t
    BY <1>5 DEF Has
  <2>2. i # 1
    BY <1>5, <2>1, FirstAndRest
  <2>3. i - 1 \in 1 .. Len(rest) /\ (i - 1) + 1 = i
    BY <1>1, <2>2
  <2>4. rest[i - 1] = ch[i]
    BY <1>1, <2>3
  <2> QED BY <2>1, <2>3, <2>4 DEF Has
<1> QED BY <1>2, <1>3, <1>4, <1>5 DEF rest

\* What is left of a channel that was cut.
LEMMA PrefixShape ==
  ASSUME NEW ch \in Seq(Message), NEW p \in Prefixes(ch)
  PROVE  /\ p \in Seq(Message)
         /\ Part(p, ch)
         /\ SenderShape(ch) => SenderShape(p)
         /\ ReceiverShape(ch) => ReceiverShape(p)
         /\ Len(ch) = 1 => p = <<>> \/ p = ch
<1>1. PICK n \in 0 .. Len(ch) : p = SubSeq(ch, 1, n)
  BY DEF Prefixes
<1>2. Len(p) = n /\ \A i \in 1 .. Len(p) : p[i] = ch[i]
  BY <1>1
<1>3. p \in Seq(Message)
  BY PrefixMessage
<1>4. Part(p, ch)
  BY <1>2 DEF Part
<1>5. ASSUME SenderShape(ch) PROVE SenderShape(p)
  BY <1>2, <1>5 DEF SenderShape
<1>6. ASSUME ReceiverShape(ch) PROVE ReceiverShape(p)
  BY <1>2, <1>6 DEF ReceiverShape
<1>7. Len(ch) = 1 => p = <<>> \/ p = ch
  <2>1. n = Len(ch) => p = ch
    BY <1>1, SubSeqFull
  <2>2. n = 0 => p = <<>>
    BY <1>2, <1>3, EmptySeq
  <2> QED BY <1>1, <2>1, <2>2
<1> QED BY <1>3, <1>4, <1>5, <1>6, <1>7

\* A part says nothing new.
LEMMA PartSays ==
  ASSUME NEW ch, NEW p, Part(p, ch)
  PROVE  /\ \A t : Has(p, t) => Has(ch, t)
         /\ \A n : PacketAsked(ch, n) => PacketAsked(p, n)
         /\ \A f, n : Carries(ch, f, n) => Carries(p, f, n)
BY DEF Part, Has, PacketAsked, Carries

\* A channel that has no message of a kind says nothing of what they carry.
LEMMA Silent ==
  ASSUME NEW ch
  PROVE  /\ ~Has(ch, "FILE_PACKET") => \A n : PacketAsked(ch, n)
         /\ ~Has(ch, "PACKET") => \A f, n, k : Carries(ch, f, n) => Carries(ch, f, k)
         /\ ~Has(ch, "PACKET") /\ ~Has(ch, "FILE_INFO") => \A f, n : Carries(ch, f, n)
BY DEF Has, PacketAsked, Carries, IsOf

\* An empty channel.
LEMMA EmptyShape ==
  /\ SenderShape(<<>>) /\ ReceiverShape(<<>>) /\ Len(<<>>) = 0
  /\ \A t : ~Has(<<>>, t)
  /\ \A n : PacketAsked(<<>>, n)
  /\ \A f, n : Carries(<<>>, f, n)
BY DEF SenderShape, ReceiverShape, Has, PacketAsked, Carries

\* What stands alone.
LEMMA LoneMessage ==
  ASSUME NEW ch
  PROVE  /\ ReceiverShape(ch) => \A t \in Alone : Has(ch, t) =>
              Len(ch) = 1 /\ \A u : Has(ch, u) => u = t
         /\ SenderShape(ch) => \A t \in KeyTalk : Has(ch, t) => Len(ch) = 1
BY DEF ReceiverShape, SenderShape, Has

\* A channel that is not empty says something.
LEMMA SaysSomething ==
  ASSUME NEW ch \in Seq(Message), ch # <<>>
  PROVE  /\ SenderShape(ch) => \E t \in KeyTalk \union FileTalk : Has(ch, t)
         /\ ReceiverShape(ch) => \E t \in Alone \union Queued : Has(ch, t)
<1>1. 1 \in 1 .. Len(ch)
  BY FirstAndRest
<1> QED BY <1>1 DEF SenderShape, ReceiverShape, Has

\* Every message but a pause is the last to the Sender.
LEMMA LastToSender ==
  ASSUME NEW ch \in Seq(Message), ch # <<>>, SenderShape(ch),
         Head(ch).type # "PAUSE_FILE_TRANSFER"
  PROVE  Len(ch) = 1 /\ Tail(ch) = <<>> /\ ch[1] = Head(ch)
<1>1. Len(ch) \in Nat /\ Len(ch) > 0 /\ Head(ch) = ch[1]
  BY FirstAndRest
<1>2. Len(ch) = 1
  <2>1. 1 \in 1 .. Len(ch)
    BY <1>1
  <2> QED BY <1>1, <2>1 DEF SenderShape
<1> QED BY <1>1, <1>2, FirstAndRest

\* So is every message but a text and DEVICE_KEY_OK to the Receiver.
LEMMA LastToReceiver ==
  ASSUME NEW ch \in Seq(Message), ch # <<>>, ReceiverShape(ch),
         Head(ch).type \in Alone \union {"FILE_INFO"}
  PROVE  Len(ch) = 1 /\ Tail(ch) = <<>> /\ ch[1] = Head(ch)
<1>1. Len(ch) \in Nat /\ Len(ch) > 0 /\ Head(ch) = ch[1]
  BY FirstAndRest
<1>2. Len(ch) = 1
  <2>1. 1 \in 1 .. Len(ch)
    BY <1>1
  <2> QED BY <1>1, <2>1 DEF ReceiverShape
<1> QED BY <1>1, <1>2, FirstAndRest

\* A channel of one message.
LEMMA OneMessage ==
  ASSUME NEW m \in Message
  PROVE  /\ Append(<<>>, m) = <<m>> /\ Len(<<m>>) = 1 /\ <<m>> # <<>> /\ <<m>>[1] = m
         /\ \A t : Has(<<m>>, t) <=> t = m.type
         /\ m.type \in KeyTalk \union FileTalk => SenderShape(<<m>>)
         /\ m.type \in Alone \union Queued => ReceiverShape(<<m>>)
         /\ \A n : (m.type = "FILE_PACKET" => m.packet = n) => PacketAsked(<<m>>, n)
         /\ \A f, n : IsOf(m, f, n) => Carries(<<m>>, f, n)
BY DEF Has, SenderShape, ReceiverShape, PacketAsked, Carries

\* A message after others.
LEMMA AppendShape ==
  ASSUME NEW ch \in Seq(Message), NEW m \in Message
  PROVE  /\ Append(ch, m) \in Seq(Message) /\ Append(ch, m) # <<>>
         /\ \A t : Has(Append(ch, m), t) <=> Has(ch, t) \/ t = m.type
         /\ \A i \in 1 .. Len(Append(ch, m)) :
              Append(ch, m)[i] = m \/ \E j \in 1 .. Len(ch) : Append(ch, m)[i] = ch[j]
         /\ \A n : PacketAsked(ch, n) /\ (m.type = "FILE_PACKET" => m.packet = n)
                  => PacketAsked(Append(ch, m), n)
         /\ \A f, n : Carries(ch, f, n) /\ IsOf(m, f, n) => Carries(Append(ch, m), f, n)
         /\ /\ SenderShape(ch) /\ m.type \in FileTalk
            /\ \A t \in (KeyTalk \union FileTalk) \ {"PAUSE_FILE_TRANSFER"} : ~Has(ch, t)
            => SenderShape(Append(ch, m))
         /\ /\ ReceiverShape(ch) /\ m.type \in {"TEXT", "FILE_INFO"}
            /\ \A t \in Alone \union {"FILE_INFO"} : ~Has(ch, t)
            => ReceiverShape(Append(ch, m))
<1>1. /\ Len(Append(ch, m)) = Len(ch) + 1 /\ Len(ch) \in Nat
      /\ Append(ch, m)[Len(ch) + 1] = m
      /\ \A i \in 1 .. Len(ch) : Append(ch, m)[i] = ch[i]
      /\ Append(ch, m) \in Seq(Message)
  OBVIOUS
<1>2. \A i \in 1 .. Len(Append(ch, m)) : i = Len(ch) + 1 \/ i \in 1 .. Len(ch)
  BY <1>1
<1>3. \A t : Has(Append(ch, m), t) <=> Has(ch, t) \/ t = m.type
  BY <1>1, <1>2 DEF Has
<1>4. ASSUME SenderShape(ch), m.type \in FileTalk,
             \A t \in (KeyTalk \union FileTalk) \ {"PAUSE_FILE_TRANSFER"} : ~Has(ch, t)
      PROVE  SenderShape(Append(ch, m))
  <2>1. \A i \in 1 .. Len(ch) : ch[i].type = "PAUSE_FILE_TRANSFER"
    BY <1>4 DEF SenderShape, Has
  <2>2. m.type \notin KeyTalk
    BY <1>4 DEF KeyTalk, FileTalk, Ending
  <2> QED BY <1>1, <1>2, <1>4, <2>1, <2>2 DEF SenderShape, KeyTalk, FileTalk
<1>5. ASSUME ReceiverShape(ch), m.type \in {"TEXT", "FILE_INFO"},
             \A t \in Alone \union {"FILE_INFO"} : ~Has(ch, t)
      PROVE  ReceiverShape(Append(ch, m))
  <2>1. \A i \in 1 .. Len(ch) :
          ch[i].type \in {"DEVICE_KEY_OK", "TEXT"} /\ (ch[i].type = "DEVICE_KEY_OK" => i = 1)
    BY <1>5 DEF ReceiverShape, Has, Queued
  <2>2. \A i \in 1 .. Len(Append(ch, m)) :
          \/ i = Len(Append(ch, m)) /\ Append(ch, m)[i].type \in {"TEXT", "FILE_INFO"}
          \/ /\ Append(ch, m)[i].type \in {"DEVICE_KEY_OK", "TEXT"}
             /\ Append(ch, m)[i].type = "DEVICE_KEY_OK" => i = 1
    BY <1>1, <1>2, <1>5, <2>1
  <2> QED BY <2>2 DEF ReceiverShape, Alone, Queued
<1>6. Append(ch, m) # <<>>
  BY <1>1, EmptySeq
<1>7. \A i \in 1 .. Len(Append(ch, m)) :
        Append(ch, m)[i] = m \/ \E j \in 1 .. Len(ch) : Append(ch, m)[i] = ch[j]
  BY <1>1, <1>2
<1>8. \A n : PacketAsked(ch, n) /\ (m.type = "FILE_PACKET" => m.packet = n)
             => PacketAsked(Append(ch, m), n)
  BY <1>7 DEF PacketAsked
<1>9. \A f, n : Carries(ch, f, n) /\ IsOf(m, f, n) => Carries(Append(ch, m), f, n)
  BY <1>7 DEF Carries
<1> QED BY <1>1, <1>3, <1>4, <1>5, <1>6, <1>7, <1>8, <1>9
=============================================================================
