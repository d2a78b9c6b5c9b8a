---------------------------- MODULE Session_proofs ----------------------------
(***************************************************************************)
(* Stop-and-wait, proved: on every connection, for any files, texts, names *)
(* and folders, at most one request or packet is under way, the bytes read *)
(* are read under the right framing, and a popup or a running transfer     *)
(* keeps everything else out of the session.                               *)
(***************************************************************************)
EXTENDS LuminT_proofs, FiniteSetTheorems

\* What is left out, and why: each of these breaks the agreement between the
\* two records of a transfer, or sends a message into a packet (runs
\* CancelPausing and CancelSaved; a killed application has recorded nothing).
Calm == Environment \intersect {"crash", "cancelPausing", "cancelSaved"} = {}

-----------------------------------------------------------------------------
(* The invariant.                                                          *)

\* The ends speak in turn.
HalfDuplex == toSender = <<>> \/ toReceiver = <<>>

\* The numbers and names messages carry are those of the transfer under way.
ContentInv ==
  /\ conn = "accepted" => PacketAsked(toSender, rInfo.packetNumber)
  /\ Carries(toReceiver, Offered, rInfo.packetNumber)

ChannelInv ==
  /\ SenderShape(toSender) /\ ReceiverShape(toReceiver)
  /\ HalfDuplex
  /\ ContentInv

\* What a message under way says of the two ends.
TalkInv ==
  /\ \A t \in KeyTalk : Has(toSender, t) =>
       sPage # "sender" /\ rPage # "receiver" /\ rMessageState = "MESSAGE" /\ popup = "none"
  /\ \A t \in FileTalk : Has(toSender, t) => sPage = "sender" /\ sMessageState # "MESSAGE"
  /\ \A t \in Ending : Has(toSender, t) =>
       rMessageState = "MESSAGE" /\ popup = "none" /\ rSaved = NoRecord
  /\ Has(toSender, "FILE_PACKET") /\ conn = "accepted" => AwaitsPacket
  /\ Has(toReceiver, "DEVICE_KEY") \/ Has(toReceiver, "ERROR") =>
       sPage # "sender" /\ rPage # "receiver"
  /\ Has(toReceiver, "DEVICE_KEY_OK") =>
       rPage # "receiver" /\ (rSaved # NoRecord => Len(toReceiver) = 1)
  /\ Has(toReceiver, "FILE_INFO") =>
       /\ Packets[Offered] > 0 /\ rSaved = NoRecord
       /\ conn = "accepted" => sMessageState = "FILE_SENDING"
  /\ Has(toReceiver, "PACKET") => AwaitsPacket
  /\ toReceiver # <<>> /\ ~Has(toReceiver, "PACKET") =>
       rMessageState = "MESSAGE" /\ popup = "none"

\* The Receiver has a transfer, a record of one, or is being offered one.
Holds ==
  \/ rMessageState # "MESSAGE" \/ popup # "none" \/ rSaved # NoRecord
  \/ Has(toReceiver, "FILE_INFO")

\* What the Receiver holds is what the Sender offers, in memory or in its
\* record, and there is a packet left to be asked for.
HeldInv ==
  /\ Holds => Offered \in File /\ (sPage = "sender" => sMessageState # "MESSAGE")
  /\ rMessageState # "MESSAGE" =>
       rInfo.size = Packets[Offered] /\ rInfo.packetNumber < rInfo.size /\ popup = "none"
  /\ rMessageState = "FILE_ABORTING" => rSaved = NoRecord
  /\ popup # "none" =>
       /\ rInfo.size = Packets[Offered] /\ rInfo.packetNumber = 0 /\ rInfo.size > 0
       /\ rSaved = NoRecord /\ toSender = <<>> /\ toReceiver = <<>>
  /\ rSaved # NoRecord => rSaved.size = Packets[Offered] /\ rSaved.packetNumber < rSaved.size

\* On a live connection a packet that is awaited is under way, or asked for.
LiveInv ==
  conn = "accepted" =>
    /\ \/ rMessageState # "MESSAGE" \/ popup # "none"
       \/ \E t \in {"TEXT", "FILE_INFO", "PACKET"} : Has(toReceiver, t)
       => sPage = "sender"
    /\ popup # "none" => sMessageState = "FILE_SENDING"
    /\ AwaitsPacket => toReceiver # <<>> \/ Has(toSender, "FILE_PACKET")
    /\ serverState = "ENCRYPTING" => toSender = <<>> /\ toReceiver = <<>> /\ sPage # "sender"

\* What each end knows by itself.
EndsInv ==
  /\ clientState # "DISCONNECTED" /\ sPage # "sender" => sMessageState = "MESSAGE"
  /\ clientState = "DISCONNECTED" /\ sMessageState # "MESSAGE" => sSaved = sFile
  /\ sMessageState # "MESSAGE" => sFile \in File
  /\ RowsFollowTransfer
  /\ serverState \in {"CONNECTING", "ENCRYPTING"} => rMessageState = "MESSAGE"
  /\ StreamInSync

AgreeInv == ChannelInv /\ TalkInv /\ HeldInv /\ LiveInv /\ EndsInv
SInv == IInv /\ AgreeInv

-----------------------------------------------------------------------------
(* Steps of the Sender.                                                    *)

\* What reading a message tells: the Receiver has nothing to read, and but
\* for a pause nothing is left to the Sender either.
LEMMA SenderReads ==
  ASSUME IInv, ChannelInv, NEW t, Reads(t)
  PROVE  /\ Has(toSender, t) /\ toReceiver = <<>> /\ t \in KeyTalk \union FileTalk
         /\ Head(toSender) \in Message /\ toSender' \in Seq(Message)
         /\ SenderShape(toSender')
         /\ \A u : Has(toSender', u) => Has(toSender, u)
         /\ \A u : u # t /\ Has(toSender, u) => Has(toSender', u)
         /\ \A n : PacketAsked(toSender, n) => PacketAsked(toSender', n)
         /\ t # "PAUSE_FILE_TRANSFER" => toSender' = <<>>
         /\ t = "FILE_PACKET" /\ conn = "accepted" =>
              Head(toSender).packet = rInfo.packetNumber
         /\ clientState \in {"ENCRYPTED", "UNRECOGNIZED"}
<1>1. /\ toSender \in Seq(Message) /\ toSender # <<>> /\ Head(toSender).type = t
      /\ toSender' = Tail(toSender) /\ SenderShape(toSender)
      /\ clientState \in {"ENCRYPTED", "UNRECOGNIZED"}
  BY DEF Reads, IInv, TypeOK, LinkTypeOK, ChannelInv
<1>2. /\ 1 \in 1 .. Len(toSender) /\ Head(toSender) = toSender[1] /\ Head(toSender) \in Message
      /\ toSender' \in Seq(Message)
  BY <1>1, FirstAndRest
<1>3. Has(toSender, t) /\ t \in KeyTalk \union FileTalk
  BY <1>1, <1>2 DEF Has, SenderShape
<1>4. toReceiver = <<>>
  BY <1>1 DEF ChannelInv, HalfDuplex
<1>5. /\ Part(toSender', toSender) /\ SenderShape(toSender')
      /\ \A u : u # t /\ Has(toSender, u) => Has(toSender', u)
  BY <1>1, TailShape
<1>6. /\ \A u : Has(toSender', u) => Has(toSender, u)
      /\ \A n : PacketAsked(toSender, n) => PacketAsked(toSender', n)
  BY <1>5, PartSays
<1>7. t # "PAUSE_FILE_TRANSFER" => toSender' = <<>>
  BY <1>1, LastToSender
<1>8. t = "FILE_PACKET" /\ conn = "accepted" => Head(toSender).packet = rInfo.packetNumber
  BY <1>1, <1>2 DEF ChannelInv, ContentInv, PacketAsked
<1> QED BY <1>1, <1>2, <1>3, <1>4, <1>5, <1>6, <1>7, <1>8

\* What the Sender answers when nothing else is under way.
LEMMA SenderAnswers ==
  ASSUME toReceiver = <<>>, NEW m \in Message, m.type \in Alone \union Queued,
         SendToReceiver(m)
  PROVE  /\ ReceiverShape(toReceiver')
         /\ conn = "accepted" => toReceiver' = <<m>> /\ toReceiver' # <<>> /\ Len(toReceiver') = 1
         /\ conn # "accepted" => toReceiver' = <<>>
         /\ \A u : Has(toReceiver', u) <=> conn = "accepted" /\ u = m.type
         /\ \A f, n : IsOf(m, f, n) => Carries(toReceiver', f, n)
<1>1. CASE conn = "accepted"
  <2>1. toReceiver' = <<m>>
    BY <1>1, OneMessage DEF SendToReceiver
  <2> QED BY <1>1, <2>1, OneMessage
<1>2. CASE conn # "accepted"
  BY <1>2, EmptyShape DEF SendToReceiver
<1> QED BY <1>1, <1>2

\* The same for a message that carries nothing.
LEMMA SenderSignals ==
  ASSUME toReceiver = <<>>, NEW t \in {"DEVICE_KEY", "DEVICE_KEY_OK", "ERROR"},
         SendToReceiver(Signal(t))
  PROVE  /\ ReceiverShape(toReceiver')
         /\ conn = "accepted" => toReceiver' # <<>> /\ Len(toReceiver') = 1
         /\ conn # "accepted" => toReceiver' = <<>>
         /\ \A u : Has(toReceiver', u) <=> conn = "accepted" /\ u = t
         /\ \A f, n : Carries(toReceiver', f, n)
<1> DEFINE m == Signal(t)
<1>1. m \in Message /\ m.type = t /\ m.type \in Alone \union Queued /\ SendToReceiver(m)
  BY MessageKinds DEF SignalType, Alone, Queued
<1> HIDE DEF m
<1>2. m.type # "FILE_INFO" /\ m.type # "PACKET"
  BY <1>1
<1>3. /\ ReceiverShape(toReceiver')
      /\ conn = "accepted" => toReceiver' # <<>> /\ Len(toReceiver') = 1
      /\ conn # "accepted" => toReceiver' = <<>>
      /\ \A u : Has(toReceiver', u) <=> conn = "accepted" /\ u = m.type
  BY <1>1, SenderAnswers
<1>4. \A f, n : Carries(toReceiver', f, n)
  BY <1>1, <1>2, SenderAnswers DEF IsOf
<1> QED BY <1>1, <1>3, <1>4

\* A packet is asked for and sent.
LEMMA SFilePacketKeeps ==
  ASSUME SInv, IInv', SHandleFilePacket, UNCHANGED receiverVars
  PROVE  AgreeInv'
<1> DEFINE n == Head(toSender).packet
<1>1. /\ Reads("FILE_PACKET") /\ UNCHANGED <<conn, listening, stale, senderVars>>
      /\ IF sMessageState # "MESSAGE" /\ sFile # NoFile /\ n < Packets[sFile]
           THEN SendToReceiver(Packet(sFile, n))
           ELSE UNCHANGED toReceiver
  BY DEF SHandleFilePacket
<1>2. /\ Has(toSender, "FILE_PACKET") /\ toReceiver = <<>> /\ toSender' = <<>>
      /\ n \in Nat /\ (conn = "accepted" => n = rInfo.packetNumber)
  BY <1>1, SenderReads, MessageFields DEF SInv, AgreeInv, Reads
<1> HIDE DEF n
<1>3. sMessageState # "MESSAGE" /\ sFile \in File /\ sFile = Offered /\ sPage = "sender"
  BY <1>2 DEF SInv, AgreeInv, TalkInv, EndsInv, FileTalk, Offered
<1>4. CASE conn = "accepted"
  <2>1. AwaitsPacket /\ rMessageState # "MESSAGE" /\ n < Packets[sFile]
    BY <1>2, <1>3, <1>4 DEF SInv, AgreeInv, TalkInv, HeldInv, AwaitsPacket
  <2>2. SendToReceiver(Packet(sFile, n)) /\ Packet(sFile, n) \in Message
        /\ Packet(sFile, n).type = "PACKET"
    BY <1>1, <1>2, <1>3, <2>1, NoFileAssumption, MessageKinds
  <2>3. /\ ReceiverShape(toReceiver') /\ toReceiver' # <<>>
        /\ \A u : Has(toReceiver', u) <=> u = "PACKET"
        /\ Carries(toReceiver', Offered, rInfo.packetNumber)
    <3>1. IsOf(Packet(sFile, n), Offered, rInfo.packetNumber)
      BY <1>2, <1>3, <1>4, <2>2 DEF IsOf
    <3> QED BY <1>2, <1>3, <1>4, <2>2, <3>1, SenderAnswers DEF Alone
  <2>4. ChannelInv'
    BY <1>1, <1>2, <2>3, EmptyShape DEF ChannelInv, HalfDuplex, ContentInv, Offered, receiverVars,
       senderVars, fileVars
  <2>5. TalkInv'
    BY <1>1, <1>2, <2>1, <2>3, EmptyShape DEF TalkInv, AwaitsPacket, receiverVars, connectionVars
  <2>6. HeldInv'
    BY <1>1, <1>2, <1>3, <2>1, <2>3 DEF SInv, AgreeInv, HeldInv, Holds, Offered, senderVars,
       receiverVars, fileVars
  <2>7. LiveInv'
    BY <1>1, <1>2, <1>3, <2>1, <2>3 DEF SInv, IInv, ReceiverInv, AgreeInv, HeldInv, LiveInv,
       EndsInv, AwaitsPacket, senderVars, receiverVars, connectionVars
  <2>8. EndsInv'
    BY <1>1 DEF SInv, AgreeInv, EndsInv, RowsFollowTransfer, StreamInSync, senderVars,
       receiverVars, connectionVars
  <2> QED BY <2>4, <2>5, <2>6, <2>7, <2>8 DEF AgreeInv
<1>5. CASE conn # "accepted"
  <2>1. toReceiver' = <<>>
    BY <1>1, <1>2, <1>5 DEF SendToReceiver
  <2> QED BY <1>1, <1>2, <1>3, <1>5, <2>1, EmptyShape
      DEF SInv, AgreeInv, ChannelInv, TalkInv, HeldInv, LiveInv, EndsInv, HalfDuplex, ContentInv,
          Holds, Offered, AwaitsPacket, RowsFollowTransfer, StreamInSync, receiverVars,
          connectionVars, fileVars, senderVars
<1> QED BY <1>4, <1>5

\* Steps that tell the Receiver nothing.
LEMMA SenderQuietKeeps ==
  ASSUME SInv, IInv', UNCHANGED receiverVars,
         \/ SOpenWaitingPage \/ ConnectToReceiver \/ SocketConnected \/ SocketError
         \/ SSocketReady \/ SRegister \/ SSuspend
  PROVE  AgreeInv'
<1> USE DEF SInv, IInv, AgreeInv, SenderInv, ChannelInv, TalkInv, HeldInv, LiveInv, EndsInv,
    HalfDuplex, ContentInv, Holds, Offered, AwaitsPacket, RowsFollowTransfer, StreamInSync,
    senderVars, receiverVars, connectionVars, fileVars, linkVars
<1>1. CASE SOpenWaitingPage
  BY <1>1 DEF SOpenWaitingPage
<1>2. CASE ConnectToReceiver
  BY <1>2, EmptyShape DEF ConnectToReceiver
<1>3. CASE SocketConnected
  BY <1>3 DEF SocketConnected
<1>4. CASE SocketError
  BY <1>4 DEF SocketError
<1>5. CASE SSocketReady
  BY <1>5 DEF SSocketReady
<1>6. CASE SRegister
  BY <1>6 DEF SRegister
<1>7. CASE SSuspend
  BY <1>7 DEF SSuspend, SSaveFileTransferInfo, TypeOK, SenderTypeOK, SenderMessageState
<1> QED BY <1>1, <1>2, <1>3, <1>4, <1>5, <1>6, <1>7

\* The Sender leaves the connection: what it offered is recorded, and what it
\* wrote may still be read.
LEMMA SenderLeavesKeeps ==
  ASSUME SInv, IInv', UNCHANGED receiverVars,
         toSender' = <<>>, toReceiver' = toReceiver \/ toReceiver' \in Prefixes(toReceiver),
         conn' # "accepted", clientState' = "DISCONNECTED", sPage' # "sender",
         Offered' = Offered,
         sMessageState' # "MESSAGE" => sFile' \in File /\ sSaved' = sFile'
  PROVE  AgreeInv'
<1>1. /\ ReceiverShape(toReceiver')
      /\ \A u : Has(toReceiver', u) => Has(toReceiver, u)
      /\ Carries(toReceiver', Offered, rInfo.packetNumber)
      /\ toReceiver = <<>> => toReceiver' = <<>>
      /\ Len(toReceiver) = 1 => toReceiver' = <<>> \/ toReceiver' = toReceiver
      /\ Has(toReceiver, "PACKET") => Len(toReceiver) = 1
  <2>1. toReceiver \in Seq(Message) /\ ReceiverShape(toReceiver)
        /\ Carries(toReceiver, Offered, rInfo.packetNumber)
    BY DEF SInv, IInv, TypeOK, LinkTypeOK, AgreeInv, ChannelInv, ContentInv
  <2>2. Has(toReceiver, "PACKET") => Len(toReceiver) = 1
    BY <2>1, LoneMessage DEF Alone
  <2>3. CASE toReceiver' \in Prefixes(toReceiver)
    BY <2>1, <2>2, <2>3, PrefixShape, PartSays, EmptySeq DEF Prefixes
  <2> QED BY <2>1, <2>2, <2>3
<1> QED BY <1>1, EmptyShape DEF SInv, AgreeInv, ChannelInv, TalkInv, HeldInv, LiveInv, EndsInv,
    HalfDuplex, ContentInv, Holds, AwaitsPacket, RowsFollowTransfer, StreamInSync,
    receiverVars, connectionVars, fileVars

\* Every way the Sender has of leaving: a disconnection, the encryption timeout,
\* the Back button and the end of the application.
LEMMA SenderEndsKeeps ==
  ASSUME SInv, IInv', UNCHANGED receiverVars,
         SSocketDisconnected \/ SEncryptingTimeout \/ SBack \/ SQuit
  PROVE  AgreeInv'
<1> USE DEF SInv, AgreeInv, EndsInv, Offered, SSaveFileTransferInfo, IInv, TypeOK, SenderTypeOK,
        SenderMessageState, SenderInv
<1>1. CASE SSocketDisconnected
  BY <1>1, SenderLeavesKeeps DEF SSocketDisconnected, SLeave
<1>2. CASE SEncryptingTimeout
  BY <1>2, SenderLeavesKeeps DEF SEncryptingTimeout, SLeave, ClientAbort, Surviving
<1>3. CASE SBack /\ clientState # "DISCONNECTED"
  BY <1>3, SenderLeavesKeeps DEF SBack, ClientAbort, Surviving
<1>4. CASE SBack /\ clientState = "DISCONNECTED"
  BY <1>4 DEF SBack, ChannelInv, TalkInv, HeldInv, LiveInv, HalfDuplex, ContentInv, Holds,
     AwaitsPacket, RowsFollowTransfer, StreamInSync, linkVars, receiverVars, connectionVars,
     fileVars
<1>5. CASE SQuit
  BY <1>5, SenderLeavesKeeps DEF SQuit, SRestart, ClientAbort, Surviving
<1> QED BY <1>1, <1>2, <1>3, <1>4, <1>5

\* Keys are exchanged: the Sender answers, and takes up what it has recorded.
LEMMA SenderKeyKeeps ==
  ASSUME SInv, IInv', UNCHANGED receiverVars,
         SHandleKeyRequest \/ SHandleDeviceKey \/ SHandleError
  PROVE  AgreeInv'
<1>1. PICK t \in {"REQUEST_DEVICE_KEY", "DEVICE_KEY", "ERROR"} : Reads(t)
  BY DEF SHandleKeyRequest, SHandleDeviceKey, SHandleError
<1>2. /\ toReceiver = <<>> /\ toSender' = <<>> /\ Has(toSender, t)
      /\ clientState \in {"ENCRYPTED", "UNRECOGNIZED"}
  BY <1>1, SenderReads DEF SInv, AgreeInv
<1>3. /\ sPage # "sender" /\ rPage # "receiver" /\ rMessageState = "MESSAGE" /\ popup = "none"
      /\ sMessageState = "MESSAGE" /\ Offered = sSaved
  BY <1>1, <1>2 DEF SInv, AgreeInv, TalkInv, EndsInv, KeyTalk, Offered
<1>4. ASSUME NEW u \in {"DEVICE_KEY", "DEVICE_KEY_OK", "ERROR"}, SendToReceiver(Signal(u))
      PROVE  /\ ReceiverShape(toReceiver')
             /\ conn = "accepted" => toReceiver' # <<>> /\ Len(toReceiver') = 1
             /\ conn # "accepted" => toReceiver' = <<>>
             /\ \A v : Has(toReceiver', v) <=> conn = "accepted" /\ v = u
             /\ \A f, n : Carries(toReceiver', f, n)
  BY <1>2, <1>4, SenderSignals
<1> USE DEF SInv, AgreeInv, ChannelInv, TalkInv, HeldInv, LiveInv, EndsInv, HalfDuplex,
    ContentInv, Holds, Offered, AwaitsPacket, RowsFollowTransfer, StreamInSync, senderVars,
    receiverVars, connectionVars, fileVars
<1>5. CASE SHandleKeyRequest
  BY <1>2, <1>3, <1>4, <1>5, EmptyShape DEF SHandleKeyRequest
<1>6. CASE SHandleDeviceKey /\ SKeyRegistered
  <2>1. /\ SendToReceiver(Signal("DEVICE_KEY_OK"))
        /\ sPage' = "sender"
        /\ sFile' = IF sSaved # NoFile THEN sSaved ELSE sFile
        /\ sMessageState' = IF sSaved # NoFile THEN "FILE_PAUSED" ELSE "MESSAGE"
        /\ sRows' = IF sSaved # NoFile THEN "disabled" ELSE "enabled"
        /\ UNCHANGED <<clientState, conn, listening, stale, sTimer, sSaved, sTrusts>>
    BY <1>3, <1>6 DEF SHandleDeviceKey
  <2>2. Offered' = Offered
    BY <1>3, <2>1
  <2>3. sSaved # NoFile => sSaved \in File
    BY DEF IInv, TypeOK, SenderTypeOK
  <2>4. Holds => sSaved # NoFile
    BY <1>3, NoFileAssumption
  <2> HIDE DEF Offered
  <2> QED BY <1>2, <1>3, <1>4, <2>1, <2>2, <2>3, <2>4, EmptyShape
<1>7. CASE SHandleDeviceKey /\ ~SKeyRegistered
  <2>1. /\ SendToReceiver(Signal("ERROR"))
        /\ UNCHANGED <<sPage, sFile, sMessageState, sRows>>
        /\ clientState' = "UNRECOGNIZED"
        /\ UNCHANGED <<conn, listening, stale, sTimer, sSaved, sTrusts>>
    BY <1>7 DEF SHandleDeviceKey
  <2> QED BY <1>2, <1>3, <1>4, <2>1, EmptyShape
<1>8. CASE SHandleError
  BY <1>2, <1>3, <1>8, EmptyShape DEF SHandleError
<1> QED BY <1>5, <1>6, <1>7, <1>8

\* The Receiver tells of the transfer.
LEMMA SenderHearsKeeps ==
  ASSUME SInv, IInv', UNCHANGED receiverVars,
         SHandleCancel \/ SHandleFileSuccess \/ SHandleFileError \/ SHandlePause
  PROVE  AgreeInv'
<1> USE DEF SInv, AgreeInv, ChannelInv, TalkInv, HeldInv, LiveInv, EndsInv, HalfDuplex,
    ContentInv, Holds, Offered, AwaitsPacket, RowsFollowTransfer, StreamInSync, KeyTalk, FileTalk,
    Ending, senderVars, receiverVars, connectionVars, fileVars
<1>1. CASE SHandleCancel \/ SHandleFileSuccess \/ SHandleFileError
  <2>1. PICK t \in Ending : Reads(t)
    BY <1>1 DEF SHandleCancel, SHandleFileSuccess, SHandleFileError
  <2>2. /\ toReceiver = <<>> /\ toSender' = <<>> /\ Has(toSender, t)
        /\ clientState \in {"ENCRYPTED", "UNRECOGNIZED"}
    BY <2>1, SenderReads
  <2>3. ~Holds
    BY <2>1, <2>2, EmptyShape
  <2>4. FileDone
    BY <1>1 DEF SHandleCancel, SHandleFileSuccess, SHandleFileError
  <2> QED BY <2>2, <2>3, <2>4, EmptyShape DEF FileDone
<1>2. CASE SHandlePause
  <2>1. /\ toReceiver = <<>> /\ Has(toSender, "PAUSE_FILE_TRANSFER")
        /\ clientState \in {"ENCRYPTED", "UNRECOGNIZED"}
        /\ SenderShape(toSender')
        /\ \A u : Has(toSender', u) => Has(toSender, u)
        /\ \A n : PacketAsked(toSender, n) => PacketAsked(toSender', n)
        /\ Has(toSender, "FILE_PACKET") => Has(toSender', "FILE_PACKET")
    BY <1>2, SenderReads DEF SHandlePause
  <2> QED BY <1>2, <2>1, EmptyShape DEF SHandlePause
<1> QED BY <1>1, <1>2

\* While the rows are enabled nothing but texts and the end of the exchange of
\* keys is under way, and the Receiver has nothing of a transfer.
LEMMA RowsEnabled ==
  ASSUME SInv, sPage = "sender", sRows = "enabled"
  PROVE  /\ sMessageState = "MESSAGE" /\ ~Holds /\ toSender = <<>>
         /\ \A t \in Alone \union {"FILE_INFO"} : ~Has(toReceiver, t)
<1>1. sMessageState = "MESSAGE" /\ ~Holds
  BY DEF SInv, AgreeInv, EndsInv, RowsFollowTransfer, HeldInv
<1>2. \A t \in KeyTalk \union FileTalk : ~Has(toSender, t)
  BY <1>1 DEF SInv, AgreeInv, TalkInv
<1>3. toSender = <<>>
  BY <1>2, SaysSomething DEF SInv, IInv, TypeOK, LinkTypeOK, AgreeInv, ChannelInv
<1>4. \A t \in Alone \union {"FILE_INFO"} : ~Has(toReceiver, t)
  BY <1>1 DEF SInv, AgreeInv, TalkInv, Holds, AwaitsPacket, Alone
<1> QED BY <1>1, <1>3, <1>4

\* What the Sender adds then.
LEMMA SenderAdds ==
  ASSUME SInv, sPage = "sender", sRows = "enabled", NEW m \in Message,
         m.type \in {"TEXT", "FILE_INFO"}, SendToReceiver(m)
  PROVE  /\ ReceiverShape(toReceiver')
         /\ conn = "accepted" => toReceiver' # <<>>
         /\ conn # "accepted" => toReceiver' = toReceiver
         /\ \A u : Has(toReceiver', u) <=>
                    Has(toReceiver, u) \/ (conn = "accepted" /\ u = m.type)
         /\ \A f, n : (m.type = "FILE_INFO" => m = FileInfo(f)) => Carries(toReceiver', f, n)
<1>1. /\ toReceiver \in Seq(Message) /\ ReceiverShape(toReceiver)
      /\ \A t \in Alone \union {"FILE_INFO"} : ~Has(toReceiver, t)
  BY RowsEnabled DEF SInv, IInv, TypeOK, LinkTypeOK, AgreeInv, ChannelInv
<1>2. \A f, n : Carries(toReceiver, f, n)
  BY <1>1, Silent DEF Alone
<1>3. m.type # "PACKET"
  OBVIOUS
<1>4. CASE conn = "accepted"
  <2>1. toReceiver' = Append(toReceiver, m)
    BY <1>4 DEF SendToReceiver
  <2>2. ReceiverShape(toReceiver') /\ toReceiver' # <<>>
    BY <1>1, <2>1, AppendShape
  <2>3. \A u : Has(toReceiver', u) <=> Has(toReceiver, u) \/ u = m.type
    BY <1>1, <2>1, AppendShape
  <2>4. \A f, n : (m.type = "FILE_INFO" => m = FileInfo(f)) => Carries(toReceiver', f, n)
    BY <1>1, <1>2, <1>3, <2>1, AppendShape DEF IsOf
  <2> QED BY <1>4, <2>2, <2>3, <2>4
<1>5. CASE conn # "accepted"
  BY <1>1, <1>2, <1>5 DEF SendToReceiver
<1> QED BY <1>4, <1>5

\* The user sends a text or a file, with the rows enabled.
LEMMA SenderUserKeeps ==
  ASSUME SInv, IInv', UNCHANGED receiverVars,
         SendTextMessage \/ \E f \in File : SendFile(f)
  PROVE  AgreeInv'
<1>1. sPage = "sender" /\ sRows = "enabled"
  BY DEF SendTextMessage, SendFile
<1>2. /\ sMessageState = "MESSAGE" /\ ~Holds /\ toSender = <<>>
      /\ \A t \in Alone \union {"FILE_INFO"} : ~Has(toReceiver, t)
  BY <1>1, RowsEnabled
<1>3. clientState # "DISCONNECTED"
  BY <1>1 DEF SInv, IInv, SenderInv
<1>4. CASE SendTextMessage
  <2>1. Signal("TEXT") \in Message /\ Signal("TEXT").type = "TEXT"
    BY MessageKinds DEF SignalType
  <2>2. /\ ReceiverShape(toReceiver')
        /\ conn # "accepted" => toReceiver' = toReceiver
        /\ \A u : Has(toReceiver', u) <=> Has(toReceiver, u) \/ (conn = "accepted" /\ u = "TEXT")
        /\ \A f, n : Carries(toReceiver', f, n)
    BY <1>1, <1>4, <2>1, SenderAdds DEF SendTextMessage
  <2> QED BY <1>1, <1>2, <1>3, <1>4, <2>2, EmptyShape
      DEF SInv, AgreeInv, ChannelInv, TalkInv, HeldInv, LiveInv, EndsInv, HalfDuplex, ContentInv,
          Holds, Offered, AwaitsPacket, RowsFollowTransfer, StreamInSync, SendTextMessage,
          senderVars, receiverVars, connectionVars, fileVars, Alone
<1>5. ASSUME NEW f \in File, SendFile(f) PROVE AgreeInv'
  <2>1. CASE Packets[f] = 0
    BY <1>1, <1>2, <1>3, <1>5, <2>1, EmptyShape
    DEF SInv, AgreeInv, ChannelInv, TalkInv, HeldInv, LiveInv, EndsInv, HalfDuplex, ContentInv,
        Holds, Offered, AwaitsPacket, RowsFollowTransfer, StreamInSync, SendFile,
        senderVars, receiverVars, connectionVars, fileVars, Alone
  <2>2. CASE Packets[f] # 0
    <3>1. Packets[f] > 0
      BY <2>2, ConstantsAssumption
    <3>2. /\ SendToReceiver(FileInfo(f)) /\ sFile' = f /\ sMessageState' = "FILE_SENDING"
          /\ sRows' = "disabled"
          /\ UNCHANGED <<conn, listening, stale, toSender, clientState, sTimer, sSaved, sPage,
                         sTrusts>>
      BY <1>2, <1>5, <2>2 DEF SendFile
    <3>3. FileInfo(f) \in Message /\ FileInfo(f).type = "FILE_INFO"
      BY MessageKinds
    <3>4. /\ ReceiverShape(toReceiver')
          /\ conn # "accepted" => toReceiver' = toReceiver
          /\ \A u : Has(toReceiver', u) <=>
                     Has(toReceiver, u) \/ (conn = "accepted" /\ u = "FILE_INFO")
          /\ \A n : Carries(toReceiver', f, n)
      BY <1>1, <3>2, <3>3, SenderAdds
    <3>5. Offered' = f
      BY <3>2 DEF Offered
    <3> QED BY <1>1, <1>2, <1>3, <3>1, <3>2, <3>4, <3>5, EmptyShape
        DEF SInv, AgreeInv, ChannelInv, TalkInv, HeldInv, LiveInv, EndsInv, HalfDuplex,
            ContentInv, Holds, AwaitsPacket, RowsFollowTransfer, StreamInSync,
            receiverVars, connectionVars, fileVars, Alone
  <2> QED BY <2>1, <2>2
<1> QED BY <1>4, <1>5

\* Every step of the Sender.
LEMMA SenderAgrees ==
  ASSUME SInv, IInv', Calm, SenderStep, UNCHANGED receiverVars
  PROVE  AgreeInv'
<1>1. ~SCrash
  BY DEF Calm, SCrash
<1> QED BY <1>1, SFilePacketKeeps, SenderQuietKeeps, SenderEndsKeeps, SenderKeyKeeps,
        SenderHearsKeeps, SenderUserKeeps DEF SenderStep, SenderUser, SenderHandlers

-----------------------------------------------------------------------------
(* Steps of the Receiver.                                                  *)

\* What reading a message tells: the Sender has nothing to read, and what comes
\* after the message is of the same transfer.
LEMMA ReceiverReads ==
  ASSUME IInv, ChannelInv, NEW t, Readable, Head(toReceiver).type = t,
         toReceiver' = Tail(toReceiver)
  PROVE  /\ Has(toReceiver, t) /\ toSender = <<>> /\ t \in Alone \union Queued
         /\ Head(toReceiver) \in Message /\ toReceiver' \in Seq(Message)
         /\ ReceiverShape(toReceiver) /\ ReceiverShape(toReceiver')
         /\ ~Has(toReceiver', "DEVICE_KEY_OK")
         /\ \A u : Has(toReceiver', u) => Has(toReceiver, u)
         /\ \A f, n : Carries(toReceiver, f, n) => Carries(toReceiver', f, n)
         /\ t \in Alone \union {"FILE_INFO"} \/ Len(toReceiver) = 1 => toReceiver' = <<>>
         /\ IsOf(Head(toReceiver), Offered, rInfo.packetNumber)
         /\ serverState \in {"ENCRYPTED", "UNRECOGNIZED"}
<1>1. /\ toReceiver \in Seq(Message) /\ toReceiver # <<>> /\ ReceiverShape(toReceiver)
      /\ Carries(toReceiver, Offered, rInfo.packetNumber) /\ toSender = <<>>
      /\ serverState \in {"ENCRYPTED", "UNRECOGNIZED"}
  BY DEF Readable, IInv, TypeOK, LinkTypeOK, ChannelInv, ContentInv, HalfDuplex
<1>2. /\ 1 \in 1 .. Len(toReceiver) /\ Head(toReceiver) = toReceiver[1]
      /\ Head(toReceiver) \in Message /\ toReceiver' \in Seq(Message)
      /\ Len(toReceiver) = 1 => toReceiver' = <<>>
  BY <1>1, FirstAndRest
<1>3. Has(toReceiver, t) /\ t \in Alone \union Queued
  BY <1>1, <1>2 DEF Has, ReceiverShape
<1>4. /\ Part(toReceiver', toReceiver) /\ ReceiverShape(toReceiver')
      /\ ~Has(toReceiver', "DEVICE_KEY_OK")
  BY <1>1, TailShape
<1>5. /\ \A u : Has(toReceiver', u) => Has(toReceiver, u)
      /\ \A f, n : Carries(toReceiver, f, n) => Carries(toReceiver', f, n)
  BY <1>4, PartSays
<1>6. t \in Alone \union {"FILE_INFO"} => toReceiver' = <<>>
  BY <1>1, LastToReceiver
<1>7. IsOf(Head(toReceiver), Offered, rInfo.packetNumber)
  BY <1>1, <1>2 DEF Carries
<1> QED BY <1>1, <1>2, <1>3, <1>4, <1>5, <1>6, <1>7

\* What the Receiver writes when nothing else is under way.
LEMMA ReceiverAnswers ==
  ASSUME toSender = <<>>, NEW m \in Message, m.type \in KeyTalk \union FileTalk,
         SendToSender(m)
  PROVE  /\ SenderShape(toSender')
         /\ conn # "accepted" => toSender' = <<>>
         /\ \A u : Has(toSender', u) <=> conn = "accepted" /\ u = m.type
         /\ \A n : (m.type = "FILE_PACKET" => m.packet = n) => PacketAsked(toSender', n)
<1>1. CASE conn = "accepted"
  <2>1. toSender' = <<m>>
    BY <1>1, OneMessage DEF SendToSender
  <2> QED BY <1>1, <2>1, OneMessage
<1>2. CASE conn # "accepted"
  BY <1>2, EmptyShape DEF SendToSender
<1> QED BY <1>1, <1>2

\* The same for a message that carries nothing.
LEMMA ReceiverSignals ==
  ASSUME toSender = <<>>, NEW t \in KeyTalk \union FileTalk, t # "FILE_PACKET",
         SendToSender(Signal(t))
  PROVE  /\ SenderShape(toSender')
         /\ conn # "accepted" => toSender' = <<>>
         /\ \A u : Has(toSender', u) <=> conn = "accepted" /\ u = t
         /\ \A n : PacketAsked(toSender', n)
<1> DEFINE m == Signal(t)
<1>1. m \in Message /\ m.type = t /\ SendToSender(m)
  BY MessageKinds DEF SignalType, KeyTalk, FileTalk, Ending
<1> HIDE DEF m
<1> QED BY <1>1, ReceiverAnswers

\* The same for the request of a packet.
LEMMA ReceiverAsks ==
  ASSUME toSender = <<>>, NEW k \in Nat, SendToSender(FilePacket(k))
  PROVE  /\ SenderShape(toSender')
         /\ conn # "accepted" => toSender' = <<>>
         /\ \A u : Has(toSender', u) <=> conn = "accepted" /\ u = "FILE_PACKET"
         /\ PacketAsked(toSender', k)
<1> DEFINE m == FilePacket(k)
<1>1. m \in Message /\ m.type = "FILE_PACKET" /\ m.packet = k /\ SendToSender(m)
  BY MessageKinds DEF FilePacket
<1> HIDE DEF m
<1> QED BY <1>1, ReceiverAnswers DEF FileTalk

\* Steps that tell the Sender nothing.
LEMMA ReceiverQuietKeeps ==
  ASSUME SInv, IInv', UNCHANGED senderVars,
         \/ StartServer \/ IncomingConnection \/ PauseFileTransfer \/ CreateWithoutName
         \/ RRegister \/ \E folder \in Folder : SetFilePath(folder)
  PROVE  AgreeInv'
<1> USE DEF SInv, AgreeInv, ChannelInv, TalkInv, HeldInv, LiveInv, EndsInv, HalfDuplex,
    ContentInv, Holds, Offered, AwaitsPacket, RowsFollowTransfer, StreamInSync, senderVars,
    receiverVars, connectionVars, fileVars, linkVars, IInv, TypeOK, ReceiverTypeOK, SenderInv,
    ReceiverInv
<1>1. CASE StartServer
  BY <1>1, EmptyShape DEF StartServer
<1>2. CASE IncomingConnection
  <2>1. /\ serverState = "CONNECTING" /\ rMessageState = "MESSAGE" /\ popup = "none"
        /\ conn # "accepted" /\ toReceiver = <<>>
    BY <1>2 DEF IncomingConnection, ServerConsistent
  <2>2. conn' = "accepted" =>
          toSender = <<>> /\ sPage # "sender"
    BY <1>2, <2>1 DEF IncomingConnection
  <2>3. /\ serverState' = "ENCRYPTING"
        /\ UNCHANGED <<toSender, toReceiver, rInfo, rMessageState, rStream, rSaved, rPage, popup>>
    BY <1>2 DEF IncomingConnection
  <2> QED BY <2>1, <2>2, <2>3, EmptyShape
<1>3. CASE PauseFileTransfer
  BY <1>3 DEF PauseFileTransfer
<1>4. CASE CreateWithoutName
  BY <1>4 DEF CreateWithoutName
<1>5. CASE RRegister
  BY <1>5 DEF RRegister
<1>6. ASSUME NEW folder \in Folder, SetFilePath(folder) PROVE AgreeInv'
  <2>1. rInfo'.size = rInfo.size /\ rInfo'.packetNumber = rInfo.packetNumber
    BY <1>6 DEF SetFilePath
  <2> QED BY <1>6, <2>1 DEF SetFilePath
<1> QED BY <1>1, <1>2, <1>3, <1>4, <1>5, <1>6

\* The transfer under way is recorded.
LEMMA RSuspendKeeps ==
  ASSUME SInv, IInv', UNCHANGED senderVars, RSuspend
  PROVE  AgreeInv'
<1>1. ReceiverShape(toReceiver)
  BY DEF SInv, AgreeInv, ChannelInv
<1>2. Has(toReceiver, "PACKET") =>
        ~Has(toReceiver, "DEVICE_KEY_OK") /\ ~Has(toReceiver, "FILE_INFO")
  BY <1>1, LoneMessage DEF Alone
<1> QED BY <1>2, EmptyShape DEF RSuspend, RSaveFileTransferInfo,
    SInv, AgreeInv, ChannelInv, TalkInv, HeldInv, LiveInv, EndsInv, HalfDuplex, ContentInv,
    Holds, Offered, AwaitsPacket, RowsFollowTransfer, StreamInSync, senderVars, receiverVars,
    connectionVars, fileVars, linkVars

\* The Receiver leaves the connection: what it holds is recorded, and what it
\* wrote may still be read.
LEMMA ReceiverLeavesKeeps ==
  ASSUME SInv, IInv', UNCHANGED senderVars,
         toReceiver' = <<>>, toSender' = toSender \/ toSender' \in Prefixes(toSender),
         conn' # "accepted", serverState' = "DISCONNECTED", rPage' # "receiver",
         popup' = "none", rStream' = "aligned",
         RSaveFileTransferInfo \/ UNCHANGED rSaved,
         rMessageState' = "MESSAGE" \/ UNCHANGED <<rMessageState, rInfo>>
  PROVE  AgreeInv'
<1>1. /\ SenderShape(toSender')
      /\ \A u : Has(toSender', u) => Has(toSender, u)
  <2>1. toSender \in Seq(Message) /\ SenderShape(toSender)
    BY DEF SInv, IInv, TypeOK, LinkTypeOK, AgreeInv, ChannelInv
  <2>2. CASE toSender' \in Prefixes(toSender)
    BY <2>1, <2>2, PrefixShape, PartSays
  <2> QED BY <2>1, <2>2
<1>2. Offered' = Offered
  BY DEF Offered, senderVars
<1>3. rSaved' = rSaved \/ (rSaved' = rInfo /\ rMessageState \in {"FILE_SENDING", "FILE_PAUSED"})
  BY DEF RSaveFileTransferInfo
<1> QED BY <1>1, <1>2, <1>3, EmptyShape
    DEF SInv, AgreeInv, ChannelInv, TalkInv, HeldInv, LiveInv, EndsInv, HalfDuplex, ContentInv,
        Holds, AwaitsPacket, RowsFollowTransfer, StreamInSync, senderVars

\* stopServer() is such a departure.
LEMMA StopServerKeeps ==
  ASSUME SInv, IInv', UNCHANGED senderVars, NEW state, StopServer(state),
         state = "CONNECTING" <=> serverState = "CONNECTING",
         rPage' # "receiver"
  PROVE  AgreeInv'
<1>1. /\ toReceiver' = <<>> /\ conn' # "accepted"
      /\ toSender' = toSender \/ toSender' \in Prefixes(toSender)
  BY DEF StopServer, ServerAbort, CloseListener, Surviving, SInv, IInv, ReceiverInv
<1> QED BY <1>1, ReceiverLeavesKeeps DEF StopServer, SInv, AgreeInv, EndsInv, StreamInSync

\* Every way the Receiver has of leaving.
LEMMA ReceiverEndsKeeps ==
  ASSUME SInv, IInv', UNCHANGED senderVars,
         RSocketDisconnected \/ RHandleError \/ REncryptingTimeout \/ RBack \/ RQuit
  PROVE  AgreeInv'
<1>1. CASE RSocketDisconnected
  <2> DEFINE state == IF serverState = "ENCRYPTING" THEN "ERROR" ELSE serverState
  <2>1. StopServer(state) /\ rPage' # "receiver" /\ state # "CONNECTING"
        /\ serverState # "CONNECTING"
    BY <1>1 DEF RSocketDisconnected, PageAfter
  <2> HIDE DEF state
  <2> QED BY <2>1, StopServerKeeps
<1>2. CASE RHandleError
  <2>1. StopServer("UNRECOGNIZED") /\ rPage' # "receiver" /\ serverState # "CONNECTING"
    BY <1>2 DEF RHandleError, PageAfter, NextMessage, Readable
  <2> QED BY <2>1, StopServerKeeps
<1>3. CASE REncryptingTimeout
  <2>1. StopServer("ERROR") /\ rPage' # "receiver" /\ serverState # "CONNECTING"
    BY <1>3 DEF REncryptingTimeout, PageAfter, SInv, IInv, ReceiverInv
  <2> QED BY <2>1, StopServerKeeps
<1>4. CASE RBack /\ serverState # "DISCONNECTED"
  <2>1. StopServer(serverState) /\ rPage' # "receiver"
    BY <1>4 DEF RBack
  <2> QED BY <2>1, StopServerKeeps
<1>5. CASE RBack /\ serverState = "DISCONNECTED"
  BY <1>5 DEF RBack, SInv, AgreeInv, ChannelInv, TalkInv, HeldInv, LiveInv, EndsInv, HalfDuplex,
     ContentInv, Holds, Offered, AwaitsPacket, RowsFollowTransfer, StreamInSync, senderVars,
     receiverVars, connectionVars, fileVars, linkVars
<1>6. CASE RQuit
  <2>1. /\ toReceiver' = <<>> /\ conn' # "accepted"
        /\ toSender' = toSender \/ toSender' \in Prefixes(toSender)
    BY <1>6 DEF RQuit, RRestart, ServerCrash, Surviving, SInv, IInv, TypeOK, LinkTypeOK
  <2> QED BY <1>6, <2>1, ReceiverLeavesKeeps DEF RQuit, RRestart
<1> QED BY <1>1, <1>2, <1>3, <1>4, <1>5, <1>6

\* Keys are exchanged: a recorded transfer comes back, or none.
LEMMA ReceiverKeyKeeps ==
  ASSUME SInv, IInv', UNCHANGED senderVars,
         RSocketReady \/ RHandleDeviceKey \/ RHandleDeviceKeyOk
  PROVE  AgreeInv'
<1>1. CASE RSocketReady
  <2>1. /\ toSender = <<>> /\ toReceiver = <<>> /\ sPage # "sender" /\ rPage # "receiver"
        /\ rMessageState = "MESSAGE" /\ popup = "none"
    BY <1>1 DEF RSocketReady, SInv, AgreeInv, LiveInv, EndsInv, IInv, ReceiverInv
  <2>2. /\ SenderShape(toSender')
        /\ conn # "accepted" => toSender' = <<>>
        /\ \A u : Has(toSender', u) <=> conn = "accepted" /\ u = "REQUEST_DEVICE_KEY"
        /\ \A n : PacketAsked(toSender', n)
    BY <1>1, <2>1, ReceiverSignals DEF RSocketReady, KeyTalk
  <2> QED BY <1>1, <2>1, <2>2, EmptyShape
      DEF RSocketReady, SInv, AgreeInv, ChannelInv, TalkInv, HeldInv, LiveInv, EndsInv,
          HalfDuplex, ContentInv, Holds, Offered, AwaitsPacket, RowsFollowTransfer, StreamInSync,
          senderVars, receiverVars, connectionVars, fileVars, linkVars, KeyTalk, FileTalk, Ending
<1>2. CASE RHandleDeviceKey
  <2>1. /\ toSender = <<>> /\ toReceiver' = <<>> /\ Has(toReceiver, "DEVICE_KEY")
        /\ toReceiver # <<>> /\ ~Has(toReceiver, "PACKET")
    BY <1>2, ReceiverReads, LoneMessage
    DEF RHandleDeviceKey, Receives, NextMessage, Readable, SInv, AgreeInv, Alone
  <2>2. /\ sPage # "sender" /\ rPage # "receiver" /\ rMessageState = "MESSAGE" /\ popup = "none"
    BY <2>1 DEF SInv, AgreeInv, TalkInv
  <2>3. PICK t \in {"DEVICE_KEY", "ERROR"} : SendToSender(Signal(t))
    BY <1>2 DEF RHandleDeviceKey
  <2>4. /\ SenderShape(toSender')
        /\ conn # "accepted" => toSender' = <<>>
        /\ \A u : Has(toSender', u) <=> conn = "accepted" /\ u = t
        /\ \A n : PacketAsked(toSender', n)
    BY <2>1, <2>3, ReceiverSignals DEF KeyTalk
  <2>5. /\ serverState' \in {"ENCRYPTED", "UNRECOGNIZED"}
        /\ UNCHANGED <<conn, rPage, fileVars, rMessageState, rStream, rSaved, popup, pauseButton>>
    BY <1>2 DEF RHandleDeviceKey, Receives, NextMessage, Readable
  <2> QED BY <2>1, <2>2, <2>4, <2>5, EmptyShape
      DEF SInv, AgreeInv, ChannelInv, TalkInv, HeldInv, LiveInv, EndsInv, HalfDuplex, ContentInv,
          Holds, Offered, AwaitsPacket, RowsFollowTransfer, StreamInSync, senderVars,
          receiverVars, connectionVars, fileVars, linkVars, KeyTalk, FileTalk, Ending
<1>3. CASE RHandleDeviceKeyOk
  <2>1. /\ toSender = <<>> /\ Has(toReceiver, "DEVICE_KEY_OK") /\ toReceiver # <<>>
        /\ ReceiverShape(toReceiver) /\ ReceiverShape(toReceiver')
        /\ ~Has(toReceiver', "DEVICE_KEY_OK")
        /\ \A u : Has(toReceiver', u) => Has(toReceiver, u)
        /\ \A f, n : Carries(toReceiver, f, n) => Carries(toReceiver', f, n)
        /\ Len(toReceiver) = 1 => toReceiver' = <<>>
        /\ serverState \in {"ENCRYPTED", "UNRECOGNIZED"}
    BY <1>3, ReceiverReads
    DEF RHandleDeviceKeyOk, Receives, NextMessage, Readable, SInv, AgreeInv
  <2>2. \A t \in Alone : ~Has(toReceiver, t)
    BY <2>1, LoneMessage DEF Alone
  <2>3. rMessageState = "MESSAGE" /\ popup = "none" /\ (conn = "accepted" => sPage = "sender")
    BY <2>1, <2>2 DEF SInv, IInv, KeyInv, AgreeInv, TalkInv, Alone
  <2>4. rSaved # NoRecord => toReceiver' = <<>>
    BY <2>1 DEF SInv, AgreeInv, TalkInv
  <2> QED BY <1>3, <2>1, <2>2, <2>3, <2>4, EmptyShape
      DEF RHandleDeviceKeyOk, Alone, SInv, AgreeInv, ChannelInv, TalkInv, HeldInv, LiveInv,
          EndsInv, HalfDuplex, ContentInv, Holds, Offered, AwaitsPacket, RowsFollowTransfer,
          StreamInSync, senderVars, receiverVars, connectionVars, fileVars, linkVars
<1> QED BY <1>1, <1>2, <1>3

\* A text is read.
LEMMA RTextKeeps ==
  ASSUME SInv, IInv', UNCHANGED senderVars, RHandleText
  PROVE  AgreeInv'
<1>1. /\ toSender = <<>> /\ Has(toReceiver, "TEXT") /\ toReceiver # <<>>
      /\ ReceiverShape(toReceiver) /\ ReceiverShape(toReceiver')
      /\ ~Has(toReceiver', "DEVICE_KEY_OK")
      /\ \A u : Has(toReceiver', u) => Has(toReceiver, u)
      /\ \A f, n : Carries(toReceiver, f, n) => Carries(toReceiver', f, n)
  BY ReceiverReads DEF RHandleText, Receives, NextMessage, Readable, SInv, AgreeInv
<1>2. \A t \in Alone : ~Has(toReceiver, t)
  BY <1>1, LoneMessage DEF Alone
<1> QED BY <1>1, <1>2, EmptyShape
    DEF RHandleText, Receives, NextMessage, Alone, SInv, AgreeInv, ChannelInv, TalkInv, HeldInv,
        LiveInv, EndsInv, HalfDuplex, ContentInv, Holds, Offered, AwaitsPacket,
        RowsFollowTransfer, StreamInSync, senderVars, receiverVars, connectionVars, fileVars,
        linkVars

\* createFile asks for the first packet, or a popup asks the user.
LEMMA CreateFileKeeps ==
  ASSUME SInv, IInv', UNCHANGED senderVars, NEW path, CreateFile(path),
         UNCHANGED <<conn, connectionVars, rStream, rSaved>>,
         serverState \in {"ENCRYPTED", "UNRECOGNIZED"},
         toSender = <<>>, toReceiver' = <<>>, rMessageState = "MESSAGE", rSaved = NoRecord,
         rInfo'.size = Packets[Offered], rInfo'.packetNumber = 0, rInfo'.size > 0, Holds,
         conn = "accepted" => sPage = "sender" /\ sMessageState = "FILE_SENDING"
  PROVE  AgreeInv'
<1>1. Offered' = Offered
  BY DEF Offered, senderVars
<1>2. Offered \in File /\ (sPage = "sender" => sMessageState # "MESSAGE")
  BY DEF SInv, AgreeInv, HeldInv
<1>3. CASE UNCHANGED <<toSender, rMessageState>>
  BY <1>1, <1>2, <1>3, EmptyShape DEF SInv, AgreeInv, ChannelInv, TalkInv, HeldInv, LiveInv,
     EndsInv, HalfDuplex, ContentInv, Holds, AwaitsPacket, RowsFollowTransfer, StreamInSync,
     senderVars, connectionVars
<1>4. CASE SendToSender(FilePacket(0)) /\ rMessageState' = "FILE_SENDING" /\ popup' = "none"
  <2>1. /\ SenderShape(toSender')
        /\ conn # "accepted" => toSender' = <<>>
        /\ \A u : Has(toSender', u) <=> conn = "accepted" /\ u = "FILE_PACKET"
        /\ PacketAsked(toSender', 0)
    BY <1>4, ReceiverAsks
  <2> QED BY <1>1, <1>2, <1>4, <2>1, EmptyShape DEF SInv, AgreeInv, ChannelInv, TalkInv, HeldInv,
      LiveInv, EndsInv, HalfDuplex, ContentInv, Holds, AwaitsPacket, RowsFollowTransfer,
      StreamInSync, senderVars, connectionVars, KeyTalk, FileTalk, Ending
<1> QED BY <1>3, <1>4 DEF CreateFile

\* A file is offered, or given another name in the popup.
LEMMA CreateKeeps ==
  ASSUME SInv, IInv', UNCHANGED senderVars,
         RHandleFileInfo \/ \E name \in Name : CreateUnderAnotherName(name)
  PROVE  AgreeInv'
<1>1. CASE RHandleFileInfo
  <2> DEFINE info == Head(toReceiver)
  <2>1. /\ toSender = <<>> /\ toReceiver' = <<>> /\ Has(toReceiver, "FILE_INFO")
        /\ info = FileInfo(Offered) /\ rMessageState = "MESSAGE"
        /\ serverState \in {"ENCRYPTED", "UNRECOGNIZED"}
    BY <1>1, ReceiverReads
    DEF RHandleFileInfo, Receives, NextMessage, SInv, AgreeInv, IsOf
  <2>2. /\ rSaved = NoRecord /\ Packets[Offered] > 0 /\ Holds
        /\ conn = "accepted" => sPage = "sender" /\ sMessageState = "FILE_SENDING"
    BY <2>1 DEF SInv, AgreeInv, TalkInv, LiveInv, Holds
  <2>3. /\ rInfo' = [rInfo EXCEPT !.size = info.size, !.name = info.name, !.packetNumber = 0]
        /\ CreateFile(<<rInfo.folder, info.name>>)
        /\ UNCHANGED <<conn, connectionVars, rStream, rSaved>>
    BY <1>1 DEF RHandleFileInfo
  <2>4. rInfo'.size = Packets[Offered] /\ rInfo'.packetNumber = 0
    BY <2>1, <2>3 DEF FileInfo, SInv, IInv, TypeOK, ReceiverTypeOK
  <2> HIDE DEF info
  <2> QED BY <2>1, <2>2, <2>3, <2>4, CreateFileKeeps
<1>2. ASSUME NEW name \in Name, CreateUnderAnotherName(name) PROVE AgreeInv'
  <2>1. /\ popup = "exists" /\ CreateFile(<<rInfo.folder, name>>)
        /\ UNCHANGED <<conn, toReceiver, connectionVars, rInfo, rStream, rSaved>>
    BY <1>2 DEF CreateUnderAnotherName
  <2>2. /\ toSender = <<>> /\ toReceiver = <<>> /\ rMessageState = "MESSAGE" /\ rSaved = NoRecord
        /\ rInfo.size = Packets[Offered] /\ rInfo.packetNumber = 0 /\ rInfo.size > 0 /\ Holds
        /\ conn = "accepted" => sPage = "sender" /\ sMessageState = "FILE_SENDING"
        /\ serverState \in {"ENCRYPTED", "UNRECOGNIZED"}
    BY <2>1 DEF SInv, IInv, ReceiverInv, AgreeInv, HeldInv, LiveInv, Holds
  <2> QED BY <2>1, <2>2, CreateFileKeeps
<1> QED BY <1>1, <1>2

\* The user cancels in a popup.
LEMMA SendFileErrorKeeps ==
  ASSUME SInv, IInv', UNCHANGED senderVars, SendFileError
  PROVE  AgreeInv'
<1>1. /\ toSender = <<>> /\ toReceiver = <<>> /\ rSaved = NoRecord /\ rMessageState = "MESSAGE"
      /\ conn = "accepted" => sPage = "sender" /\ sMessageState = "FILE_SENDING"
  BY DEF SendFileError, SInv, AgreeInv, HeldInv, LiveInv
<1>2. /\ SenderShape(toSender')
      /\ conn # "accepted" => toSender' = <<>>
      /\ \A u : Has(toSender', u) <=> conn = "accepted" /\ u = "FILE_ERROR"
      /\ \A n : PacketAsked(toSender', n)
  BY <1>1, ReceiverSignals DEF SendFileError, FileTalk, Ending
<1> QED BY <1>1, <1>2, EmptyShape
    DEF SendFileError, SInv, AgreeInv, ChannelInv, TalkInv, HeldInv, LiveInv, EndsInv, HalfDuplex,
        ContentInv, Holds, Offered, AwaitsPacket, RowsFollowTransfer, StreamInSync, senderVars,
        receiverVars, connectionVars, fileVars, linkVars, KeyTalk, FileTalk, Ending

\* While a transfer is under way all that comes in is the packet asked for.
LEMMA PacketExpected ==
  ASSUME SInv, Readable, rMessageState # "MESSAGE"
  PROVE  /\ Has(toReceiver, "PACKET") /\ Head(toReceiver) = Packet(Offered, rInfo.packetNumber)
         /\ Head(toReceiver).type = "PACKET" /\ Fits(Head(toReceiver))
         /\ AwaitsPacket /\ Offered \in File /\ popup = "none"
         /\ rInfo.packetNumber \in Nat /\ rInfo.size \in Nat
         /\ rInfo.packetNumber < rInfo.size /\ rInfo.size = Packets[Offered]
<1>1. /\ toReceiver \in Seq(Message) /\ toReceiver # <<>> /\ ReceiverShape(toReceiver)
      /\ Has(toReceiver, "PACKET") /\ AwaitsPacket /\ Offered \in File /\ popup = "none"
      /\ rInfo.packetNumber \in Nat /\ rInfo.size \in Nat
      /\ rInfo.packetNumber < rInfo.size /\ rInfo.size = Packets[Offered]
      /\ Carries(toReceiver, Offered, rInfo.packetNumber)
  BY DEF Readable, SInv, IInv, TypeOK, LinkTypeOK, ReceiverTypeOK, AgreeInv, ChannelInv,
     ContentInv, TalkInv, HeldInv, Holds
<1>2. /\ 1 \in 1 .. Len(toReceiver) /\ Head(toReceiver) = toReceiver[1]
      /\ Has(toReceiver, Head(toReceiver).type)
  BY <1>1, FirstAndRest DEF Has
<1>3. Head(toReceiver).type = "PACKET"
  BY <1>1, <1>2, LoneMessage DEF Alone
<1>4. Head(toReceiver) = Packet(Offered, rInfo.packetNumber)
  BY <1>1, <1>2, <1>3 DEF Carries, IsOf
<1>5. Fits(Head(toReceiver))
  BY <1>1, <1>3, <1>4 DEF Fits, Packet
<1> QED BY <1>1, <1>3, <1>4, <1>5

\* Nothing is ever read under the wrong framing.
LEMMA NeverMisread ==
  ASSUME SInv
  PROVE  ~Misread
<1>1. ASSUME Readable, rMessageState = "MESSAGE", Head(toReceiver).type = "PACKET" PROVE FALSE
  <2>1. toReceiver \in Seq(Message) /\ toReceiver # <<>>
    BY <1>1 DEF Readable, SInv, IInv, TypeOK, LinkTypeOK
  <2>2. Has(toReceiver, "PACKET")
    BY <1>1, <2>1, FirstAndRest DEF Has
  <2> QED BY <1>1, <2>2 DEF SInv, AgreeInv, TalkInv, AwaitsPacket
<1> QED BY <1>1, PacketExpected DEF Misread

\* A packet comes in.
LEMMA PacketKeeps ==
  ASSUME SInv, IInv', UNCHANGED senderVars,
         RFinishCancel \/ RFinishFile \/ RConfirmPause \/ RRequestNext
  PROVE  AgreeInv'
<1>1. Readable /\ rMessageState # "MESSAGE" /\ toReceiver' = Tail(toReceiver)
  BY DEF RFinishCancel, RFinishFile, RConfirmPause, RRequestNext, StoresPacket, ReadsPacket
<1>2. /\ AwaitsPacket /\ Offered \in File /\ popup = "none"
      /\ Head(toReceiver).type = "PACKET"
      /\ rInfo.packetNumber \in Nat /\ rInfo.size \in Nat
      /\ rInfo.packetNumber < rInfo.size /\ rInfo.size = Packets[Offered]
  BY <1>1, PacketExpected
<1>3. /\ toSender = <<>> /\ toReceiver' = <<>>
      /\ serverState \in {"ENCRYPTED", "UNRECOGNIZED"}
  BY <1>1, <1>2, ReceiverReads DEF SInv, AgreeInv, Alone
<1>4. Holds /\ (conn = "accepted" => sPage = "sender" /\ sMessageState # "MESSAGE")
  BY <1>1 DEF SInv, AgreeInv, HeldInv, LiveInv, Holds
<1>5. ASSUME NEW t \in Ending \union {"PAUSE_FILE_TRANSFER"}, SendToSender(Signal(t))
      PROVE  /\ SenderShape(toSender')
             /\ conn # "accepted" => toSender' = <<>>
             /\ \A u : Has(toSender', u) <=> conn = "accepted" /\ u = t
             /\ \A n : PacketAsked(toSender', n)
  BY <1>3, <1>5, ReceiverSignals DEF FileTalk, Ending
<1> USE DEF SInv, AgreeInv, ChannelInv, TalkInv, HeldInv, LiveInv, EndsInv, HalfDuplex,
    ContentInv, Holds, Offered, AwaitsPacket, RowsFollowTransfer, StreamInSync, senderVars,
    receiverVars, connectionVars, fileVars, linkVars, KeyTalk, FileTalk, Ending
<1>6. CASE RFinishCancel
  <2>1. /\ rMessageState = "FILE_ABORTING" /\ rMessageState' = "MESSAGE"
        /\ SendToSender(Signal("CANCEL_FILE_TRANSFER"))
        /\ UNCHANGED <<conn, connectionVars, rInfo, rStream, rSaved, popup>>
    BY <1>6 DEF RFinishCancel
  <2>2. /\ SenderShape(toSender')
        /\ conn # "accepted" => toSender' = <<>>
        /\ \A u : Has(toSender', u) <=> conn = "accepted" /\ u = "CANCEL_FILE_TRANSFER"
        /\ \A n : PacketAsked(toSender', n)
    BY <1>5, <2>1
  <2> QED BY <1>1, <1>2, <1>3, <1>4, <2>1, <2>2, EmptyShape
<1>7. ASSUME StoresPacket
      PROVE  /\ rInfo'.size = rInfo.size /\ rInfo'.packetNumber = rInfo.packetNumber + 1
             /\ UNCHANGED <<conn, connectionVars, rStream, popup>>
  BY <1>7 DEF StoresPacket, IInv, TypeOK, ReceiverTypeOK
<1>8. CASE RFinishFile
  <2>1. /\ rMessageState' = "MESSAGE" /\ rSaved' = NoRecord /\ StoresPacket
        /\ SendToSender(Signal("FILE_SUCCESS"))
    BY <1>8 DEF RFinishFile
  <2>2. /\ SenderShape(toSender')
        /\ conn # "accepted" => toSender' = <<>>
        /\ \A u : Has(toSender', u) <=> conn = "accepted" /\ u = "FILE_SUCCESS"
        /\ \A n : PacketAsked(toSender', n)
    BY <1>5, <2>1
  <2> QED BY <1>1, <1>2, <1>3, <1>4, <1>7, <2>1, <2>2, EmptyShape
<1>9. CASE RConfirmPause
  <2>1. /\ rMessageState = "FILE_PAUSED" /\ UNCHANGED <<rMessageState, rSaved>> /\ StoresPacket
        /\ SendToSender(Signal("PAUSE_FILE_TRANSFER"))
        /\ pauseButton' = "Resume"
        /\ rInfo.packetNumber + 1 < rInfo.size
    BY <1>2, <1>9 DEF RConfirmPause, IsLast
  <2>2. /\ SenderShape(toSender')
        /\ conn # "accepted" => toSender' = <<>>
        /\ \A u : Has(toSender', u) <=> conn = "accepted" /\ u = "PAUSE_FILE_TRANSFER"
        /\ \A n : PacketAsked(toSender', n)
    BY <1>5, <2>1
  <2> QED BY <1>1, <1>2, <1>3, <1>4, <1>7, <2>1, <2>2, EmptyShape
<1>10. CASE RRequestNext
  <2>1. /\ rMessageState = "FILE_SENDING" /\ UNCHANGED <<rMessageState, rSaved>> /\ StoresPacket
        /\ SendToSender(FilePacket(rInfo.packetNumber + 1))
        /\ rInfo.packetNumber + 1 < rInfo.size
    BY <1>2, <1>10 DEF RRequestNext, IsLast
  <2>2. /\ SenderShape(toSender')
        /\ conn # "accepted" => toSender' = <<>>
        /\ \A u : Has(toSender', u) <=> conn = "accepted" /\ u = "FILE_PACKET"
        /\ PacketAsked(toSender', rInfo.packetNumber + 1)
    BY <1>2, <1>3, <2>1, ReceiverAsks
  <2> QED BY <1>1, <1>2, <1>3, <1>4, <1>7, <2>1, <2>2, EmptyShape
<1> QED BY <1>6, <1>8, <1>9, <1>10

\* A paused transfer is the only business, but for the pauses the Sender has
\* not read; the user goes on with it or cancels it.
LEMMA PausedWrites ==
  ASSUME SInv, rMessageState = "FILE_PAUSED", pauseButton = "Resume", NEW m \in Message,
         m.type \in {"FILE_PACKET", "CANCEL_FILE_TRANSFER"}, SendToSender(m)
  PROVE  /\ toReceiver = <<>>
         /\ SenderShape(toSender')
         /\ conn # "accepted" => toSender' = toSender
         /\ conn = "accepted" => sPage = "sender" /\ sMessageState # "MESSAGE"
         /\ conn = "accepted" => \A u : Has(toSender', u) =>
              u \in {"PAUSE_FILE_TRANSFER", m.type}
         /\ conn = "accepted" => Has(toSender', m.type)
         /\ conn = "accepted" => \A n : (m.type = "FILE_PACKET" => m.packet = n)
                                       => PacketAsked(toSender', n)
<1>1. ~AwaitsPacket
  BY DEF AwaitsPacket
<1>2. toReceiver = <<>>
  BY <1>1 DEF SInv, AgreeInv, TalkInv
<1>3. conn = "accepted" => sPage = "sender" /\ sMessageState # "MESSAGE"
  BY DEF SInv, AgreeInv, LiveInv, HeldInv, Holds
<1>4. toSender \in Seq(Message) /\ SenderShape(toSender)
  BY DEF SInv, IInv, TypeOK, LinkTypeOK, AgreeInv, ChannelInv
<1>5. CASE conn = "accepted"
  <2>1. \A t \in (KeyTalk \union FileTalk) \ {"PAUSE_FILE_TRANSFER"} : ~Has(toSender, t)
    BY <1>1, <1>5 DEF SInv, AgreeInv, TalkInv, FileTalk
  <2>2. \A u : Has(toSender, u) => u = "PAUSE_FILE_TRANSFER"
    BY <1>4, <2>1 DEF SenderShape, Has
  <2>3. \A n : PacketAsked(toSender, n)
    BY <2>2, Silent
  <2>4. toSender' = Append(toSender, m)
    BY <1>5 DEF SendToSender
  <2>5. m.type \in FileTalk
    BY DEF FileTalk, Ending
  <2>6. SenderShape(toSender') /\ \A u : Has(toSender', u) <=> Has(toSender, u) \/ u = m.type
    BY <1>4, <2>1, <2>4, <2>5, AppendShape
  <2>7. \A n : (m.type = "FILE_PACKET" => m.packet = n) => PacketAsked(toSender', n)
    BY <1>4, <2>3, <2>4, AppendShape
  <2> QED BY <1>2, <1>3, <1>5, <2>2, <2>6, <2>7
<1>6. CASE conn # "accepted"
  BY <1>2, <1>4, <1>6 DEF SendToSender
<1> QED BY <1>3, <1>5, <1>6

\* A paused transfer asks again for the packet it stopped at.
LEMMA ResumeKeeps ==
  ASSUME SInv, IInv', UNCHANGED senderVars, ResumeFileTransfer
  PROVE  AgreeInv'
<1> DEFINE m == FilePacket(rInfo.packetNumber)
<1>1. /\ m \in Message /\ m.type = "FILE_PACKET" /\ m.packet = rInfo.packetNumber
      /\ SendToSender(m)
  BY MessageKinds DEF FilePacket, ResumeFileTransfer, SInv, IInv, TypeOK, ReceiverTypeOK
<1> HIDE DEF m
<1>2. /\ rMessageState = "FILE_PAUSED" /\ pauseButton = "Resume" /\ popup = "none"
      /\ rMessageState' = "FILE_SENDING" /\ pauseButton' = "Pause" /\ rPage = "receiver"
      /\ UNCHANGED <<conn, listening, stale, toReceiver, connectionVars, rInfo, currentPath,
                     rStream, rSaved, popup>>
  BY DEF ResumeFileTransfer, OnReceiverPage
<1>3. /\ toReceiver = <<>> /\ SenderShape(toSender')
      /\ conn # "accepted" => toSender' = toSender
      /\ conn = "accepted" => sPage = "sender" /\ sMessageState # "MESSAGE"
      /\ conn = "accepted" =>
           \A u : Has(toSender', u) => u \in {"PAUSE_FILE_TRANSFER", "FILE_PACKET"}
      /\ conn = "accepted" => Has(toSender', "FILE_PACKET")
      /\ conn = "accepted" => PacketAsked(toSender', rInfo.packetNumber)
  BY <1>1, <1>2, PausedWrites
<1> QED BY <1>2, <1>3, EmptyShape
    DEF SInv, AgreeInv, ChannelInv, TalkInv, HeldInv, LiveInv, EndsInv, HalfDuplex, ContentInv,
        Holds, Offered, AwaitsPacket, RowsFollowTransfer, StreamInSync, senderVars, receiverVars,
        connectionVars, fileVars, linkVars, KeyTalk, FileTalk, Ending

\* A cancelled transfer waits for the packet under way, or tells the Sender.
LEMMA CancelKeeps ==
  ASSUME SInv, IInv', Calm, UNCHANGED senderVars, CancelFileTransfer
  PROVE  AgreeInv'
<1>1. rSaved = NoRecord /\ ~(rMessageState = "FILE_PAUSED" /\ pauseButton = "Pause")
  BY DEF Calm, CancelFileTransfer
<1>2. /\ rMessageState # "MESSAGE" /\ rPage = "receiver" /\ popup = "none"
      /\ pauseButton' = "Pause"
      /\ UNCHANGED <<conn, listening, stale, toReceiver, connectionVars, rInfo, currentPath,
                     rStream, rSaved, popup>>
  BY DEF CancelFileTransfer, OnReceiverPage
<1>3. CASE rMessageState # "FILE_PAUSED"
  <2>1. rMessageState' = "FILE_ABORTING" /\ UNCHANGED toSender
    BY <1>3 DEF CancelFileTransfer
  <2>2. rMessageState \in {"FILE_SENDING", "FILE_ABORTING"}
    BY <1>2, <1>3 DEF SInv, IInv, TypeOK, ReceiverTypeOK, ReceiverMessageState
  <2> QED BY <1>1, <1>2, <2>1, <2>2
      DEF SInv, AgreeInv, ChannelInv, TalkInv, HeldInv, LiveInv, EndsInv, HalfDuplex, ContentInv,
          Holds, Offered, AwaitsPacket, RowsFollowTransfer, StreamInSync, senderVars,
          receiverVars, connectionVars, fileVars, linkVars, KeyTalk, FileTalk, Ending
<1>4. CASE rMessageState = "FILE_PAUSED"
  <2> DEFINE m == Signal("CANCEL_FILE_TRANSFER")
  <2>1. /\ m \in Message /\ m.type = "CANCEL_FILE_TRANSFER" /\ SendToSender(m)
        /\ rMessageState' = "MESSAGE"
    BY <1>4, MessageKinds DEF CancelFileTransfer, SignalType
  <2>2. pauseButton = "Resume"
    BY <1>1, <1>4 DEF SInv, IInv, TypeOK, ReceiverTypeOK
  <2> HIDE DEF m
  <2>3. /\ toReceiver = <<>> /\ SenderShape(toSender')
        /\ conn # "accepted" => toSender' = toSender
        /\ conn = "accepted" => sPage = "sender" /\ sMessageState # "MESSAGE"
        /\ conn = "accepted" =>
             \A u : Has(toSender', u) => u \in {"PAUSE_FILE_TRANSFER", "CANCEL_FILE_TRANSFER"}
        /\ conn = "accepted" => \A n : PacketAsked(toSender', n)
    BY <1>4, <2>1, <2>2, PausedWrites
  <2> QED BY <1>1, <1>2, <1>4, <2>1, <2>3, EmptyShape
      DEF SInv, AgreeInv, ChannelInv, TalkInv, HeldInv, LiveInv, EndsInv, HalfDuplex, ContentInv,
          Holds, Offered, AwaitsPacket, RowsFollowTransfer, StreamInSync, senderVars,
          receiverVars, connectionVars, fileVars, linkVars, KeyTalk, FileTalk, Ending
<1> QED BY <1>3, <1>4

\* Every step of the Receiver.
LEMMA ReceiverAgrees ==
  ASSUME SInv, IInv', Calm, ReceiverStep, UNCHANGED senderVars
  PROVE  AgreeInv'
<1>1. ~RCrash
  BY DEF Calm, RCrash
<1> QED BY <1>1, ReceiverQuietKeeps, RSuspendKeeps, ReceiverEndsKeeps, ReceiverKeyKeeps, RTextKeeps,
        CreateKeeps, SendFileErrorKeeps, NeverMisread, PacketKeeps, ResumeKeeps, CancelKeeps
        DEF ReceiverStep, ReceiverUser, ReceiverHandlers

-----------------------------------------------------------------------------
(* The invariant and what follows from it.                                 *)

\* The network cuts the connection: both channels keep what may still be read.
LEMMA LinkDropKeeps ==
  ASSUME SInv, IInv', LinkDrop, UNCHANGED <<senderVars, receiverVars>>
  PROVE  AgreeInv'
<1>1. /\ toSender \in Seq(Message) /\ SenderShape(toSender)
      /\ toReceiver \in Seq(Message) /\ ReceiverShape(toReceiver)
      /\ toSender' \in Prefixes(toSender) /\ toReceiver' \in Prefixes(toReceiver)
  BY DEF LinkDrop, SInv, IInv, TypeOK, LinkTypeOK, AgreeInv, ChannelInv
<1>2. /\ SenderShape(toSender') /\ \A u : Has(toSender', u) => Has(toSender, u)
      /\ toSender = <<>> => toSender' = <<>>
  BY <1>1, PrefixShape, PartSays, EmptySeq DEF Prefixes
<1>3. /\ ReceiverShape(toReceiver') /\ \A u : Has(toReceiver', u) => Has(toReceiver, u)
      /\ \A f, n : Carries(toReceiver, f, n) => Carries(toReceiver', f, n)
      /\ Len(toReceiver) = 1 => toReceiver' = <<>> \/ toReceiver' = toReceiver
      /\ toReceiver = <<>> => toReceiver' = <<>>
  BY <1>1, PrefixShape, PartSays, EmptySeq DEF Prefixes
<1>4. Has(toReceiver, "PACKET") => Len(toReceiver) = 1
  BY <1>1, LoneMessage DEF Alone
<1> QED BY <1>2, <1>3, <1>4, EmptyShape
    DEF LinkDrop, SInv, AgreeInv, ChannelInv, TalkInv, HeldInv, LiveInv, EndsInv, HalfDuplex,
        ContentInv, Holds, Offered, AwaitsPacket, RowsFollowTransfer, StreamInSync, senderVars,
        receiverVars, connectionVars, fileVars, linkVars

\* SInv holds in every reachable state.
THEOREM SessionInvariance ==
  ASSUME Calm
  PROVE  Spec => []SInv
<1>1. Init => SInv
  <2> SUFFICES ASSUME Init PROVE AgreeInv
    BY Initially DEF SInv
  <2> QED BY EmptyShape
      DEF Init, LinkInit, SenderInit, ReceiverInit, SInv, AgreeInv, ChannelInv, TalkInv, HeldInv,
          LiveInv, EndsInv, HalfDuplex, ContentInv, Holds, Offered, AwaitsPacket,
          RowsFollowTransfer, StreamInSync, senderVars, receiverVars, connectionVars, fileVars,
          linkVars
<1>2. SInv /\ [Next]_vars => SInv'
  <2> SUFFICES ASSUME SInv, [Next]_vars PROVE SInv'
    OBVIOUS
  <2>1. IInv'
    BY Kept DEF SInv
  <2>2. CASE UNCHANGED vars
    BY <2>1, <2>2 DEF vars, SInv, AgreeInv, ChannelInv, TalkInv, HeldInv, LiveInv, EndsInv,
       HalfDuplex, ContentInv, Holds, Offered, AwaitsPacket, RowsFollowTransfer, StreamInSync,
       senderVars, receiverVars, connectionVars, fileVars, linkVars
  <2>3. CASE Next
    BY <2>1, <2>3, SenderAgrees, ReceiverAgrees, LinkDropKeeps DEF Next, SInv
  <2> QED BY <2>2, <2>3
<1> QED BY <1>1, <1>2, PTL DEF Spec

\* A channel holds at most one request, or one packet.
LEMMA AtMostOne ==
  ASSUME NEW ch \in Seq(Message), NEW t, NEW k, \A i \in 1 .. Len(ch) : ch[i].type = t => i = k
  PROVE  Count(ch, t) = IF Has(ch, t) THEN 1 ELSE 0
<1> DEFINE S == {i \in 1 .. Len(ch) : ch[i].type = t}
<1>1. CASE Has(ch, t)
  <2>1. S = {k}
    BY <1>1 DEF Has
  <2> QED BY <1>1, <2>1, FS_Singleton DEF Count
<1>2. CASE ~Has(ch, t)
  <2>1. S = {}
    BY <1>2 DEF Has
  <2> QED BY <1>2, <2>1, FS_EmptySet DEF Count
<1> QED BY <1>1, <1>2

\* While the Receiver awaits a packet exactly one request or packet is under
\* way, and none otherwise: no wake-up is lost and no packet is asked for twice.
THEOREM StopAndWait ==
  ASSUME Calm
  PROVE  Spec => []OneRequestAtATime
<1>1. SInv => OneRequestAtATime
  <2> SUFFICES ASSUME SInv, InSession PROVE OneRequestAtATime
    BY DEF OneRequestAtATime
  <2>1. /\ toSender \in Seq(Message) /\ SenderShape(toSender)
        /\ toReceiver \in Seq(Message) /\ ReceiverShape(toReceiver)
    BY DEF SInv, IInv, TypeOK, LinkTypeOK, AgreeInv, ChannelInv
  <2>2. Count(toSender, "FILE_PACKET") = IF Has(toSender, "FILE_PACKET") THEN 1 ELSE 0
    BY <2>1, AtMostOne DEF SenderShape
  <2>3. Count(toReceiver, "PACKET") = IF Has(toReceiver, "PACKET") THEN 1 ELSE 0
    <3>1. \A i \in 1 .. Len(toReceiver) : toReceiver[i].type = "PACKET" => i = 1
      BY <2>1 DEF ReceiverShape, Alone
    <3> QED BY <2>1, <3>1, AtMostOne
  <2>4. Has(toSender, "FILE_PACKET") \/ Has(toReceiver, "PACKET") <=> AwaitsPacket
    BY DEF SInv, AgreeInv, TalkInv, LiveInv, AwaitsPacket, InSession
  <2>5. ~(Has(toSender, "FILE_PACKET") /\ Has(toReceiver, "PACKET"))
    BY EmptyShape DEF SInv, AgreeInv, ChannelInv, HalfDuplex
  <2>6. rMessageState # "MESSAGE" => sMessageState # "MESSAGE"
    BY DEF SInv, AgreeInv, HeldInv, LiveInv, Holds, InSession
  <2> QED BY <2>2, <2>3, <2>4, <2>5, <2>6 DEF OneRequestAtATime, Outstanding
<1> QED BY <1>1, SessionInvariance, PTL

\* Every text and every packet is read under the framing it was sent in, over
\* any number of pauses, cuts and resumptions.
THEOREM AlwaysInSync ==
  ASSUME Calm
  PROVE  Spec => []StreamInSync
<1>1. SInv => StreamInSync
  BY DEF SInv, AgreeInv, EndsInv
<1> QED BY <1>1, SessionInvariance, PTL

\* SenderPage offers to send only when no transfer is under way.
THEOREM RowsGuardTransfer ==
  ASSUME Calm
  PROVE  Spec => []RowsFollowTransfer
<1>1. SInv => RowsFollowTransfer
  BY DEF SInv, AgreeInv, EndsInv
<1> QED BY <1>1, SessionInvariance, PTL

\* A popup of ReceiverPage has the session to itself.
THEOREM PopupsWaitAlone ==
  ASSUME Calm
  PROVE  Spec => []PopupHoldsTransfer
<1>1. SInv => PopupHoldsTransfer
  BY DEF SInv, AgreeInv, HeldInv, LiveInv, PopupHoldsTransfer, InSession
<1> QED BY <1>1, SessionInvariance, PTL
=============================================================================
