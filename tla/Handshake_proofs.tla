--------------------------- MODULE Handshake_proofs ---------------------------
(***************************************************************************)
(* How a handshake leads into a session and a session ends, proved under   *)
(* every liberty, a killed application included: the exchange of keys has  *)
(* the connection to itself, and once it is over neither ERROR nor a timer *)
(* can come, so that a session ends only with a return to the start page.  *)
(***************************************************************************)
EXTENDS LuminT_proofs

\* DEVICE_KEY_OK comes before everything else.
OkFirst(ch) == \A i \in 1 .. Len(ch) : ch[i].type = "DEVICE_KEY_OK" => i = 1

\* What is under way while the keys are exchanged, and after.
KeyPhase ==
  /\ OkFirst(toReceiver)
  /\ \A t \in KeyTalk : Has(toSender, t) =>
       /\ Len(toSender) = 1 /\ toReceiver = <<>>
       /\ sPage # "sender" /\ rPage # "receiver" /\ clientState # "UNRECOGNIZED"
  /\ \A t \in {"DEVICE_KEY", "ERROR"} : Has(toReceiver, t) =>
       /\ Len(toReceiver) = 1 /\ toSender = <<>>
       /\ sPage # "sender" /\ rPage # "receiver"
  /\ Has(toReceiver, "DEVICE_KEY_OK") => toSender = <<>> /\ rPage # "receiver"
  /\ \A t \in {"TEXT", "FILE_INFO", "PACKET"} : Has(toReceiver, t) =>
       rPage = "receiver" \/ Has(toReceiver, "DEVICE_KEY_OK")
  /\ \A t \in FileTalk : Has(toSender, t) /\ conn = "accepted" => rPage = "receiver"
  /\ \A t : Has(toSender, t) => t \in KeyTalk \union FileTalk
  /\ \A t : Has(toReceiver, t) => t \in Alone \union Queued

\* What each end knows of the other then.
EndsPhase ==
  /\ popup # "none" => rPage = "receiver"
  /\ rPage = "receiver" => serverState = "ENCRYPTED"
  /\ sPage = "sender" => clientState = "ENCRYPTED"
  /\ serverState = "UNRECOGNIZED" =>
       toReceiver = <<>> /\ (conn = "accepted" => Has(toSender, "ERROR"))
  /\ clientState = "UNRECOGNIZED" =>
       toSender = <<>> /\ (conn = "accepted" => Has(toReceiver, "ERROR"))
  /\ conn = "accepted" /\ serverState = "ENCRYPTING" =>
       toSender = <<>> /\ toReceiver = <<>> /\ sPage # "sender"
  /\ conn = "accepted" /\ sPage = "sender" /\ rPage # "receiver" =>
       Has(toReceiver, "DEVICE_KEY_OK")

HInv == IInv /\ KeyPhase /\ EndsPhase

-----------------------------------------------------------------------------
(* Channels.                                                               *)

\* Reading a message.
LEMMA ReadOff ==
  ASSUME NEW ch \in Seq(Message), ch # <<>>, OkFirst(ch)
  PROVE  /\ Has(ch, Head(ch).type) /\ Tail(ch) \in Seq(Message)
         /\ \A t : Has(Tail(ch), t) => Has(ch, t)
         /\ Len(ch) = 1 => Tail(ch) = <<>>
         /\ OkFirst(Tail(ch)) /\ ~Has(Tail(ch), "DEVICE_KEY_OK")
         /\ Head(ch).type # "DEVICE_KEY_OK" => ~Has(ch, "DEVICE_KEY_OK")
<1> DEFINE rest == Tail(ch)
<1>1. /\ Len(ch) \in Nat /\ 1 \in 1 .. Len(ch) /\ Head(ch) = ch[1]
      /\ rest \in Seq(Message) /\ Len(rest) = Len(ch) - 1
      /\ \A i \in 1 .. Len(rest) : i + 1 \in 2 .. Len(ch) /\ rest[i] = ch[i + 1]
      /\ Len(ch) = 1 => rest = <<>>
  BY FirstAndRest
<1> HIDE DEF rest
<1>2. \A i \in 1 .. Len(rest) : rest[i].type # "DEVICE_KEY_OK"
  <2> SUFFICES ASSUME NEW i \in 1 .. Len(rest), rest[i].type = "DEVICE_KEY_OK" PROVE FALSE
    OBVIOUS
  <2>1. i + 1 \in 1 .. Len(ch) /\ i + 1 # 1 /\ ch[i + 1].type = "DEVICE_KEY_OK"
    BY <1>1
  <2> QED BY <2>1 DEF OkFirst
<1>3. \A t : Has(rest, t) => Has(ch, t)
  BY <1>1 DEF Has
<1>4. Head(ch).type # "DEVICE_KEY_OK" => ~Has(ch, "DEVICE_KEY_OK")
  BY <1>1 DEF Has, OkFirst
<1> QED BY <1>1, <1>2, <1>3, <1>4 DEF Has, OkFirst, rest

\* Cutting a channel.
LEMMA CutOff ==
  ASSUME NEW ch \in Seq(Message), NEW p \in Prefixes(ch)
  PROVE  /\ \A t : Has(p, t) => Has(ch, t)
         /\ Len(ch) = 1 => p = <<>> \/ p = ch
         /\ ch = <<>> => p = <<>>
         /\ OkFirst(ch) => OkFirst(p)
         /\ OkFirst(ch) /\ Has(ch, "DEVICE_KEY_OK") =>
              \A t : Has(p, t) => Has(p, "DEVICE_KEY_OK")
<1>1. /\ p \in Seq(Message) /\ Part(p, ch) /\ (Len(ch) = 1 => p = <<>> \/ p = ch)
  BY PrefixShape
<1>2. PICK n \in 0 .. Len(ch) : p = SubSeq(ch, 1, n)
  BY DEF Prefixes
<1>3. Len(p) = n /\ \A i \in 1 .. Len(p) : i \in 1 .. Len(ch) /\ p[i] = ch[i]
  BY <1>2
<1>4. ch = <<>> => p = <<>>
  BY <1>1, <1>3, EmptySeq
<1>5. OkFirst(ch) => OkFirst(p)
  BY <1>3 DEF OkFirst
<1>6. ASSUME OkFirst(ch), Has(ch, "DEVICE_KEY_OK"), NEW t, Has(p, t)
      PROVE  Has(p, "DEVICE_KEY_OK")
  <2>1. 1 \in 1 .. Len(p)
    BY <1>3, <1>6 DEF Has
  <2>2. ch[1].type = "DEVICE_KEY_OK"
    BY <1>6 DEF Has, OkFirst
  <2> QED BY <1>3, <2>1, <2>2 DEF Has
<1> QED BY <1>1, <1>4, <1>5, <1>6, PartSays

\* Writing a message.
LEMMA WriteOn ==
  ASSUME NEW ch \in Seq(Message), NEW m \in Message
  PROVE  /\ \A t : Has(Append(ch, m), t) <=> Has(ch, t) \/ t = m.type
         /\ ch = <<>> => Len(Append(ch, m)) = 1 /\ OkFirst(Append(ch, m))
         /\ OkFirst(ch) /\ m.type # "DEVICE_KEY_OK" => OkFirst(Append(ch, m))
<1>1. \A t : Has(Append(ch, m), t) <=> Has(ch, t) \/ t = m.type
  BY AppendShape
<1>2. /\ Len(Append(ch, m)) = Len(ch) + 1 /\ Len(ch) \in Nat
      /\ Append(ch, m)[Len(ch) + 1] = m
      /\ \A i \in 1 .. Len(ch) : Append(ch, m)[i] = ch[i]
      /\ \A i \in 1 .. Len(Append(ch, m)) : i = Len(ch) + 1 \/ i \in 1 .. Len(ch)
  OBVIOUS
<1>3. ch = <<>> => Len(ch) = 0
  OBVIOUS
<1> QED BY <1>1, <1>2, <1>3 DEF OkFirst

-----------------------------------------------------------------------------
(* Steps of the Sender.                                                    *)

\* The Sender leaves the connection, however abruptly.
LEMMA SenderGone ==
  ASSUME HInv, UNCHANGED receiverVars, toSender' = <<>>,
         toReceiver' = toReceiver \/ toReceiver' \in Prefixes(toReceiver),
         conn' # "accepted", clientState' = "DISCONNECTED", sPage' # "sender"
  PROVE  KeyPhase' /\ EndsPhase'
<1>1. toReceiver \in Seq(Message) /\ OkFirst(toReceiver)
  BY DEF HInv, IInv, TypeOK, LinkTypeOK, KeyPhase
<1>2. /\ \A t : Has(toReceiver', t) => Has(toReceiver, t)
      /\ Len(toReceiver) = 1 => toReceiver' = <<>> \/ toReceiver' = toReceiver
      /\ toReceiver = <<>> => toReceiver' = <<>>
      /\ OkFirst(toReceiver')
      /\ Has(toReceiver, "DEVICE_KEY_OK") =>
           \A t : Has(toReceiver', t) => Has(toReceiver', "DEVICE_KEY_OK")
  BY <1>1, CutOff
<1> QED BY <1>1, <1>2, EmptyShape DEF HInv, KeyPhase, EndsPhase, receiverVars, connectionVars

\* Every way the Sender has of leaving.
LEMMA SenderDeparts ==
  ASSUME HInv, UNCHANGED receiverVars,
         SSocketDisconnected \/ SEncryptingTimeout \/ SBack \/ SCrash \/ SQuit
  PROVE  KeyPhase' /\ EndsPhase'
<1> USE DEF HInv, IInv, SenderInv
<1>1. CASE SSocketDisconnected
  BY <1>1, SenderGone DEF SSocketDisconnected, SLeave
<1>2. CASE SEncryptingTimeout
  BY <1>2, SenderGone DEF SEncryptingTimeout, SLeave, ClientAbort, Surviving
<1>3. CASE SBack /\ clientState # "DISCONNECTED"
  BY <1>3, SenderGone DEF SBack, ClientAbort, Surviving
<1>4. CASE SBack /\ clientState = "DISCONNECTED"
  BY <1>4 DEF SBack, KeyPhase, EndsPhase, linkVars, receiverVars, connectionVars
<1>5. CASE SCrash \/ SQuit
  BY <1>5, SenderGone DEF SCrash, SQuit, SRestart, ClientAbort, Surviving
<1> QED BY <1>1, <1>2, <1>3, <1>4, <1>5

\* Steps before the connection is encrypted, and those that touch no connection.
LEMMA SenderConnects ==
  ASSUME HInv, UNCHANGED receiverVars,
         \/ SOpenWaitingPage \/ ConnectToReceiver \/ SocketConnected \/ SocketError
         \/ SSocketReady \/ SRegister \/ SSuspend
  PROVE  KeyPhase' /\ EndsPhase'
<1> USE DEF HInv, IInv, SenderInv, KeyPhase, EndsPhase, linkVars, senderVars, receiverVars,
        connectionVars
<1>1. CASE SOpenWaitingPage \/ SRegister \/ SSuspend
  BY <1>1 DEF SOpenWaitingPage, SRegister, SSuspend
<1>2. CASE ConnectToReceiver
  BY <1>2, EmptyShape DEF ConnectToReceiver
<1>3. CASE SocketConnected \/ SocketError
  BY <1>3 DEF SocketConnected, SocketError
<1>4. CASE SSocketReady
  BY <1>4 DEF SSocketReady
<1> QED BY <1>1, <1>2, <1>3, <1>4

\* The Sender reads its part of the exchange of keys, and answers.
LEMMA SenderKeys ==
  ASSUME HInv, UNCHANGED receiverVars,
         SHandleKeyRequest \/ SHandleDeviceKey \/ SHandleError
  PROVE  KeyPhase' /\ EndsPhase'
<1>1. PICK t \in KeyTalk : Reads(t)
  BY DEF SHandleKeyRequest, SHandleDeviceKey, SHandleError, KeyTalk
<1>2. /\ toSender \in Seq(Message) /\ toSender # <<>> /\ Head(toSender).type = t
      /\ toSender' = Tail(toSender) /\ clientState \in {"ENCRYPTED", "UNRECOGNIZED"}
  BY <1>1 DEF Reads, HInv, IInv, TypeOK, LinkTypeOK
<1>3. Has(toSender, t)
  BY <1>2, FirstAndRest DEF Has
<1>4. /\ Len(toSender) = 1 /\ toReceiver = <<>> /\ sPage # "sender" /\ rPage # "receiver"
      /\ clientState = "ENCRYPTED"
  BY <1>2, <1>3 DEF HInv, KeyPhase
<1>5. toSender' = <<>>
  BY <1>2, <1>4, FirstAndRest
<1>6. ASSUME NEW u \in {"DEVICE_KEY", "DEVICE_KEY_OK", "ERROR"}, SendToReceiver(Signal(u))
      PROVE  /\ \A v : Has(toReceiver', v) <=> conn = "accepted" /\ v = u
             /\ conn = "accepted" => Len(toReceiver') = 1
             /\ conn # "accepted" => toReceiver' = <<>>
             /\ OkFirst(toReceiver')
  <2> DEFINE m == Signal(u)
  <2>1. m \in Message /\ m.type = u /\ SendToReceiver(m)
    BY <1>6, MessageKinds DEF SignalType
  <2> HIDE DEF m
  <2>2. CASE conn = "accepted"
    <3>1. toReceiver \in Seq(Message) /\ toReceiver' = Append(toReceiver, m)
      BY <2>1, <2>2 DEF SendToReceiver, HInv, IInv, TypeOK, LinkTypeOK
    <3>2. \A v : ~Has(toReceiver, v)
      BY <1>4, EmptyShape
    <3> QED BY <1>4, <2>1, <2>2, <3>1, <3>2, WriteOn
  <2>3. CASE conn # "accepted"
    BY <1>4, <2>1, <2>3, EmptyShape DEF SendToReceiver, OkFirst
  <2> QED BY <2>2, <2>3
<1>7. \A v : ~Has(toSender', v)
  BY <1>5, EmptyShape
<1>8. t # "ERROR" /\ conn = "accepted" => serverState \notin {"ENCRYPTING", "UNRECOGNIZED"}
  <2>1. t # "ERROR" => ~Has(toSender, "ERROR")
    BY <1>3, <1>4 DEF Has
  <2> QED BY <1>2, <2>1 DEF HInv, EndsPhase
<1> USE DEF HInv, KeyPhase, EndsPhase, receiverVars, connectionVars, Alone, Queued
<1>9. CASE SHandleKeyRequest
  <2>1. /\ SendToReceiver(Signal("DEVICE_KEY"))
        /\ UNCHANGED <<conn, clientState, sPage>>
    BY <1>9 DEF SHandleKeyRequest, senderVars
  <2>3. t # "ERROR"
    BY <1>2, <1>9 DEF SHandleKeyRequest, Reads
  <2>2. \A v : Has(toReceiver', v) <=> conn = "accepted" /\ v = "DEVICE_KEY"
    BY <1>6, <2>1
  <2> QED BY <1>4, <1>5, <1>6, <1>7, <1>8, <2>1, <2>2, <2>3
<1>10. CASE SHandleDeviceKey /\ SKeyRegistered
  <2>1. /\ SendToReceiver(Signal("DEVICE_KEY_OK"))
        /\ sPage' = "sender" /\ UNCHANGED <<conn, clientState>>
    BY <1>10 DEF SHandleDeviceKey
  <2>3. t # "ERROR"
    BY <1>2, <1>10 DEF SHandleDeviceKey, Reads
  <2>2. \A v : Has(toReceiver', v) <=> conn = "accepted" /\ v = "DEVICE_KEY_OK"
    BY <1>6, <2>1
  <2> QED BY <1>4, <1>5, <1>6, <1>7, <1>8, <2>1, <2>2, <2>3
<1>11. CASE SHandleDeviceKey /\ ~SKeyRegistered
  <2>1. /\ SendToReceiver(Signal("ERROR"))
        /\ clientState' = "UNRECOGNIZED" /\ UNCHANGED <<conn, sPage>>
    BY <1>11 DEF SHandleDeviceKey
  <2>3. t # "ERROR"
    BY <1>2, <1>11 DEF SHandleDeviceKey, Reads
  <2>2. \A v : Has(toReceiver', v) <=> conn = "accepted" /\ v = "ERROR"
    BY <1>6, <2>1
  <2> QED BY <1>4, <1>5, <1>6, <1>7, <1>8, <2>1, <2>2, <2>3
<1>12. CASE SHandleError
  BY <1>4, <1>5, <1>12, <1>7, EmptyShape DEF SHandleError
<1> QED BY <1>9, <1>10, <1>11, <1>12

\* Within the session the Sender may read and write as it likes.
LEMMA SenderTalks ==
  ASSUME HInv, UNCHANGED receiverVars, UNCHANGED <<conn, clientState, sPage>>,
         \/ UNCHANGED toSender /\ sPage = "sender"
         \/ \E t \in FileTalk : Reads(t),
         \/ UNCHANGED toReceiver
         \/ \E m \in Message : m.type \in {"TEXT", "FILE_INFO", "PACKET"} /\ SendToReceiver(m)
  PROVE  KeyPhase' /\ EndsPhase'
<1>1. /\ toSender \in Seq(Message) /\ toReceiver \in Seq(Message)
  BY DEF HInv, IInv, TypeOK, LinkTypeOK
<1> DEFINE Talking ==
             /\ \A t : Has(toSender', t) => Has(toSender, t)
             /\ toSender = <<>> => toSender' = <<>>
             /\ \A t \in KeyTalk : ~Has(toSender, t)
             /\ conn = "accepted" =>
                  /\ rPage = "receiver" \/ Has(toReceiver, "DEVICE_KEY_OK")
                  /\ \A t \in {"DEVICE_KEY", "ERROR"} : ~Has(toReceiver, t)
<1>2. Talking
  <2>1. CASE UNCHANGED toSender /\ sPage = "sender"
    BY <2>1 DEF HInv, KeyPhase, EndsPhase
  <2>2. ASSUME NEW t \in FileTalk, Reads(t) PROVE Talking
    <3>1. toSender # <<>> /\ Head(toSender).type = t /\ toSender' = Tail(toSender)
      BY <2>2 DEF Reads
    <3>2. Has(toSender, t) /\ \A u : Has(toSender', u) => Has(toSender, u)
      BY <1>1, <3>1, TailMessage
    <3>3. ASSUME NEW u \in KeyTalk, Has(toSender, u) PROVE FALSE
      <4>1. Len(toSender) = 1
        BY <3>3 DEF HInv, KeyPhase
      <4>2. t = u
        BY <3>2, <3>3, <4>1 DEF Has
      <4> QED BY <4>2 DEF KeyTalk, FileTalk, Ending
    <3> QED BY <3>1, <3>2, <3>3 DEF HInv, KeyPhase
  <2> QED BY <2>1, <2>2
<1>3. CASE UNCHANGED toReceiver
  BY <1>2, <1>3 DEF HInv, KeyPhase, EndsPhase, receiverVars, connectionVars
<1>4. ASSUME NEW m \in Message, m.type \in {"TEXT", "FILE_INFO", "PACKET"}, SendToReceiver(m)
      PROVE  KeyPhase' /\ EndsPhase'
  <2>1. CASE conn # "accepted"
    BY <1>2, <1>4, <2>1 DEF SendToReceiver, HInv, KeyPhase, EndsPhase, receiverVars, connectionVars
  <2>2. CASE conn = "accepted"
    <3>1. /\ \A t : Has(toReceiver', t) <=> Has(toReceiver, t) \/ t = m.type
          /\ OkFirst(toReceiver')
      BY <1>1, <1>4, <2>2, WriteOn DEF SendToReceiver, HInv, KeyPhase
    <3>2. serverState # "UNRECOGNIZED" /\ clientState # "UNRECOGNIZED"
      BY <1>2, <2>2 DEF HInv, EndsPhase, KeyTalk
    <3>3. serverState # "ENCRYPTING"
      BY <1>2, <2>2, EmptyShape DEF HInv, EndsPhase
    <3> QED BY <1>2, <1>4, <2>2, <3>1, <3>2, <3>3
            DEF HInv, KeyPhase, EndsPhase, receiverVars, connectionVars, Alone, Queued
  <2> QED BY <2>1, <2>2
<1> QED BY <1>3, <1>4

\* Every step of the Sender.
LEMMA SenderKeepsPhase ==
  ASSUME HInv, SenderStep, UNCHANGED receiverVars
  PROVE  KeyPhase' /\ EndsPhase'
<1>1. CASE SendTextMessage
  <2>1. Signal("TEXT") \in Message /\ Signal("TEXT").type = "TEXT"
    BY MessageKinds DEF SignalType
  <2> QED BY <1>1, <2>1, SenderTalks DEF SendTextMessage, senderVars
<1>2. ASSUME NEW f \in File, SendFile(f) PROVE KeyPhase' /\ EndsPhase'
  <2>1. FileInfo(f) \in Message /\ FileInfo(f).type = "FILE_INFO"
    BY MessageKinds
  <2>2. UNCHANGED toReceiver \/ SendToReceiver(FileInfo(f))
    BY <1>2 DEF SendFile
  <2> QED BY <1>2, <2>1, <2>2, SenderTalks DEF SendFile
<1>3. CASE SHandleFilePacket
  <2> DEFINE n == Head(toSender).packet
  <2>1. n \in Nat
    BY <1>3, MessageFields, TailMessage
    DEF SHandleFilePacket, Reads, HInv, IInv, TypeOK, LinkTypeOK
  <2> HIDE DEF n
  <2>2. \/ UNCHANGED toReceiver
        \/ sFile \in File /\ SendToReceiver(Packet(sFile, n))
    BY <1>3 DEF SHandleFilePacket, HInv, IInv, TypeOK, SenderTypeOK, n
  <2>3. sFile \in File => Packet(sFile, n) \in Message /\ Packet(sFile, n).type = "PACKET"
    BY <2>1, MessageKinds
  <2>4. Reads("FILE_PACKET") /\ UNCHANGED <<conn, clientState, sPage>>
    BY <1>3 DEF SHandleFilePacket, senderVars
  <2> QED BY <2>2, <2>3, <2>4, SenderTalks DEF FileTalk
<1>4. CASE SHandleCancel \/ SHandleFileSuccess \/ SHandleFileError \/ SHandlePause
  <2>1. PICK t \in FileTalk : Reads(t)
    BY <1>4 DEF SHandleCancel, SHandleFileSuccess, SHandleFileError, SHandlePause, FileTalk, Ending
  <2>2. UNCHANGED <<conn, clientState, sPage, toReceiver>>
    BY <1>4 DEF SHandleCancel, SHandleFileSuccess, SHandleFileError, SHandlePause, FileDone
  <2> QED BY <2>1, <2>2, SenderTalks
<1> QED BY <1>1, <1>2, <1>3, <1>4, SenderDeparts, SenderConnects, SenderKeys
        DEF SenderStep, SenderUser, SenderHandlers

-----------------------------------------------------------------------------
(* Steps of the Receiver.                                                  *)

\* The Receiver leaves the connection, however abruptly.
LEMMA ReceiverGone ==
  ASSUME HInv, UNCHANGED senderVars, toReceiver' = <<>>,
         toSender' = toSender \/ toSender' \in Prefixes(toSender),
         conn' # "accepted", serverState' = "DISCONNECTED", rPage' # "receiver", popup' = "none"
  PROVE  KeyPhase' /\ EndsPhase'
<1>1. toSender \in Seq(Message)
  BY DEF HInv, IInv, TypeOK, LinkTypeOK
<1>2. /\ \A t : Has(toSender', t) => Has(toSender, t)
      /\ Len(toSender) = 1 => toSender' = <<>> \/ toSender' = toSender
      /\ toSender = <<>> => toSender' = <<>>
  BY <1>1, CutOff
<1>3. OkFirst(<<>>)
  BY DEF OkFirst
<1> QED BY <1>1, <1>2, <1>3, EmptyShape DEF HInv, KeyPhase, EndsPhase, senderVars

\* stopServer() is such a departure.
LEMMA ServerGone ==
  ASSUME HInv, UNCHANGED senderVars, NEW state, StopServer(state),
         state = "CONNECTING" <=> serverState = "CONNECTING", rPage' # "receiver"
  PROVE  KeyPhase' /\ EndsPhase'
<1>1. /\ toReceiver' = <<>> /\ conn' # "accepted"
      /\ toSender' = toSender \/ toSender' \in Prefixes(toSender)
  BY DEF StopServer, ServerAbort, CloseListener, Surviving, HInv, IInv, ReceiverInv
<1> QED BY <1>1, ReceiverGone DEF StopServer

\* Every way the Receiver has of leaving.
LEMMA ReceiverDeparts ==
  ASSUME HInv, UNCHANGED senderVars,
         RSocketDisconnected \/ RHandleError \/ REncryptingTimeout \/ RBack \/ RCrash \/ RQuit
  PROVE  KeyPhase' /\ EndsPhase'
<1>1. CASE RSocketDisconnected
  <2> DEFINE state == IF serverState = "ENCRYPTING" THEN "ERROR" ELSE serverState
  <2>1. StopServer(state) /\ rPage' # "receiver" /\ state # "CONNECTING"
        /\ serverState # "CONNECTING"
    BY <1>1 DEF RSocketDisconnected, PageAfter
  <2> HIDE DEF state
  <2> QED BY <2>1, ServerGone
<1>2. CASE RHandleError
  <2>1. StopServer("UNRECOGNIZED") /\ rPage' # "receiver" /\ serverState # "CONNECTING"
    BY <1>2 DEF RHandleError, PageAfter, NextMessage, Readable
  <2> QED BY <2>1, ServerGone
<1>3. CASE REncryptingTimeout
  <2>1. StopServer("ERROR") /\ rPage' # "receiver" /\ serverState # "CONNECTING"
    BY <1>3 DEF REncryptingTimeout, PageAfter, HInv, IInv, ReceiverInv
  <2> QED BY <2>1, ServerGone
<1>4. CASE RBack /\ serverState # "DISCONNECTED"
  <2>1. StopServer(serverState) /\ rPage' # "receiver"
    BY <1>4 DEF RBack
  <2> QED BY <2>1, ServerGone
<1>5. CASE RBack /\ serverState = "DISCONNECTED"
  BY <1>5 DEF RBack, HInv, IInv, ReceiverInv, KeyPhase, EndsPhase, linkVars, senderVars
<1>6. CASE RCrash \/ RQuit
  <2>1. /\ toReceiver' = <<>> /\ conn' # "accepted"
        /\ toSender' = toSender \/ toSender' \in Prefixes(toSender)
    BY <1>6 DEF RCrash, RQuit, RRestart, ServerCrash, Surviving, HInv, IInv, TypeOK, LinkTypeOK
  <2> QED BY <1>6, <2>1, ReceiverGone DEF RCrash, RQuit, RRestart
<1> QED BY <1>1, <1>2, <1>3, <1>4, <1>5, <1>6

\* Steps before the connection is encrypted, and those that touch no connection.
LEMMA ReceiverConnects ==
  ASSUME HInv, UNCHANGED senderVars,
         StartServer \/ IncomingConnection \/ Misread \/ RRegister \/ RSuspend
  PROVE  KeyPhase' /\ EndsPhase'
<1> USE DEF HInv, IInv, SenderInv, ReceiverInv, KeyPhase, EndsPhase, linkVars, senderVars,
        connectionVars
<1>1. CASE StartServer
  BY <1>1, EmptyShape DEF StartServer
<1>2. CASE IncomingConnection
  <2>1. /\ serverState = "CONNECTING" /\ conn # "accepted" /\ toReceiver = <<>>
        /\ rPage # "receiver"
    BY <1>2 DEF IncomingConnection, ServerConsistent
  <2>2. conn' = "accepted" => toSender = <<>> /\ sPage # "sender" /\ clientState = "CONNECTED"
    BY <1>2, <2>1 DEF IncomingConnection
  <2>3. serverState' = "ENCRYPTING" /\ UNCHANGED <<toSender, toReceiver, rPage, popup>>
    BY <1>2 DEF IncomingConnection
  <2> QED BY <2>1, <2>2, <2>3, EmptyShape
<1>3. CASE Misread \/ RRegister \/ RSuspend
  BY <1>3 DEF Misread, RRegister, RSuspend
<1> QED BY <1>1, <1>2, <1>3

\* A message of the exchange of keys has the channel to the Sender to itself.
LEMMA ReceiverWritesKey ==
  ASSUME toSender = <<>>, NEW t \in KeyTalk, SendToSender(Signal(t))
  PROVE  /\ \A v : Has(toSender', v) <=> conn = "accepted" /\ v = t
         /\ conn = "accepted" => Len(toSender') = 1
         /\ conn # "accepted" => toSender' = <<>>
<1> DEFINE m == Signal(t)
<1>1. m \in Message /\ m.type = t /\ SendToSender(m)
  BY MessageKinds DEF SignalType, KeyTalk
<1> HIDE DEF m
<1>2. CASE conn = "accepted"
  <2>1. toSender' = <<m>>
    BY <1>1, <1>2, OneMessage DEF SendToSender
  <2> QED BY <1>1, <1>2, <2>1, OneMessage
<1>3. CASE conn # "accepted"
  BY <1>1, <1>3, EmptyShape DEF SendToSender
<1> QED BY <1>2, <1>3

\* The Receiver asks for the key, reads it and answers, and is let in.
LEMMA ReceiverKeys ==
  ASSUME HInv, UNCHANGED senderVars,
         RSocketReady \/ RHandleDeviceKey \/ RHandleDeviceKeyOk
  PROVE  KeyPhase' /\ EndsPhase'
<1>1. toReceiver \in Seq(Message) /\ OkFirst(toReceiver)
  BY DEF HInv, IInv, TypeOK, LinkTypeOK, KeyPhase
<1> USE DEF HInv, KeyPhase, EndsPhase, senderVars
<1>2. CASE RSocketReady
  <2>1. /\ toSender = <<>> /\ toReceiver = <<>> /\ sPage # "sender" /\ rPage # "receiver"
        /\ conn = "accepted" /\ serverState = "ENCRYPTING"
    BY <1>2 DEF RSocketReady, IInv, ReceiverInv
  <2>2. clientState # "UNRECOGNIZED"
    BY <2>1, EmptyShape
  <2>3. /\ SendToSender(Signal("REQUEST_DEVICE_KEY")) /\ serverState' = "ENCRYPTED"
        /\ UNCHANGED <<conn, toReceiver, rPage, popup>>
    BY <1>2 DEF RSocketReady
  <2>4. "REQUEST_DEVICE_KEY" \in KeyTalk
    BY DEF KeyTalk
  <2>5. Len(toSender') = 1 /\ \A v : Has(toSender', v) <=> v = "REQUEST_DEVICE_KEY"
    BY <2>1, <2>3, <2>4, ReceiverWritesKey
  <2> QED BY <2>1, <2>2, <2>3, <2>4, <2>5, EmptyShape DEF FileTalk, Ending
<1>3. CASE RHandleDeviceKey
  <2>1. /\ toReceiver # <<>> /\ toReceiver' = Tail(toReceiver)
        /\ Head(toReceiver).type = "DEVICE_KEY" /\ serverState \in {"ENCRYPTED", "UNRECOGNIZED"}
    BY <1>3 DEF RHandleDeviceKey, Receives, NextMessage, Readable
  <2>2. Has(toReceiver, "DEVICE_KEY") /\ (Len(toReceiver) = 1 => toReceiver' = <<>>)
    BY <1>1, <2>1, ReadOff
  <2>3. Len(toReceiver) = 1 /\ toSender = <<>> /\ sPage # "sender" /\ rPage # "receiver"
    BY <2>2
  <2>4. conn = "accepted" => clientState # "UNRECOGNIZED"
    BY <2>2, <2>3 DEF Has
  <2>5. PICK t \in {"DEVICE_KEY", "ERROR"} :
          /\ SendToSender(Signal(t))
          /\ serverState' = IF t = "ERROR" THEN "UNRECOGNIZED" ELSE serverState
    BY <1>3 DEF RHandleDeviceKey
  <2>6. t \in KeyTalk
    BY DEF KeyTalk
  <2>7. /\ \A v : Has(toSender', v) <=> conn = "accepted" /\ v = t
        /\ conn = "accepted" => Len(toSender') = 1
        /\ conn # "accepted" => toSender' = <<>>
    BY <2>3, <2>5, <2>6, ReceiverWritesKey
  <2>8. serverState = "ENCRYPTED" /\ UNCHANGED <<conn, rPage, popup>>
    BY <1>3, <2>1 DEF RHandleDeviceKey
  <2>9. toReceiver' = <<>> /\ OkFirst(toReceiver') /\ \A v : ~Has(toReceiver', v)
    BY <1>1, <2>1, <2>2, <2>3, ReadOff, EmptyShape
  <2> QED BY <2>3, <2>4, <2>5, <2>6, <2>7, <2>8, <2>9 DEF KeyTalk, FileTalk, Ending
<1>4. CASE RHandleDeviceKeyOk
  <2>1. /\ toReceiver # <<>> /\ toReceiver' = Tail(toReceiver)
        /\ Head(toReceiver).type = "DEVICE_KEY_OK"
        /\ serverState \in {"ENCRYPTED", "UNRECOGNIZED"}
        /\ rPage' = "receiver" /\ UNCHANGED <<conn, toSender, serverState, popup>>
    BY <1>4 DEF RHandleDeviceKeyOk, Receives, NextMessage, Readable
  <2>2. /\ Has(toReceiver, "DEVICE_KEY_OK") /\ OkFirst(toReceiver')
        /\ ~Has(toReceiver', "DEVICE_KEY_OK")
        /\ \A v : Has(toReceiver', v) => Has(toReceiver, v)
        /\ Len(toReceiver) = 1 => toReceiver' = <<>>
    BY <1>1, <2>1, ReadOff
  <2>3. toSender = <<>> /\ serverState = "ENCRYPTED"
    BY <2>1, <2>2
  <2>4. \A v \in {"DEVICE_KEY", "ERROR"} : ~Has(toReceiver', v)
    BY <2>2, EmptyShape
  <2>5. clientState = "UNRECOGNIZED" => conn # "accepted"
    BY <2>2, EmptyShape DEF Has
  <2> QED BY <2>1, <2>2, <2>3, <2>4, <2>5, EmptyShape
<1> QED BY <1>2, <1>3, <1>4

\* Within the session the Receiver may read and write as it likes.
LEMMA ReceiverTalks ==
  ASSUME HInv, UNCHANGED senderVars, UNCHANGED <<conn, serverState, rPage>>, rPage = "receiver",
         UNCHANGED toReceiver \/ (toReceiver # <<>> /\ toReceiver' = Tail(toReceiver)),
         \/ UNCHANGED toSender
         \/ \E m \in Message : m.type \in FileTalk /\ SendToSender(m)
  PROVE  KeyPhase' /\ EndsPhase'
<1>1. /\ toSender \in Seq(Message) /\ toReceiver \in Seq(Message) /\ OkFirst(toReceiver)
  BY DEF HInv, IInv, TypeOK, LinkTypeOK, KeyPhase
<1>2. /\ OkFirst(toReceiver') /\ \A t : Has(toReceiver', t) => Has(toReceiver, t)
      /\ toReceiver = <<>> => toReceiver' = <<>>
  BY <1>1, ReadOff
<1>3. /\ \A t \in KeyTalk : ~Has(toSender, t)
      /\ \A t \in {"DEVICE_KEY", "DEVICE_KEY_OK", "ERROR"} : ~Has(toReceiver, t)
      /\ serverState = "ENCRYPTED"
      /\ conn = "accepted" => clientState # "UNRECOGNIZED"
  BY DEF HInv, KeyPhase, EndsPhase
<1>4. \A t : Has(toSender', t) => Has(toSender, t) \/ (t \in FileTalk /\ conn = "accepted")
  BY <1>1, WriteOn DEF SendToSender
<1>5. conn # "accepted" => toSender' = toSender
  BY DEF SendToSender
<1>6. \A t \in FileTalk : t \notin KeyTalk
  BY DEF KeyTalk, FileTalk, Ending
<1> QED BY <1>2, <1>3, <1>4, <1>5, <1>6 DEF HInv, KeyPhase, EndsPhase, senderVars

\* Where the Receiver reads a message of the session, or its user does
\* something about a transfer, ReceiverPage is shown.
LEMMA OnReceiverPageAlready ==
  ASSUME HInv
  PROVE  /\ \A t \in {"TEXT", "FILE_INFO", "PACKET"} :
              Readable /\ Head(toReceiver).type = t => rPage = "receiver"
         /\ popup # "none" => rPage = "receiver"
<1>1. ASSUME NEW t \in {"TEXT", "FILE_INFO", "PACKET"}, Readable, Head(toReceiver).type = t
      PROVE  rPage = "receiver"
  <2>1. /\ toReceiver \in Seq(Message) /\ toReceiver # <<>> /\ OkFirst(toReceiver)
    BY <1>1 DEF Readable, HInv, IInv, TypeOK, LinkTypeOK, KeyPhase
  <2>2. Has(toReceiver, t) /\ ~Has(toReceiver, "DEVICE_KEY_OK")
    BY <1>1, <2>1, ReadOff
  <2> QED BY <2>2 DEF HInv, KeyPhase
<1> QED BY <1>1 DEF HInv, EndsPhase

\* Every step of the Receiver.
LEMMA ReceiverKeepsPhase ==
  ASSUME HInv, ReceiverStep, UNCHANGED senderVars
  PROVE  KeyPhase' /\ EndsPhase'
<1> DEFINE Writes ==
             \/ UNCHANGED toSender
             \/ \E m \in Message : m.type \in FileTalk /\ SendToSender(m)
<1>1. ASSUME NEW t \in FileTalk \ {"FILE_PACKET"}, SendToSender(Signal(t)) PROVE Writes
  <2>1. Signal(t) \in Message /\ Signal(t).type = t
    BY MessageKinds DEF SignalType, FileTalk, Ending
  <2> QED BY <1>1, <2>1
<1>2. ASSUME NEW n \in Nat, SendToSender(FilePacket(n)) PROVE Writes
  <2>1. FilePacket(n) \in Message /\ FilePacket(n).type = "FILE_PACKET"
    BY MessageKinds
  <2> QED BY <1>2, <2>1 DEF FileTalk
<1>3. rInfo.packetNumber \in Nat
  BY DEF HInv, IInv, TypeOK, ReceiverTypeOK
<1> HIDE DEF Writes
<1> USE DEF connectionVars, FileTalk, Ending
<1>4. CASE RHandleText \/ RHandleFileInfo
  <2>1. PICK t \in {"TEXT", "FILE_INFO"} : Receives(t)
    BY <1>4 DEF RHandleText, RHandleFileInfo
  <2>2. rPage = "receiver" /\ toReceiver # <<>> /\ toReceiver' = Tail(toReceiver)
    BY <2>1, OnReceiverPageAlready DEF Receives, NextMessage, Readable
  <2>3. UNCHANGED <<conn, serverState, rPage>>
    BY <1>4 DEF RHandleText, RHandleFileInfo, receiverVars
  <2>4. Writes
    <3>1. UNCHANGED toSender \/ SendToSender(FilePacket(0))
      BY <1>4 DEF RHandleText, RHandleFileInfo, CreateFile
    <3> QED BY <1>2, <3>1 DEF Writes
  <2> QED BY <2>2, <2>3, <2>4, ReceiverTalks DEF Writes
<1>5. CASE RFinishCancel \/ RFinishFile \/ RConfirmPause \/ RRequestNext
  <2>1. ReadsPacket
    BY <1>5 DEF RFinishCancel, RFinishFile, RConfirmPause, RRequestNext, StoresPacket
  <2>2. rPage = "receiver" /\ toReceiver # <<>> /\ toReceiver' = Tail(toReceiver)
    BY <2>1, OnReceiverPageAlready DEF ReadsPacket, Fits, Readable
  <2>3. UNCHANGED <<conn, serverState, rPage>>
    BY <1>5 DEF RFinishCancel, RFinishFile, RConfirmPause, RRequestNext, StoresPacket
  <2>4. Writes
    <3>1. \/ SendToSender(Signal("CANCEL_FILE_TRANSFER")) \/ SendToSender(Signal("FILE_SUCCESS"))
          \/ SendToSender(Signal("PAUSE_FILE_TRANSFER"))
          \/ SendToSender(FilePacket(rInfo.packetNumber + 1))
      BY <1>5 DEF RFinishCancel, RFinishFile, RConfirmPause, RRequestNext
    <3>2. rInfo.packetNumber + 1 \in Nat
      BY <1>3
    <3> QED BY <1>1, <1>2, <3>1, <3>2
  <2> QED BY <2>2, <2>3, <2>4, ReceiverTalks DEF Writes
<1>6. CASE \/ PauseFileTransfer \/ ResumeFileTransfer \/ CancelFileTransfer
           \/ CreateWithoutName \/ SendFileError
           \/ \E folder \in Folder : SetFilePath(folder)
           \/ \E name \in Name : CreateUnderAnotherName(name)
  <2>1. rPage = "receiver"
    BY <1>6, OnReceiverPageAlready
    DEF PauseFileTransfer, ResumeFileTransfer, CancelFileTransfer, CreateWithoutName,
        SendFileError, SetFilePath, CreateUnderAnotherName, OnReceiverPage
  <2>2. UNCHANGED <<conn, serverState, rPage, toReceiver>>
    BY <1>6 DEF PauseFileTransfer, ResumeFileTransfer, CancelFileTransfer, CreateWithoutName,
       SendFileError, SetFilePath, CreateUnderAnotherName, linkVars
  <2>3. Writes
    <3>1. \/ UNCHANGED toSender
          \/ SendToSender(Signal("CANCEL_FILE_TRANSFER")) \/ SendToSender(Signal("FILE_ERROR"))
          \/ SendToSender(FilePacket(0)) \/ SendToSender(FilePacket(rInfo.packetNumber))
      BY <1>6 DEF PauseFileTransfer, ResumeFileTransfer, CancelFileTransfer, CreateWithoutName,
         SendFileError, SetFilePath, CreateUnderAnotherName, CreateFile, linkVars
    <3> QED BY <1>1, <1>2, <1>3, <3>1 DEF Writes
  <2> QED BY <2>1, <2>2, <2>3, ReceiverTalks DEF Writes
<1> QED BY <1>4, <1>5, <1>6, ReceiverDeparts, ReceiverConnects, ReceiverKeys
        DEF ReceiverStep, ReceiverUser, ReceiverHandlers

-----------------------------------------------------------------------------
(* The invariant and what follows from it.                                 *)

\* The network cuts the connection.
LEMMA LinkDropKeepsPhase ==
  ASSUME HInv, LinkDrop, UNCHANGED <<senderVars, receiverVars>>
  PROVE  KeyPhase' /\ EndsPhase'
<1>1. /\ toSender \in Seq(Message) /\ toReceiver \in Seq(Message) /\ OkFirst(toReceiver)
      /\ toSender' \in Prefixes(toSender) /\ toReceiver' \in Prefixes(toReceiver)
  BY DEF LinkDrop, HInv, IInv, TypeOK, LinkTypeOK, KeyPhase
<1>2. /\ \A t : Has(toSender', t) => Has(toSender, t)
      /\ Len(toSender) = 1 => toSender' = <<>> \/ toSender' = toSender
      /\ toSender = <<>> => toSender' = <<>>
  BY <1>1, CutOff
<1>3. /\ \A t : Has(toReceiver', t) => Has(toReceiver, t)
      /\ Len(toReceiver) = 1 => toReceiver' = <<>> \/ toReceiver' = toReceiver
      /\ toReceiver = <<>> => toReceiver' = <<>>
      /\ OkFirst(toReceiver')
      /\ Has(toReceiver, "DEVICE_KEY_OK") =>
           \A t : Has(toReceiver', t) => Has(toReceiver', "DEVICE_KEY_OK")
  BY <1>1, CutOff
<1> QED BY <1>2, <1>3, EmptyShape
        DEF LinkDrop, HInv, KeyPhase, EndsPhase, senderVars, receiverVars, connectionVars

\* HInv holds in every reachable state.
THEOREM HandshakeInvariance == Spec => []HInv
<1>1. Init => HInv
  <2> SUFFICES ASSUME Init PROVE KeyPhase /\ EndsPhase
    BY Initially DEF HInv
  <2> QED BY EmptyShape DEF Init, LinkInit, SenderInit, ReceiverInit, KeyPhase, EndsPhase, OkFirst
<1>2. HInv /\ [Next]_vars => HInv'
  <2> SUFFICES ASSUME HInv, [Next]_vars PROVE HInv'
    OBVIOUS
  <2>1. IInv'
    BY Kept DEF HInv
  <2>2. CASE UNCHANGED vars
    BY <2>1, <2>2 DEF vars, HInv, KeyPhase, EndsPhase, linkVars, senderVars, receiverVars,
       connectionVars
  <2>3. CASE Next
    BY <2>1, <2>3, SenderKeepsPhase, ReceiverKeepsPhase, LinkDropKeepsPhase DEF Next, HInv
  <2> QED BY <2>2, <2>3
<1> QED BY <1>1, <1>2, PTL DEF Spec

\* A session ends, at either device, only with a return to the start page:
\* whatever was sent before, neither ERROR nor an encryption timeout can reach
\* it, so that stopServer and socketDisconnected run in state ENCRYPTED.
THEOREM SessionsEndQuietly == Spec => SessionEndsQuietly
<1> DEFINE Quiet == /\ rPage = "receiver" => rPage' \in {"receiver", "start"}
                    /\ sPage = "sender" => sPage' \in {"sender", "start"}
<1>1. HInv /\ [Next]_vars => [Quiet]_vars
  <2> SUFFICES ASSUME HInv, Next PROVE Quiet
    OBVIOUS
  <2>1. CASE LinkDrop /\ UNCHANGED <<senderVars, receiverVars>>
    BY <2>1 DEF senderVars, receiverVars, connectionVars
  <2>2. CASE SenderStep /\ UNCHANGED receiverVars
    <3>1. sPage = "sender" => clientState = "ENCRYPTED" /\ sTimer = "off"
      BY DEF HInv, IInv, SenderInv, TypeOK, SenderTypeOK, EndsPhase
    <3> QED BY <2>2, <3>1
            DEF SenderStep, SenderUser, SenderHandlers, SOpenWaitingPage, ConnectToReceiver,
                SBack, SendTextMessage, SendFile, SRegister, SocketConnected, SSocketReady,
                SSocketDisconnected, SLeave, SHandleDeviceKey, SHandleKeyRequest, SHandleError,
                SHandleFilePacket, SHandleCancel, SHandleFileSuccess, SHandleFileError,
                SHandlePause, FileDone, SocketError, SEncryptingTimeout, SSuspend, SCrash, SQuit,
                SRestart, senderVars, receiverVars, connectionVars
  <2>3. CASE ReceiverStep /\ UNCHANGED senderVars
    <3>1. UNCHANGED sPage
      BY <2>3 DEF senderVars
    <3>2. rPage = "receiver" => serverState = "ENCRYPTED" /\ rTimer = "off"
      BY DEF HInv, IInv, ReceiverInv, TypeOK, ReceiverTypeOK, EndsPhase
    <3>3. rPage = "receiver" => ~RHandleError
      <4> SUFFICES ASSUME rPage = "receiver", RHandleError PROVE FALSE
        OBVIOUS
      <4>1. /\ toReceiver \in Seq(Message) /\ toReceiver # <<>>
            /\ Head(toReceiver).type = "ERROR"
        BY DEF RHandleError, NextMessage, Readable, HInv, IInv, TypeOK, LinkTypeOK
      <4>2. Has(toReceiver, "ERROR")
        BY <4>1, TailMessage
      <4> QED BY <4>2 DEF HInv, KeyPhase
    <3>4. CASE \/ RSocketDisconnected \/ REncryptingTimeout \/ RBack \/ RCrash \/ RQuit
               \/ StartServer \/ RHandleDeviceKeyOk
      BY <3>1, <3>2, <3>4 DEF RSocketDisconnected, REncryptingTimeout, RBack, RCrash, RQuit,
         RRestart, StartServer, RHandleDeviceKeyOk, PageAfter
    <3>5. CASE UNCHANGED rPage
      BY <3>1, <3>5
    <3>6. ASSUME NEW folder \in Folder, SetFilePath(folder) PROVE UNCHANGED rPage
      BY <3>6, Zenon DEF SetFilePath, connectionVars
    <3>7. ASSUME NEW name \in Name, CreateUnderAnotherName(name) PROVE UNCHANGED rPage
      BY <3>7, Zenon DEF CreateUnderAnotherName, connectionVars
    <3>8. CASE \/ PauseFileTransfer \/ ResumeFileTransfer \/ CancelFileTransfer
               \/ CreateWithoutName \/ SendFileError \/ RRegister \/ RSuspend
               \/ IncomingConnection \/ RSocketReady \/ RHandleDeviceKey \/ Misread
      <4>1. UNCHANGED rPage
        BY <3>8 DEF PauseFileTransfer, ResumeFileTransfer, CancelFileTransfer, CreateWithoutName,
           SendFileError, RRegister, RSuspend, IncomingConnection, RSocketReady, RHandleDeviceKey,
           Misread, connectionVars
      <4> QED BY <3>5, <4>1
    <3>9. CASE \/ RHandleText \/ RHandleFileInfo \/ RFinishCancel \/ RFinishFile
               \/ RConfirmPause \/ RRequestNext
      <4>1. UNCHANGED rPage
        BY <3>9 DEF RHandleText, RHandleFileInfo, StoresPacket, RFinishCancel, RFinishFile,
           RConfirmPause, RRequestNext, connectionVars, receiverVars
      <4> QED BY <3>5, <4>1
    <3> QED BY <2>3, <3>1, <3>2, <3>3, <3>4, <3>5, <3>6, <3>7, <3>8, <3>9
            DEF ReceiverStep, ReceiverUser, ReceiverHandlers
  <2> QED BY <2>1, <2>2, <2>3 DEF Next
<1> QED BY <1>1, HandshakeInvariance, PTL DEF Spec, SessionEndsQuietly
=============================================================================
