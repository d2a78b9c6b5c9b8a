--------------------------- MODULE PacketTransfer ---------------------------
(***************************************************************************)
(* Texts and files of a session, byte for byte: what Sender's              *)
(* sendTextMessage, sendFile and handleRequest write, how it arrives, and  *)
(* what Receiver's handleReadyRead makes of it, with the integers as wide  *)
(* as the code has them.  Module LuminT, which takes packets as units,     *)
(* relies on what is checked here.  Users do not pause or cancel, and the  *)
(* link holds; LuminT is where they do.                                    *)
(*                                                                         *)
(* A byte of a file is named by its offset.  The Receiver's requests are   *)
(* short and carry no packet, so they stay messages.                       *)
(***************************************************************************)
EXTENDS Messenger

CONSTANTS
  Sizes,      \* the sizes of the files the user may send, in bytes
  TextSizes,  \* the sizes of the texts
  MaxTexts,   \* bound: texts sent in a session
  NoSize      \* no file is being sent

ASSUME PacketTransferAssumption ==
  /\ Sizes \subseteq Nat
  /\ TextSizes \subseteq Nat
  /\ MaxTexts \in Nat
  /\ NoSize \notin Nat

VARIABLES
  sMessageState,  \* Sender::messageState
  file,           \* the size of the file at fileTransferInfo.filePath
  records,        \* TLS records written by Sender and not wholly delivered
  buffer,         \* bytes delivered to the Receiver's socket and not read
  toSender,       \* messages written by the Receiver and not read
  rMessageState,  \* Receiver::messageState
  fileSize,       \* Receiver's fileTransferInfo.fileSize
  packetNumber,   \* Receiver's fileTransferInfo.packetNumber
  currentFile,    \* the content of Receiver::currentFile
  textsSent,      \* history: the texts sendTextMessage returned true for
  textsShown      \* history: the texts receivedText() was emitted for

senderVars == <<sMessageState, file, textsSent>>
receiverVars == <<rMessageState, fileSize, packetNumber, currentFile, textsShown>>
vars == <<senderVars, records, buffer, toSender, receiverVars>>

Bytes(n) == [i \in 1 .. n |-> i - 1]
FilePacket(n) == [type |-> "FILE_PACKET", packet |-> n]
FileSuccess == [type |-> "FILE_SUCCESS", packet |-> 0]
MessageState == {"MESSAGE", "FILE_SENDING"}

\* The widths hold: no number that is sent or computed outgrows its integer,
\* but for the int product of Offset.
TypeOK ==
  /\ sMessageState \in MessageState /\ rMessageState \in MessageState
  /\ file \in Sizes \union {NoSize}
  /\ records \in Seq(Seq(Nat)) /\ <<>> \notin Range(records)
  /\ buffer \in Seq(Nat)
  /\ toSender \in Seq([type : {"FILE_PACKET", "FILE_SUCCESS"}, packet : 0 .. UINT16 - 1])
  /\ fileSize \in 0 .. UINT32 - 1
  /\ PACKET_BYTES * packetNumber < UINT32
  /\ currentFile \in Seq(Nat)
  /\ textsSent \in Seq(Seq(Nat)) /\ textsShown \in Seq(Seq(Nat))

Init ==
  /\ sMessageState = "MESSAGE" /\ rMessageState = "MESSAGE"
  /\ file = NoSize
  /\ records = <<>> /\ buffer = <<>> /\ toSender = <<>>
  /\ fileSize = 0 /\ packetNumber = 0
  /\ currentFile = <<>>
  /\ textsSent = <<>> /\ textsShown = <<>>

-----------------------------------------------------------------------------
(* Sender.                                                                 *)

\* Mutant: frame's result is ignored.
WriteUnchecked(framed) == records' = Append(records, framed)

\* sendMessage: one write, which TLS sends as a record of its own.
Write(framed) == records' = IF framed = <<>> THEN records ELSE Append(records, framed)

SendTextMessage(n) ==
  /\ Len(textsSent) < MaxTexts
  /\ sMessageState # "FILE_SENDING"
  /\ LET framed == Frame(TEXT, Bytes(n)) IN
       /\ Write(framed)
       /\ textsSent' = IF framed = <<>> THEN textsSent ELSE Append(textsSent, Bytes(n))
  /\ UNCHANGED <<sMessageState, file, buffer, toSender, receiverVars>>

\* Mutant: a file of any size is sent.
AnyPositive(size) == size > 0

Sendable(size) == size > 0 /\ size <= UINT32 - 1

\* sendFile: InfoType::FILE_INFO, the size in four bytes, and a name of one.
SendFile(size) ==
  /\ file = NoSize
  /\ sMessageState # "FILE_SENDING"
  /\ Sendable(size)
  /\ file' = size
  /\ Write(Frame(INFO, <<1>> \o ToBytes(size, UINT32_BYTE_REP) \o <<0>>))
  /\ sMessageState' = "FILE_SENDING"
  /\ UNCHANGED <<textsSent, buffer, toSender, receiverVars>>

\* Mutant: uint8_t numbers.
OffsetOfByte(n) == {(n % Base) * PACKET_BYTES}

\* Where serialize() reads packet n.  seq * PACKET_BYTES is an int product:
\* past INT_MAX it is undefined, and comes out either wrapped, negative and
\* refused by seek(), which leaves the position at 0, or exact.
Offset(n) ==
  LET offset == (n % UINT16) * PACKET_BYTES IN
    IF offset <= INT_MAX THEN {offset} ELSE {offset, 0}

Reads(type) ==
  /\ toSender # <<>>
  /\ Head(toSender).type = type
  /\ toSender' = Tail(toSender)

\* handleRequest, FILE_PACKET; the Sender is always in FILE_SENDING here.
HandleFilePacket ==
  /\ Reads("FILE_PACKET")
  /\ LET n == Head(toSender).packet IN
       \E offset \in Offset(n) :
         Write(FrameFile(n, SubSeq(Bytes(file), offset + 1, Min({offset + PACKET_BYTES, file}))))
  /\ UNCHANGED <<senderVars, buffer, receiverVars>>

HandleFileSuccess ==
  /\ Reads("FILE_SUCCESS")
  /\ sMessageState' = "MESSAGE"
  /\ file' = NoSize
  /\ UNCHANGED <<textsSent, records, buffer, receiverVars>>

-----------------------------------------------------------------------------
(* Receiver: every piece of a record that TLS decrypts emits readyRead().  *)

\* uint32_t arithmetic, before the result widens to int64_t.
RemainingBytes == (UINT32 + fileSize - PACKET_BYTES * packetNumber) % UINT32

\* Mutant: the last packet is taken to be as long as the others.
AlwaysFullPacket == PACKET_BYTES

ExpectedPacketSize ==
  IF RemainingBytes >= PACKET_BYTES THEN PACKET_BYTES ELSE RemainingBytes

\* Mutant: a file that ends with a full packet goes on.
ShortPacket == RemainingBytes < PACKET_BYTES

LastPacket == RemainingBytes <= PACKET_BYTES

\* k more bytes of the first record are delivered; AtHand(k) is then readable.
Deliver(k) ==
  records' = IF k = Len(Head(records)) THEN Tail(records)
                                       ELSE <<Drop(Head(records), k)>> \o Tail(records)

AtHand(k) == buffer \o SubSeq(Head(records), 1, k)

\* readMessage or readFile finds too little and rolls back.
ReadsNothing(k) ==
  /\ IF rMessageState = "MESSAGE" THEN ~HasMessage(AtHand(k))
                                  ELSE ~HasFile(AtHand(k), ExpectedPacketSize)
  /\ buffer' = AtHand(k)
  /\ UNCHANGED <<toSender, receiverVars>>

ReadsMessage(k) ==
  /\ rMessageState = "MESSAGE"
  /\ HasMessage(AtHand(k))
  /\ buffer' = Drop(AtHand(k), MessageSize(AtHand(k)))

\* A text is shown; what the Receiver knows no use for is dropped.
ReadsOtherMessage(k) ==
  /\ ReadsMessage(k)
  /\ MessageType(AtHand(k)) # INFO
  /\ textsShown' = IF MessageType(AtHand(k)) = TEXT
                     THEN Append(textsShown, MessageContent(AtHand(k)))
                     ELSE textsShown
  /\ UNCHANGED <<toSender, rMessageState, fileSize, packetNumber, currentFile>>

\* handleFileInfo, createFile of a new name, and requestFirstPacket.
ReadsFileInfo(k) ==
  /\ ReadsMessage(k)
  /\ MessageType(AtHand(k)) = INFO
  /\ fileSize' = FromBytes(SubSeq(MessageContent(AtHand(k)), 2, 1 + UINT32_BYTE_REP)) % UINT32
  /\ packetNumber' = 0
  /\ currentFile' = <<>>
  /\ toSender' = Append(toSender, FilePacket(0))
  /\ rMessageState' = "FILE_SENDING"
  /\ UNCHANGED textsShown

ReadsPacket(k) ==
  /\ rMessageState = "FILE_SENDING"
  /\ HasFile(AtHand(k), ExpectedPacketSize)
  /\ buffer' = Drop(AtHand(k), SEQ_BYTES + ExpectedPacketSize)
  /\ packetNumber' = packetNumber + 1
  /\ currentFile' = currentFile \o FileData(AtHand(k), ExpectedPacketSize)
  /\ \/ /\ LastPacket
        /\ toSender' = Append(toSender, FileSuccess)
        /\ rMessageState' = "MESSAGE"
     \/ /\ ~LastPacket
        /\ toSender' = Append(toSender, FilePacket(packetNumber + 1))
        /\ UNCHANGED rMessageState
  /\ UNCHANGED <<fileSize, textsShown>>

\* handleReadyRead reads one message or packet at most, whatever is at hand.
HandleReadyRead(k) ==
  /\ Deliver(k)
  /\ ReadsNothing(k) \/ ReadsOtherMessage(k) \/ ReadsFileInfo(k) \/ ReadsPacket(k)
  /\ UNCHANGED senderVars

-----------------------------------------------------------------------------
Arrival == records # <<>> /\ \E k \in 1 .. Len(Head(records)) : HandleReadyRead(k)

Next ==
  \/ \E n \in TextSizes : SendTextMessage(n)
  \/ \E size \in Sizes : SendFile(size)
  \/ HandleFilePacket
  \/ HandleFileSuccess
  \/ Arrival

Spec == Init /\ [][Next]_vars

FairSpec == Spec /\ WF_vars(HandleFilePacket \/ HandleFileSuccess) /\ WF_vars(Arrival)

-----------------------------------------------------------------------------
\* The Receiver reports success only of a file that has every byte of the
\* Sender's, in order ("Text and file transfer up to ~4GB", README.md).
FileArrivesWhole ==
  \A i \in 1 .. Len(toSender) : toSender[i] = FileSuccess => currentFile = Bytes(file)

\* Every text that sendTextMessage returned true for is shown, as it was sent
\* and in order.
TextsArrive == IsPrefix(textsShown, textsSent)

\* handleReadyRead reads one message a call and is called once per piece that
\* arrives: nothing that has arrived whole may be left for a call that never
\* comes.
NothingLeftBehind ==
  records = <<>> => buffer = <<>> /\ textsShown = textsSent

\* A file that was announced gets through.
TransferCompletes == sMessageState = "FILE_SENDING" ~> sMessageState = "MESSAGE"
=============================================================================
