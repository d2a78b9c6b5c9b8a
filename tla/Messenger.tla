----------------------------- MODULE Messenger -----------------------------
(***************************************************************************)
(* The byte formats of LuminT: class Messenger (modules/message/           *)
(* messenger.cpp) and the conversions of modules/utilities/utilities.cpp.  *)
(* A message is its identifier, the size of its content in two bytes and   *)
(* the content; a packet is its number in two bytes and up to PACKET_BYTES *)
(* bytes of the file, with no size: the reader must know how many to take. *)
(* Byte values are numbers below Base, so that the widths of the code can  *)
(* be scaled down together.  Identifiers are not scaled.                   *)
(***************************************************************************)
EXTENDS Naturals, SequencesExt

CONSTANTS
  Base,          \* 2^BYTE, the number of values of a byte
  PACKET_BYTES   \* bytes of the file in a full packet

ASSUME MessengerAssumption ==
  /\ Base \in Nat \ {0, 1}
  /\ PACKET_BYTES \in Nat \ {0}

UINT32_BYTE_REP == 4
MESSAGE_SIZE_BYTES == 2
MESSAGE_CONTENT_OFFSET == 1 + MESSAGE_SIZE_BYTES
MESSAGE_SIZE_INT == Base * Base
SEQ_BYTES == 2

\* Counts of the values of uint32_t and uint16_t, and the largest int.
UINT32 == Base * Base * Base * Base
UINT16 == Base * Base
INT_MAX == UINT32 \div 2 - 1

INFO == 1
TEXT == 4

\* The order of the code's limits: what announces a file fits a message; a
\* packet whose offset is an int has a number of two bytes, and ends within
\* uint32_t.
ASSUME WidthsAssumption ==
  /\ 2 + UINT32_BYTE_REP < UINT16
  /\ INT_MAX < UINT16 * PACKET_BYTES
  /\ INT_MAX + PACKET_BYTES < UINT32

-----------------------------------------------------------------------------
\* What the bytes of a number stand for, from the lowest.
Place == <<1, Base, Base * Base, Base * Base * Base>>

\* n in width bytes, the highest first; what does not fit is lost.
ToBytes(n, width) == [i \in 1 .. width |-> (n \div Place[width - i + 1]) % Base]
FromBytes(bytes) == FoldLeft(LAMBDA n, byte : n * Base + byte, 0, bytes)

Drop(bytes, n) == SubSeq(bytes, n + 1, Len(bytes))

\* Mutant: the limit is one too high for two bytes.
FrameUpTo(id, content) ==
  IF Len(content) \in 1 .. MESSAGE_SIZE_INT
    THEN <<id>> \o ToBytes(Len(content), MESSAGE_SIZE_BYTES) \o content
    ELSE <<>>

\* frame(Message): nothing is sent of a message that is empty or too long.
Frame(id, content) ==
  IF Len(content) \in 1 .. MESSAGE_SIZE_INT - 1
    THEN <<id>> \o ToBytes(Len(content), MESSAGE_SIZE_BYTES) \o content
    ELSE <<>>

\* frame(FileMessage), whose seq is a uint16_t.
FrameFile(seq, fileData) ==
  IF Len(fileData) \in 1 .. PACKET_BYTES
    THEN ToBytes(seq % UINT16, SEQ_BYTES) \o fileData
    ELSE <<>>

\* readMessage: the transaction is rolled back until the whole message is there.
MessageSize(bytes) ==
  MESSAGE_CONTENT_OFFSET + FromBytes(SubSeq(bytes, 2, MESSAGE_CONTENT_OFFSET))
HasMessage(bytes) ==
  Len(bytes) >= MESSAGE_CONTENT_OFFSET /\ Len(bytes) >= MessageSize(bytes)
MessageType(bytes) == bytes[1]
MessageContent(bytes) == SubSeq(bytes, MESSAGE_CONTENT_OFFSET + 1, MessageSize(bytes))

\* readFile(packetSize), and the fileData of the packet read.
HasFile(bytes, packetSize) == Len(bytes) >= SEQ_BYTES + packetSize
FileData(bytes, packetSize) == SubSeq(bytes, SEQ_BYTES + 1, SEQ_BYTES + packetSize)
=============================================================================
