----------------------------- MODULE Files_proofs -----------------------------
(***************************************************************************)
(* File transfer, proved: over any number of sessions, pauses, cuts,       *)
(* resumptions and cancellations, and for any files, names and folders,    *)
(* LuminT implements FileDelivery, resumes a transfer exactly where it     *)
(* stopped, leaves no part of a file behind, keeps what it delivered and   *)
(* what was there before, and never forgets a transfer at one end only.    *)
(***************************************************************************)
EXTENDS Session_proofs, Handshake_proofs

\* A session ends only before it has begun: nobody leaves it.
Undisturbed == Environment \intersect {"interrupt", "suspend", "quit"} = {}

\* A file is stored where the record of its transfer says it is.
InPlace == Environment \intersect {"rename", "browse"} = {}

\* What is left out, and why: a failing disk loses packets unnoticed, and the
\* record of a transfer names the folder shown last and the name the Sender
\* gave, which is not where a renamed file is (run RenameResume).
Traceable == Calm /\ "diskFault" \notin Environment /\ (Undisturbed \/ InPlace)

-----------------------------------------------------------------------------
(* The invariant.                                                          *)

Receiving == rMessageState \in {"FILE_SENDING", "FILE_PAUSED"}
RecordPath == <<rSaved.folder, rSaved.name>>
Done(p) == \E c \in completed : c[1] = p

\* The Sender's file that Partial is a part of.
Source == IF Partial = NoPath THEN NoFile ELSE Offered

\* The number of the packet a transfer under way stands at.
Awaited == IF Receiving THEN rInfo.packetNumber ELSE rSaved.packetNumber

\* A file under way holds exactly the packets before that one.
DiskInv ==
  /\ Partial # NoPath => Partial \in Path /\ disk[Partial] = Image(Offered, Awaited)
  /\ rMessageState = "FILE_ABORTING" => disk[currentPath] = Absent
  /\ Receiving /\ AwaitsPacket /\ serverState # "DISCONNECTED" => currentOpen = "open"

\* What the Receiver holds has the name of what the Sender offers, and a
\* Receiver that left in a transfer has recorded it.
NameInv ==
  /\ Receiving \/ popup # "none" => rInfo.name = NameOf[Offered]
  /\ rSaved # NoRecord => rSaved.name = NameOf[Offered]
  /\ Receiving /\ serverState = "DISCONNECTED" => rSaved = rInfo

\* Where the record says the file is, it is.
PlaceInv ==
  InPlace =>
    /\ Receiving => currentPath = <<rInfo.folder, rInfo.name>>
    /\ Receiving /\ rSaved # NoRecord => currentPath = RecordPath

\* A session that nobody leaves is up as long as a page shows it, and a key
\* that lets the Sender open one reaches it on the connection it came by.
QuietLink ==
  /\ sPage = "sender" \/ rPage = "receiver" =>
       conn = "accepted" /\ clientState = "ENCRYPTED" /\ serverState = "ENCRYPTED"
  /\ Has(toReceiver, "DEVICE_KEY_OK") => sPage = "sender"
  /\ Has(toSender, "DEVICE_KEY") /\ clientState = "ENCRYPTED" => conn = "accepted"

\* Nothing is ever recorded then, and a transfer is one of that session.
QuietTransfer ==
  /\ rSaved = NoRecord /\ sSaved = NoFile
  /\ rMessageState # "MESSAGE" \/ popup # "none" => rPage = "receiver"

\* The Sender is in a transfer only as long as the Receiver is, is being
\* offered it, or has told the Sender that it is over.
SharedTransfer ==
  sMessageState # "MESSAGE" =>
    /\ sPage = "sender"
    /\ \/ rMessageState # "MESSAGE" \/ popup # "none" \/ Has(toReceiver, "FILE_INFO")
       \/ \E t \in Ending : Has(toSender, t)

QuietInv == Undisturbed => QuietLink /\ QuietTransfer /\ SharedTransfer

\* What FileDelivery promises of the disk.
Promise ==
  /\ CompletedFilesIntact
  /\ Partial # NoPath => ~Done(Partial)
  /\ \A p \in Path : disk[p] \in {Absent, Old} \/ Done(p) \/ p = Partial

TransferInv == DiskInv /\ NameInv /\ PlaceInv
DInv == SInv /\ HInv /\ QuietInv /\ TransferInv /\ Promise

-----------------------------------------------------------------------------
(* Images of files.                                                        *)

\* The image of a file grows by its packets, in order, and is neither a file
\* that is not there nor one that was there before.
LEMMA ImageGrows ==
  ASSUME NEW f \in File, NEW n \in Nat
  PROVE  /\ Image(f, n) \in Content /\ Image(f, n) # Absent /\ Image(f, n) # Old
         /\ Append(Image(f, n), <<f, n>>) = Image(f, n + 1)
<1>1. Image(f, n) \in Content
  <2>1. Image(f, n) \in [1 .. n -> Chunk]
    BY DEF Image, Chunk
  <2> QED BY <2>1, SeqDef DEF Content
<1>2. Image(f, n) # Absent
  BY <1>1, ReceiverAssumption
<1>3. Image(f, n) # Old
  <2> SUFFICES ASSUME Image(f, n) = Old PROVE FALSE
    OBVIOUS
  <2>1. n = 1
    BY DEF Image, Old
  <2>2. Image(f, n)[1] = <<f, 0>> /\ Old[1] = <<Foreign, 0>>
    BY <2>1 DEF Image, Old
  <2>3. f = Foreign
    BY <2>2
  <2> QED BY <2>3, ReceiverAssumption
<1>4. Append(Image(f, n), <<f, n>>) = Image(f, n + 1)
  <2> DEFINE s == Image(f, n) x == <<f, n>> t == Image(f, n + 1)
  <2>1. s \in Seq(Chunk) /\ x \in Chunk /\ Len(s) = n
    BY <1>1 DEF Content, Chunk, Image
  <2>2. /\ Append(s, x) \in Seq(Chunk) /\ Len(Append(s, x)) = n + 1
        /\ \A i \in 1 .. n : Append(s, x)[i] = s[i]
        /\ Append(s, x)[n + 1] = x
    BY <2>1, AppendProperties
  <2>3. t \in [1 .. n + 1 -> Chunk]
    BY DEF Image, Chunk
  <2>4. t \in Seq(Chunk) /\ Len(t) = n + 1
    BY <2>3, SeqDef DEF Image
  <2>5. \A i \in 1 .. n + 1 : Append(s, x)[i] = t[i]
    <3> SUFFICES ASSUME NEW i \in 1 .. n + 1 PROVE Append(s, x)[i] = t[i]
      OBVIOUS
    <3>1. t[i] = <<f, i - 1>> /\ (i \in 1 .. n => s[i] = <<f, i - 1>>)
      BY DEF Image
    <3>2. CASE i \in 1 .. n
      BY <2>2, <3>1, <3>2
    <3>3. CASE i = n + 1
      BY <2>2, <3>1, <3>3
    <3>4. i \in 1 .. n \/ i = n + 1
      OBVIOUS
    <3> HIDE DEF s, x, t
    <3> QED BY <3>2, <3>3, <3>4
  <2> HIDE DEF s, x, t
  <2>6. Append(s, x) = t
    BY <2>2, <2>4, <2>5, SeqEqual
  <2> QED BY <2>6 DEF s, x, t
<1> QED BY <1>1, <1>2, <1>3, <1>4

\* A file is begun empty.
LEMMA ImageBegins ==
  ASSUME NEW f
  PROVE  Image(f, 0) = <<>>
<1>1. Image(f, 0) \in [1 .. 0 -> {<<f, 0>>}]
  BY DEF Image
<1> QED BY <1>1, EmptySeq, SeqDef DEF Image

-----------------------------------------------------------------------------
(* What every step of FileDelivery keeps.                                  *)

\* The file under way is one of the Sender's, and a part of it is on the disk.
LEMMA FileUnderWay ==
  ASSUME DInv, Partial # NoPath
  PROVE  /\ Holds /\ Offered \in File /\ Source = Offered
         /\ Partial \in Path /\ ~Done(Partial)
         /\ Awaited \in Nat /\ Awaited < Packets[Offered]
         /\ disk[Partial] = Image(Offered, Awaited)
         /\ disk[Partial] # Absent /\ disk[Partial] # Old
<1>1. Holds
  BY DEF Partial, Holds
<1>2. Offered \in File
  BY <1>1 DEF DInv, SInv, AgreeInv, HeldInv
<1>3. Awaited \in Nat /\ Awaited < Packets[Offered]
  <2>1. CASE Receiving
    BY <2>1 DEF Awaited, Receiving, DInv, SInv, IInv, TypeOK, ReceiverTypeOK, AgreeInv, HeldInv
  <2>2. CASE ~Receiving
    <3>1. rSaved # NoRecord
      BY <2>2 DEF Partial, Receiving
    <3>2. rSaved \in TransferInfo
      BY <3>1 DEF DInv, SInv, IInv, TypeOK, ReceiverTypeOK
    <3> QED BY <2>2, <3>1, <3>2 DEF Awaited, TransferInfo, DInv, SInv, AgreeInv, HeldInv
  <2> QED BY <2>1, <2>2
<1>4. Partial \in Path /\ disk[Partial] = Image(Offered, Awaited) /\ ~Done(Partial)
  BY DEF DInv, TransferInv, DiskInv, Promise
<1> QED BY <1>1, <1>2, <1>3, <1>4, ImageGrows DEF Source

\* The steps of FileDelivery, in the terms of LuminT.
BeginFile(p) ==
  /\ rMessageState = "MESSAGE" /\ Partial = NoPath /\ disk[p] = Absent
  /\ disk' = [disk EXCEPT ![p] = <<>>]
  /\ Partial' = p
  /\ UNCHANGED completed

GrowFile ==
  /\ Partial # NoPath
  /\ disk' = [disk EXCEPT ![Partial] = Image(Offered, Awaited + 1)]

StoreFile ==
  /\ GrowFile /\ Awaited + 1 < Packets[Offered]
  /\ UNCHANGED <<Partial, completed>> /\ Offered' = Offered

DeliverFile ==
  /\ GrowFile /\ Awaited + 1 = Packets[Offered]
  /\ completed' = completed \union {<<Partial, NameOf[Offered]>>}
  /\ Partial' = NoPath

DropFile ==
  /\ Partial # NoPath
  /\ disk' = [disk EXCEPT ![Partial] = Absent]
  /\ Partial' = NoPath
  /\ UNCHANGED completed

DeliveryStep ==
  \/ \E p \in Path : BeginFile(p) /\ Offered' \in File
  \/ StoreFile \/ DeliverFile \/ DropFile
  \/ UNCHANGED <<disk, Partial, Source, completed>>

\* They are steps of FileDelivery.
LEMMA DeliverySteps ==
  ASSUME DInv, DeliveryStep
  PROVE  [Delivery!Next]_(Delivery!vars)
<1> USE DEF Delivery!Next, Delivery!vars
<1>1. ASSUME NEW p \in Path, BeginFile(p), Offered' \in File
      PROVE  Delivery!Begin(p, Offered')
  <2>1. p # NoPath
    BY ReceiverAssumption
  <2> QED BY <1>1, <2>1 DEF BeginFile, Delivery!Begin
<1>2. ASSUME Partial # NoPath
      PROVE  /\ Offered \in File /\ Awaited \in Nat /\ Awaited \in 0 .. Packets[Offered]
             /\ Source = Offered /\ Offered # NoFile /\ Packets[Offered] \in Nat
             /\ Awaited < Packets[Offered]
             /\ disk[Partial] = Image(Offered, Awaited)
  <2>1. Offered \in File /\ Packets[Offered] \in Nat
    BY <1>2, FileUnderWay, ConstantsAssumption
  <2> QED BY <1>2, <2>1, FileUnderWay, NoFileAssumption
<1>3. CASE StoreFile
  <2>1. Partial # NoPath
    BY <1>3 DEF StoreFile, GrowFile
  <2>2. Delivery!Store(Awaited)
    BY <1>2, <1>3, <2>1 DEF StoreFile, GrowFile, Delivery!Store, Delivery!Grow,
       Delivery!Image, Image, Source
  <2>3. Delivery!Next
    BY <1>2, <2>1, <2>2 DEF Source
  <2> QED BY <2>3
<1>4. CASE DeliverFile
  <2>1. Partial # NoPath
    BY <1>4 DEF DeliverFile, GrowFile
  <2>2. Delivery!Deliver(Awaited)
    BY <1>2, <1>4, <2>1 DEF DeliverFile, GrowFile, Delivery!Deliver, Delivery!Grow,
       Delivery!Image, Image, Source
  <2>3. Delivery!Next
    BY <1>2, <2>1, <2>2 DEF Source
  <2> QED BY <2>3
<1>5. CASE DropFile
  BY <1>5 DEF DropFile, Delivery!Drop
<1>6. CASE UNCHANGED <<disk, Partial, Source, completed>>
  BY <1>6 DEF Source
<1> QED BY <1>1, <1>3, <1>4, <1>5, <1>6 DEF DeliveryStep

\* A step of FileDelivery keeps what was delivered and leaves no other part.
LEMMA PromiseKept ==
  ASSUME DInv, DeliveryStep
  PROVE  Promise'
<1>1. /\ disk \in [Path -> Content \union {Absent}]
      /\ completed \subseteq Path \X Name
      /\ \A c \in completed : c[1] \in Path /\ Done(c[1]) /\ disk[c[1]] # Absent
  <2>1. /\ disk \in [Path -> Content \union {Absent}]
        /\ completed \subseteq Path \X Name
    BY DEF DInv, SInv, IInv, TypeOK, ReceiverTypeOK
  <2>2. ASSUME NEW c \in completed PROVE c[1] \in Path /\ Done(c[1]) /\ disk[c[1]] # Absent
    <3>1. PICK f \in File : disk[c[1]] = Image(f, Packets[f])
      BY <2>2 DEF DInv, Promise, CompletedFilesIntact
    <3> QED BY <2>1, <2>2, <3>1, ImageGrows, ConstantsAssumption DEF Done
  <2> QED BY <2>1, <2>2
<1>2. ASSUME NEW p \in Path, ~Done(p), \A q \in Path : q # p => disk'[q] = disk[q]
      PROVE  \A c \in completed : \E f \in File :
               NameOf[f] = c[2] /\ disk'[c[1]] = Image(f, Packets[f])
  BY <1>1, <1>2 DEF DInv, Promise, CompletedFilesIntact
<1>3. ASSUME NEW p \in Path, BeginFile(p) PROVE Promise'
  <2>1. ~Done(p) /\ p # NoPath
    BY <1>1, <1>3, ReceiverAssumption DEF BeginFile, Done
  <2>2. \A q \in Path : q # p => disk'[q] = disk[q]
    BY <1>1, <1>3 DEF BeginFile
  <2>3. CompletedFilesIntact'
    BY <1>2, <1>3, <2>1, <2>2 DEF BeginFile, CompletedFilesIntact
  <2>4. \A q \in Path : disk'[q] \in {Absent, Old} \/ Done(q) \/ q = Partial'
    BY <1>3, <2>2, ReceiverAssumption DEF BeginFile, DInv, Promise
  <2> QED BY <1>3, <2>1, <2>3, <2>4 DEF BeginFile, Promise, Done
<1>4. CASE StoreFile \/ DeliverFile \/ DropFile
  <2>1. Partial \in Path /\ ~Done(Partial) /\ Partial # NoPath /\ Offered \in File
    BY <1>4, FileUnderWay DEF StoreFile, DeliverFile, GrowFile, DropFile
  <2>2. \A q \in Path : q # Partial => disk'[q] = disk[q]
    BY <1>1, <1>4 DEF StoreFile, DeliverFile, GrowFile, DropFile
  <2>3. \A c \in completed : \E f \in File :
          NameOf[f] = c[2] /\ disk'[c[1]] = Image(f, Packets[f])
    BY <1>2, <2>1, <2>2
  <2>4. \A q \in Path : q # Partial => disk'[q] \in {Absent, Old} \/ Done(q)
    BY <2>2 DEF DInv, Promise
  <2>5. CASE StoreFile
    <3>1. CompletedFilesIntact'
      BY <2>3, <2>5 DEF StoreFile, CompletedFilesIntact
    <3> QED BY <2>1, <2>4, <2>5, <3>1 DEF StoreFile, Promise, Done
  <2>6. CASE DeliverFile
    <3>1. disk'[Partial] = Image(Offered, Packets[Offered])
      BY <1>1, <2>1, <2>6 DEF DeliverFile, GrowFile
    <3>2. CompletedFilesIntact'
      BY <2>1, <2>3, <2>6, <3>1 DEF DeliverFile, CompletedFilesIntact
    <3>3. \A q : Done(q)' <=> Done(q) \/ q = Partial
      <4> DEFINE d == <<Partial, NameOf[Offered]>>
      <4>1. d[1] = Partial /\ completed' = completed \union {d}
        BY <2>6 DEF DeliverFile
      <4> HIDE DEF d
      <4> QED BY <4>1 DEF Done
    <3> QED BY <2>4, <2>6, <3>2, <3>3 DEF DeliverFile, Promise
  <2>7. CASE DropFile
    <3>1. disk'[Partial] = Absent
      BY <1>1, <2>1, <2>7 DEF DropFile
    <3>2. CompletedFilesIntact'
      BY <2>3, <2>7 DEF DropFile, CompletedFilesIntact
    <3> QED BY <2>4, <2>7, <3>1, <3>2 DEF DropFile, Promise, Done
  <2> QED BY <1>4, <2>5, <2>6, <2>7
<1>5. CASE UNCHANGED <<disk, Partial, Source, completed>>
  BY <1>5 DEF DInv, Promise, CompletedFilesIntact, Done
<1> QED BY <1>3, <1>4, <1>5 DEF DeliveryStep

-----------------------------------------------------------------------------
(* Steps that leave the files alone.                                       *)

\* While the Receiver holds anything of a transfer the Sender goes on offering
\* the same file, in memory or in its record.
LEMMA OfferStands ==
  ASSUME SInv, Calm, SenderStep, UNCHANGED receiverVars, Holds
  PROVE  Offered' = Offered
<1>1. ~SCrash
  BY DEF Calm, SCrash
<1>2. /\ sMessageState \in SenderMessageState
      /\ sMessageState # "MESSAGE" => sFile \in File
      /\ clientState = "DISCONNECTED" /\ sMessageState # "MESSAGE" => sSaved = sFile
      /\ clientState # "DISCONNECTED" /\ sPage # "sender" => sMessageState = "MESSAGE"
  BY DEF SInv, AgreeInv, EndsInv, IInv, TypeOK, SenderTypeOK
<1>3. CASE \/ SOpenWaitingPage \/ SocketConnected \/ SocketError \/ SSocketReady \/ SRegister
           \/ SHandleKeyRequest \/ SHandleFilePacket \/ SHandleError \/ SendTextMessage
  BY <1>3 DEF SOpenWaitingPage, SocketConnected, SocketError, SSocketReady, SRegister,
     SHandleKeyRequest, SHandleFilePacket, SHandleError, SendTextMessage, senderVars, Offered
<1>4. CASE \/ ConnectToReceiver \/ SBack \/ SSocketDisconnected \/ SEncryptingTimeout \/ SQuit
           \/ SSuspend
  BY <1>2, <1>4 DEF ConnectToReceiver, SBack, SSocketDisconnected, SEncryptingTimeout, SLeave,
     SQuit, SRestart, SSuspend, SSaveFileTransferInfo, SenderMessageState, Offered
<1>5. CASE SHandleDeviceKey
  <2>1. Has(toSender, "DEVICE_KEY") /\ clientState \in {"ENCRYPTED", "UNRECOGNIZED"}
    BY <1>5, SenderReads DEF SHandleDeviceKey, SInv, AgreeInv
  <2>2. sMessageState = "MESSAGE"
    BY <1>2, <2>1 DEF SInv, AgreeInv, TalkInv, KeyTalk
  <2> QED BY <1>5, <2>2 DEF SHandleDeviceKey, Offered
<1>6. CASE SHandleCancel \/ SHandleFileSuccess \/ SHandleFileError
  <2>1. PICK t \in Ending : Reads(t)
    BY <1>6 DEF SHandleCancel, SHandleFileSuccess, SHandleFileError, Ending
  <2>2. Has(toSender, t) /\ toReceiver = <<>>
    BY <2>1, SenderReads DEF SInv, AgreeInv
  <2> QED BY <2>2, EmptyShape DEF SInv, AgreeInv, TalkInv, Holds
<1>7. CASE SHandlePause
  <2>1. Has(toSender, "PAUSE_FILE_TRANSFER")
    BY <1>7, SenderReads DEF SHandlePause, SInv, AgreeInv
  <2>2. sMessageState # "MESSAGE"
    BY <2>1 DEF SInv, AgreeInv, TalkInv, FileTalk
  <2> QED BY <1>7, <2>2 DEF SHandlePause, Offered
<1>8. ASSUME NEW f \in File, SendFile(f) PROVE FALSE
  BY <1>8, RowsEnabled DEF SendFile
<1> QED BY <1>1, <1>3, <1>4, <1>5, <1>6, <1>7, <1>8
    DEF SenderStep, SenderUser, SenderHandlers

\* So a step of the Sender, or of the network, changes nothing of the transfer.
LEMMA FilesStand ==
  ASSUME DInv, UNCHANGED receiverVars, Holds => Offered' = Offered
  PROVE  TransferInv' /\ DeliveryStep
<1>1. CASE Holds
  BY <1>1 DEF DInv, TransferInv, DiskInv, NameInv, PlaceInv, Partial, Awaited, Receiving,
     RecordPath, AwaitsPacket, DeliveryStep, Source, receiverVars, connectionVars, fileVars
<1>2. CASE ~Holds
  <2>1. ~Receiving /\ popup = "none" /\ rSaved = NoRecord /\ Partial = NoPath
        /\ rMessageState = "MESSAGE"
    BY <1>2 DEF Holds, Receiving, Partial
  <2>2. ~Receiving' /\ popup' = "none" /\ rSaved' = NoRecord /\ Partial' = NoPath
        /\ rMessageState' = "MESSAGE" /\ UNCHANGED <<disk, completed>>
    BY <2>1 DEF Receiving, Partial, receiverVars, connectionVars, fileVars
  <2> QED BY <2>1, <2>2 DEF TransferInv, DiskInv, NameInv, PlaceInv, DeliveryStep, Source
<1> QED BY <1>1, <1>2

\* The same for a step of the Receiver that is about something else, or that
\* only pauses.
LEMMA FilesWait ==
  ASSUME DInv, UNCHANGED senderVars,
         UNCHANGED <<rInfo, rSaved, currentPath, currentOpen, disk, completed>>,
         \/ UNCHANGED rMessageState
         \/ rMessageState = "FILE_SENDING" /\ rMessageState' = "FILE_PAUSED",
         AwaitsPacket' => AwaitsPacket,
         popup' # "none" => popup # "none",
         serverState' = "DISCONNECTED" <=> serverState = "DISCONNECTED"
  PROVE  TransferInv' /\ DeliveryStep
<1>1. Offered' = Offered /\ Receiving' = Receiving
  BY DEF Offered, Receiving, senderVars
<1>2. Partial' = Partial /\ Awaited' = Awaited
  BY <1>1 DEF Partial, Awaited, Receiving
<1> QED BY <1>1, <1>2 DEF DInv, TransferInv, DiskInv, NameInv, PlaceInv, Receiving, RecordPath,
    DeliveryStep, Source

\* Connecting, the exchange of keys, texts and the folder dialog.
LEMMA FilesUntouched ==
  ASSUME DInv, UNCHANGED senderVars,
         \/ IncomingConnection \/ RSocketReady \/ RHandleDeviceKey \/ RHandleText \/ RRegister
         \/ PauseFileTransfer \/ CreateWithoutName \/ SendFileError
         \/ \E folder \in Folder : SetFilePath(folder)
  PROVE  TransferInv' /\ DeliveryStep
<1>2. CASE IncomingConnection
  <2>1. serverState = "CONNECTING"
    BY <1>2 DEF IncomingConnection, DInv, SInv, IInv, ReceiverInv, ServerConsistent
  <2> QED BY <1>2, <2>1, FilesWait DEF IncomingConnection, fileVars, AwaitsPacket
<1>3. CASE RSocketReady \/ RHandleDeviceKey \/ RHandleText
  BY <1>3, FilesWait DEF RSocketReady, RHandleDeviceKey, RHandleText, Receives, NextMessage,
     Readable, fileVars, receiverVars, connectionVars, AwaitsPacket
<1>4. CASE RRegister \/ PauseFileTransfer \/ CreateWithoutName
  BY <1>4, FilesWait DEF RRegister, PauseFileTransfer, CreateWithoutName, OnReceiverPage,
     fileVars, connectionVars, AwaitsPacket
<1>5. CASE SendFileError
  <2>1. rMessageState = "MESSAGE"
    BY <1>5 DEF SendFileError, DInv, SInv, AgreeInv, HeldInv
  <2> QED BY <1>5, <2>1, FilesWait DEF SendFileError, fileVars, connectionVars, AwaitsPacket
<1>6. ASSUME NEW folder \in Folder, SetFilePath(folder) PROVE TransferInv' /\ DeliveryStep
  <2>1. /\ rPage = "receiver" /\ (Receiving => ~InPlace)
        /\ rInfo'.name = rInfo.name /\ rInfo'.packetNumber = rInfo.packetNumber
        /\ UNCHANGED <<connectionVars, currentPath, currentOpen, disk, rMessageState, rSaved,
                       popup, pauseButton, completed>>
    BY <1>6 DEF SetFilePath, Receiving, InPlace
  <2>2. serverState # "DISCONNECTED"
    BY <2>1 DEF DInv, SInv, IInv, ReceiverInv
  <2>3. Offered' = Offered /\ Receiving' = Receiving /\ Partial' = Partial /\ Awaited' = Awaited
    BY <2>1 DEF Offered, Receiving, Partial, Awaited, senderVars
  <2> QED BY <2>1, <2>2, <2>3 DEF DInv, TransferInv, DiskInv, NameInv, PlaceInv, Receiving,
      RecordPath, DeliveryStep, Source, AwaitsPacket, connectionVars
<1> QED BY <1>2, <1>3, <1>4, <1>5, <1>6

-----------------------------------------------------------------------------
(* Records.                                                                *)

\* A stop, and a suspension, record the transfer under way.
LEMMA FilesRecorded ==
  ASSUME DInv, UNCHANGED senderVars, RSaveFileTransferInfo,
         UNCHANGED <<rInfo, rMessageState, currentPath, disk, completed, pauseButton>>,
         popup' # "none" => popup # "none",
         serverState' = "DISCONNECTED" \/ UNCHANGED <<serverState, currentOpen>>
  PROVE  TransferInv' /\ DeliveryStep
<1>1. Offered' = Offered /\ Receiving' = Receiving /\ AwaitsPacket' = AwaitsPacket
  BY DEF Offered, Receiving, AwaitsPacket, senderVars
<1>2. CASE Receiving
  <2>1. rSaved' = rInfo
    BY <1>2 DEF Receiving, RSaveFileTransferInfo
  <2>2. Partial' = Partial /\ Awaited' = Awaited
    BY <1>1, <1>2 DEF Partial, Awaited, Receiving
  <2> QED BY <1>1, <1>2, <2>1, <2>2 DEF DInv, TransferInv, DiskInv, NameInv, PlaceInv,
      RecordPath, DeliveryStep, Source
<1>3. CASE ~Receiving
  <2>1. rSaved' = rSaved
    BY <1>3 DEF Receiving, RSaveFileTransferInfo
  <2>2. Partial' = Partial /\ Awaited' = Awaited
    BY <1>1, <1>3, <2>1 DEF Partial, Awaited, Receiving
  <2> QED BY <1>1, <1>3, <2>1, <2>2 DEF DInv, TransferInv, DiskInv, NameInv, PlaceInv,
      RecordPath, DeliveryStep, Source
<1> QED BY <1>2, <1>3

\* A Receiver that starts anew has what it recorded of the transfer.
LEMMA FilesFromRecord ==
  ASSUME DInv, UNCHANGED senderVars, rMessageState' = "MESSAGE", popup' = "none",
         UNCHANGED <<disk, completed>>,
         rSaved' = IF Receiving THEN rInfo ELSE rSaved,
         Receiving => InPlace
  PROVE  TransferInv' /\ DeliveryStep
<1>1. Offered' = Offered /\ ~Receiving' /\ ~AwaitsPacket'
  BY DEF Offered, Receiving, AwaitsPacket, senderVars
<1>2. CASE Receiving
  <2>1. rSaved' = rInfo /\ rSaved' # NoRecord
    <3>1. rInfo.name \in Name
      BY <1>2 DEF Receiving, DInv, SInv, IInv, FileInv
    <3>2. rInfo \in TransferInfo
      BY <3>1 DEF DInv, SInv, IInv, TypeOK, ReceiverTypeOK, TransferInfo
    <3> QED BY <1>2, <3>2, ReceiverAssumption
  <2>2. currentPath = <<rInfo.folder, rInfo.name>>
    BY <1>2 DEF DInv, TransferInv, PlaceInv
  <2>3. Partial' = Partial /\ Awaited' = Awaited
    BY <1>1, <1>2, <2>1, <2>2 DEF Partial, Awaited, Receiving
  <2> QED BY <1>1, <1>2, <2>1, <2>3 DEF DInv, TransferInv, DiskInv, NameInv, PlaceInv,
      DeliveryStep, Source
<1>3. CASE ~Receiving
  <2>1. Partial' = Partial /\ Awaited' = Awaited
    BY <1>1, <1>3 DEF Partial, Awaited, Receiving
  <2> QED BY <1>1, <1>3, <2>1 DEF DInv, TransferInv, DiskInv, NameInv, PlaceInv,
      DeliveryStep, Source
<1> QED BY <1>2, <1>3

\* Every way the Receiver has of leaving, and suspension.
LEMMA FilesLeft ==
  ASSUME DInv, Traceable, UNCHANGED senderVars,
         \/ RSocketDisconnected \/ RHandleError \/ REncryptingTimeout \/ RBack \/ RQuit
         \/ RSuspend \/ StartServer
  PROVE  TransferInv' /\ DeliveryStep
<1>1. ASSUME NEW state, StopServer(state) PROVE TransferInv' /\ DeliveryStep
  BY <1>1, FilesRecorded DEF StopServer
<1>2. CASE RSocketDisconnected
  BY <1>1, <1>2 DEF RSocketDisconnected
<1>3. CASE RHandleError \/ REncryptingTimeout
  BY <1>1, <1>3 DEF RHandleError, REncryptingTimeout
<1>4. CASE RBack
  <2>1. CASE serverState = "DISCONNECTED"
    BY <1>4, <2>1, FilesWait DEF RBack, fileVars, AwaitsPacket
  <2> QED BY <1>1, <1>4, <2>1 DEF RBack
<1>5. CASE RSuspend
  BY <1>5, FilesRecorded DEF RSuspend, fileVars, connectionVars
<1>6. serverSocket = "null" /\ Receiving => serverState = "DISCONNECTED"
  BY DEF DInv, SInv, IInv, TypeOK, ReceiverTypeOK, ReceiverInv, ServerConsistent, ServerState,
     Receiving, AgreeInv, EndsInv
<1>7. Receiving /\ serverState = "DISCONNECTED" => rSaved = rInfo
  BY DEF DInv, TransferInv, NameInv
<1>8. CASE RQuit
  <2>1. rSaved' = IF Receiving THEN rInfo ELSE rSaved
    BY <1>6, <1>7, <1>8 DEF RQuit, RSaveFileTransferInfo, Receiving
  <2>2. InPlace
    BY <1>8 DEF RQuit, Traceable, Undisturbed
  <2> QED BY <1>8, <2>1, <2>2, FilesFromRecord DEF RQuit, RRestart
<1>9. CASE StartServer
  <2>1. rPage = "start" /\ serverState = "DISCONNECTED" /\ popup = "none"
    BY <1>9 DEF StartServer, DInv, SInv, IInv, ReceiverInv
  <2>2. CASE UNCHANGED <<serverState, rMessageState>>
    BY <1>9, <2>2, FilesWait DEF StartServer, fileVars, AwaitsPacket
  <2>3. CASE rMessageState' = "MESSAGE"
    <3>1. Receiving => InPlace
      BY <2>1 DEF Traceable, DInv, QuietInv, QuietTransfer, Receiving
    <3> QED BY <1>7, <1>9, <2>1, <2>3, <3>1, FilesFromRecord DEF StartServer, fileVars
  <2> QED BY <1>9, <2>2, <2>3 DEF StartServer
<1> QED BY <1>2, <1>3, <1>4, <1>5, <1>8, <1>9

\* A recorded transfer comes back where it stopped.
LEMMA FilesBack ==
  ASSUME DInv, UNCHANGED senderVars, RHandleDeviceKeyOk
  PROVE  TransferInv' /\ DeliveryStep
<1>1. rMessageState = "MESSAGE" /\ serverState # "DISCONNECTED" /\ popup = "none"
  BY DEF RHandleDeviceKeyOk, Receives, NextMessage, Readable, DInv, SInv, AgreeInv, HeldInv
<1>2. CASE rSaved = NoRecord
  BY <1>1, <1>2, FilesWait DEF RHandleDeviceKeyOk, fileVars, AwaitsPacket
<1>3. CASE rSaved # NoRecord
  <2>1. /\ rInfo' = rSaved /\ rMessageState' = "FILE_PAUSED" /\ currentPath' = RecordPath
        /\ pauseButton' = "Resume"
        /\ UNCHANGED <<disk, serverState, rSaved, popup, completed>>
    BY <1>3 DEF RHandleDeviceKeyOk, RecordPath
  <2>2. /\ Offered' = Offered /\ Receiving' /\ ~Receiving /\ ~AwaitsPacket'
        /\ RecordPath' = RecordPath
    BY <1>1, <2>1 DEF Offered, Receiving, AwaitsPacket, RecordPath, senderVars
  <2>3. Partial' = Partial /\ Awaited' = Awaited
    BY <1>3, <2>1, <2>2 DEF Partial, Awaited, Receiving, RecordPath
  <2> QED BY <1>1, <1>3, <2>1, <2>2, <2>3 DEF DInv, TransferInv, DiskInv, NameInv, PlaceInv,
      DeliveryStep, Source, RecordPath
<1> QED BY <1>2, <1>3

-----------------------------------------------------------------------------
(* Steps that write to the disk.                                           *)

\* createFile begins the file, or leaves everything to a popup.
LEMMA FilesBegun ==
  ASSUME DInv, Traceable, UNCHANGED senderVars, NEW path \in Path, CreateFile(path),
         UNCHANGED <<rSaved, completed, serverState>>,
         serverState # "DISCONNECTED", rMessageState = "MESSAGE", rSaved = NoRecord,
         Offered \in File, rInfo'.name = NameOf[Offered], rInfo'.packetNumber = 0,
         InPlace => path = <<rInfo'.folder, rInfo'.name>>
  PROVE  TransferInv' /\ DeliveryStep
<1>1. Offered' = Offered /\ Partial = NoPath /\ ~Receiving
  BY DEF Offered, Partial, Receiving, senderVars
<1>2. CASE UNCHANGED <<disk, rMessageState>>
  BY <1>1, <1>2 DEF CreateFile, TransferInv, DiskInv, NameInv, PlaceInv, Partial, Receiving,
     DeliveryStep, Source
<1>3. CASE ~UNCHANGED <<disk, rMessageState>>
  <2>1. /\ currentPath' = path /\ disk[path] = Absent /\ currentOpen' = "open"
        /\ disk' = [disk EXCEPT ![path] = <<>>] /\ rMessageState' = "FILE_SENDING"
    BY <1>3 DEF CreateFile, FileExists
  <2>2. Receiving' /\ Partial' = path /\ Awaited' = 0
    BY <2>1 DEF Receiving, Partial, Awaited
  <2>3. BeginFile(path)
    BY <1>1, <2>1, <2>2 DEF BeginFile
  <2>4. disk'[path] = Image(Offered, 0)
    <3>1. disk \in [Path -> Content \union {Absent}]
      BY DEF DInv, SInv, IInv, TypeOK, ReceiverTypeOK
    <3>2. disk'[path] = <<>>
      BY <2>1, <3>1, Zenon
    <3>3. Image(Offered, 0) = <<>>
      BY ImageBegins
    <3> QED BY <3>2, <3>3, Zenon
  <2> QED BY <1>1, <2>1, <2>2, <2>3, <2>4 DEF TransferInv, DiskInv, NameInv, PlaceInv,
      DeliveryStep
<1> QED BY <1>2, <1>3

\* A file is offered, or given another name in the popup.
LEMMA FilesOffered ==
  ASSUME DInv, Traceable, UNCHANGED senderVars,
         RHandleFileInfo \/ \E name \in Name : CreateUnderAnotherName(name)
  PROVE  TransferInv' /\ DeliveryStep
<1>1. CASE RHandleFileInfo
  <2> DEFINE info == Head(toReceiver)
  <2>1. /\ Has(toReceiver, "FILE_INFO") /\ info = FileInfo(Offered) /\ rMessageState = "MESSAGE"
    BY <1>1, ReceiverReads
    DEF RHandleFileInfo, Receives, NextMessage, DInv, SInv, AgreeInv, IsOf
  <2>2. rSaved = NoRecord /\ Offered \in File
    BY <2>1 DEF DInv, SInv, AgreeInv, TalkInv, HeldInv, Holds
  <2>3. info.name = NameOf[Offered] /\ NameOf[Offered] \in Name
    BY <2>1, <2>2, ConstantsAssumption DEF FileInfo
  <2>4. /\ rInfo' = [rInfo EXCEPT !.size = info.size, !.name = info.name, !.packetNumber = 0]
        /\ CreateFile(<<rInfo.folder, info.name>>)
        /\ UNCHANGED <<serverState, rSaved, completed>> /\ serverState # "DISCONNECTED"
    BY <1>1 DEF RHandleFileInfo, connectionVars, Receives, NextMessage, Readable
  <2> HIDE DEF info
  <2>5. /\ rInfo'.name = NameOf[Offered] /\ rInfo'.packetNumber = 0
        /\ rInfo'.folder = rInfo.folder /\ <<rInfo.folder, info.name>> \in Path
    BY <2>3, <2>4 DEF DInv, SInv, IInv, TypeOK, ReceiverTypeOK, Path
  <2> QED BY <2>1, <2>2, <2>3, <2>4, <2>5, FilesBegun
<1>2. ASSUME NEW name \in Name, CreateUnderAnotherName(name) PROVE TransferInv' /\ DeliveryStep
  <2>1. /\ popup = "exists" /\ CreateFile(<<rInfo.folder, name>>) /\ ~InPlace
        /\ UNCHANGED <<serverState, rInfo, rSaved, completed>>
    BY <1>2 DEF CreateUnderAnotherName, InPlace, connectionVars
  <2>2. /\ rMessageState = "MESSAGE" /\ rSaved = NoRecord /\ Offered \in File
        /\ rInfo.name = NameOf[Offered] /\ rInfo.packetNumber = 0
        /\ serverState # "DISCONNECTED"
    BY <2>1 DEF DInv, SInv, IInv, ReceiverInv, AgreeInv, HeldInv, Holds, TransferInv, NameInv
  <2>3. <<rInfo.folder, name>> \in Path
    BY DEF DInv, SInv, IInv, TypeOK, ReceiverTypeOK, Path
  <2> QED BY <2>1, <2>2, <2>3, FilesBegun
<1> QED BY <1>1, <1>2

\* A packet that comes in is the next one of the file, and is stored after
\* those before it; the last one delivers the file.
LEMMA FilesGrow ==
  ASSUME DInv, Traceable, UNCHANGED senderVars, RFinishFile \/ RConfirmPause \/ RRequestNext
  PROVE  TransferInv' /\ DeliveryStep
<1> DEFINE n == rInfo.packetNumber
<1>1. /\ StoresPacket /\ ReadsPacket /\ Readable
      /\ rMessageState \notin {"MESSAGE", "FILE_ABORTING"}
      /\ WritePacket(Head(toReceiver)) /\ rInfo' = [rInfo EXCEPT !.packetNumber = @ + 1]
      /\ UNCHANGED <<serverState, currentPath, popup>>
  BY DEF RFinishFile, RConfirmPause, RRequestNext, StoresPacket, ReadsPacket, connectionVars
<1>2. /\ Head(toReceiver) = Packet(Offered, n) /\ AwaitsPacket /\ Offered \in File
      /\ n \in Nat /\ rInfo.size \in Nat /\ n < rInfo.size /\ rInfo.size = Packets[Offered]
      /\ popup = "none"
  BY <1>1, PacketExpected DEF DInv
<1>3. Receiving /\ serverState # "DISCONNECTED"
  BY <1>1 DEF Readable, Receiving, DInv, SInv, IInv, TypeOK, ReceiverTypeOK,
     ReceiverMessageState
<1>4. Partial = currentPath /\ Awaited = n /\ Offered' = Offered
  BY <1>3 DEF Partial, Awaited, Receiving, Offered, senderVars
<1>5. /\ currentOpen = "open" /\ currentPath \in Path /\ currentPath # NoPath
      /\ disk[currentPath] = Image(Offered, n)
  <2>1. currentOpen = "open" /\ currentPath \in Path
    BY <1>2, <1>3 DEF DInv, TransferInv, DiskInv, SInv, IInv, FileInv
  <2>2. currentPath # NoPath
    BY <2>1, ReceiverAssumption
  <2> QED BY <1>4, <2>1, <2>2 DEF DInv, TransferInv, DiskInv
<1>6. disk' = [disk EXCEPT ![currentPath] = Image(Offered, n + 1)]
  <2>1. disk' = [disk EXCEPT ![currentPath] = Append(@, <<Offered, n>>)]
    BY <1>1, <1>2, <1>5 DEF WritePacket, Packet, Traceable
  <2> QED BY <1>2, <1>5, <2>1, ImageGrows
<1>7. disk'[currentPath] = Image(Offered, n + 1)
  BY <1>5, <1>6 DEF DInv, SInv, IInv, TypeOK, ReceiverTypeOK
<1>8. /\ rInfo'.packetNumber = n + 1 /\ rInfo'.name = rInfo.name /\ rInfo'.folder = rInfo.folder
  BY <1>1 DEF DInv, SInv, IInv, TypeOK, ReceiverTypeOK
<1>9. GrowFile
  BY <1>4, <1>5, <1>6 DEF GrowFile
<1> HIDE DEF n
<1>10. CASE RFinishFile
  <2>1. /\ rMessageState' = "MESSAGE" /\ rSaved' = NoRecord
        /\ completed' = completed \union {<<currentPath, rInfo.name>>}
        /\ IsLast(n, rInfo.size)
    BY <1>10 DEF RFinishFile, n
  <2>2. ~Receiving' /\ Partial' = NoPath
    BY <2>1 DEF Receiving, Partial
  <2>3. n + 1 = Packets[Offered]
    BY <1>2, <2>1 DEF IsLast
  <2>4. rInfo.name = NameOf[Offered]
    BY <1>3 DEF DInv, TransferInv, NameInv
  <2>5. DeliverFile
    BY <1>4, <1>9, <2>1, <2>2, <2>3, <2>4 DEF DeliverFile
  <2> QED BY <1>1, <1>2, <2>1, <2>2, <2>5 DEF TransferInv, DiskInv, NameInv, PlaceInv, DeliveryStep
<1>11. CASE RConfirmPause \/ RRequestNext
  <2>1. /\ UNCHANGED <<rMessageState, rSaved, completed>>
        /\ ~IsLast(n, rInfo.size)
        /\ AwaitsPacket' => UNCHANGED currentOpen
    BY <1>11 DEF RConfirmPause, RRequestNext, AwaitsPacket, n
  <2>2. Receiving' /\ Partial' = Partial /\ Awaited' = n + 1 /\ RecordPath' = RecordPath
    BY <1>1, <1>3, <1>8, <2>1 DEF Receiving, Partial, Awaited, RecordPath
  <2>3. n + 1 < Packets[Offered]
    BY <1>2, <2>1 DEF IsLast
  <2>4. StoreFile
    BY <1>4, <1>9, <2>1, <2>2, <2>3 DEF StoreFile
  <2>5. DiskInv'
    BY <1>2, <1>3, <1>4, <1>5, <1>7, <2>1, <2>2 DEF DiskInv, Receiving
  <2>6. NameInv' /\ PlaceInv'
    BY <1>1, <1>2, <1>3, <1>4, <1>8, <2>1, <2>2
    DEF DInv, TransferInv, NameInv, PlaceInv
  <2> QED BY <2>4, <2>5, <2>6 DEF TransferInv, DeliveryStep
<1> QED BY <1>10, <1>11

\* The packet a cancellation waited for is dropped.
LEMMA FilesAborted ==
  ASSUME DInv, UNCHANGED senderVars, RFinishCancel
  PROVE  TransferInv' /\ DeliveryStep
<1>1. /\ rMessageState = "FILE_ABORTING" /\ rMessageState' = "MESSAGE"
      /\ UNCHANGED <<rSaved, disk, completed, popup>>
  BY DEF RFinishCancel, fileVars
<1>2. rSaved = NoRecord /\ popup = "none"
  BY <1>1 DEF DInv, SInv, AgreeInv, HeldInv
<1> QED BY <1>1, <1>2 DEF TransferInv, DiskInv, NameInv, PlaceInv, DeliveryStep, Partial,
    Receiving, Source

\* A transfer that is resumed goes on with the file it has.
LEMMA FilesResumed ==
  ASSUME DInv, Traceable, UNCHANGED senderVars, ResumeFileTransfer
  PROVE  TransferInv' /\ DeliveryStep
<1>1. /\ rMessageState = "FILE_PAUSED" /\ rMessageState' = "FILE_SENDING" /\ OpenToAppend
      /\ currentOpen' = "open"
      /\ UNCHANGED <<serverState, rInfo, currentPath, rSaved, popup, completed>>
  BY DEF ResumeFileTransfer, Traceable, connectionVars
<1>2. Offered' = Offered /\ Receiving /\ Receiving'
  BY <1>1 DEF Offered, Receiving, senderVars
<1>3. Partial = currentPath /\ Partial' = Partial /\ Awaited' = Awaited
      /\ RecordPath' = RecordPath
  BY <1>1, <1>2 DEF Partial, Receiving, Awaited, RecordPath
<1>4. currentPath \in Path /\ currentPath # NoPath
  BY <1>1, ReceiverAssumption DEF DInv, SInv, IInv, FileInv
<1>5. disk[currentPath] # Absent
  BY <1>3, <1>4, FileUnderWay
<1>6. disk' = disk
  BY <1>1, <1>4, <1>5 DEF OpenToAppend, DInv, SInv, IInv, TypeOK, ReceiverTypeOK
<1> QED BY <1>1, <1>2, <1>3, <1>6 DEF DInv, TransferInv, DiskInv, NameInv, PlaceInv,
    DeliveryStep, Source

\* A transfer that is cancelled is dropped with its file.
LEMMA FilesDropped ==
  ASSUME DInv, Traceable, UNCHANGED senderVars, CancelFileTransfer
  PROVE  TransferInv' /\ DeliveryStep
<1>1. /\ rMessageState # "MESSAGE" /\ rSaved = NoRecord /\ popup = "none"
      /\ rMessageState' \in {"MESSAGE", "FILE_ABORTING"}
      /\ disk' = [disk EXCEPT ![currentPath] = Absent]
      /\ UNCHANGED <<rSaved, currentPath, popup, completed>>
  BY DEF CancelFileTransfer, Traceable, Calm, OnReceiverPage
<1>2. ~Receiving' /\ Partial' = NoPath
  BY <1>1 DEF Receiving, Partial
<1>3. currentPath \in Path /\ currentPath # NoPath
  BY <1>1, ReceiverAssumption DEF DInv, SInv, IInv, FileInv
<1>4. disk'[currentPath] = Absent
  BY <1>1, <1>3 DEF DInv, SInv, IInv, TypeOK, ReceiverTypeOK
<1>5. TransferInv'
  BY <1>1, <1>2, <1>4 DEF TransferInv, DiskInv, NameInv, PlaceInv
<1>6. CASE Receiving
  <2>1. Partial = currentPath
    BY <1>6 DEF Partial, Receiving
  <2> QED BY <1>1, <1>2, <1>3, <1>5, <2>1 DEF DeliveryStep, DropFile
<1>7. CASE ~Receiving
  <2>1. rMessageState = "FILE_ABORTING"
    BY <1>1, <1>7 DEF Receiving, DInv, SInv, IInv, TypeOK, ReceiverTypeOK, ReceiverMessageState
  <2>2. disk[currentPath] = Absent /\ Partial = NoPath
    BY <1>1, <1>7, <2>1 DEF DInv, TransferInv, DiskInv, Partial, Receiving
  <2>3. disk' = disk
    BY <1>1, <1>3, <2>2 DEF DInv, SInv, IInv, TypeOK, ReceiverTypeOK
  <2> QED BY <1>1, <1>2, <1>5, <2>2, <2>3 DEF DeliveryStep, Source
<1> QED BY <1>6, <1>7

\* Every step.
LEMMA FilesKept ==
  ASSUME DInv, Traceable, [Next]_vars
  PROVE  TransferInv' /\ DeliveryStep
<1>1. Calm /\ SInv
  BY DEF Traceable, DInv
<1>2. CASE UNCHANGED vars
  <2>1. UNCHANGED receiverVars /\ Offered' = Offered
    BY <1>2 DEF vars, senderVars, Offered
  <2> QED BY <2>1, FilesStand
<1>3. CASE SenderStep /\ UNCHANGED receiverVars
  BY <1>1, <1>3, OfferStands, FilesStand
<1>4. CASE LinkDrop /\ UNCHANGED <<senderVars, receiverVars>>
  <2>1. Offered' = Offered
    BY <1>4 DEF senderVars, Offered
  <2> QED BY <1>4, <2>1, FilesStand
<1>5. CASE ReceiverStep /\ UNCHANGED senderVars
  <2>1. ~RCrash /\ ~Misread
    BY <1>1, NeverMisread DEF Calm, RCrash
  <2> QED BY <1>5, <2>1, FilesUntouched, FilesLeft, FilesBack, FilesOffered, FilesGrow,
      FilesAborted, FilesResumed, FilesDropped DEF ReceiverStep, ReceiverUser, ReceiverHandlers
<1> QED BY <1>2, <1>3, <1>4, <1>5 DEF Next

-----------------------------------------------------------------------------
(* Sessions that nobody leaves.                                            *)

\* What reading the channels, and writing to them, says of keys.
NoNewKey ==
  /\ Has(toSender', "DEVICE_KEY") => Has(toSender, "DEVICE_KEY")
  /\ Has(toReceiver', "DEVICE_KEY_OK") => Has(toReceiver, "DEVICE_KEY_OK")

\* A channel that is read or cut has no new key.
LEMMA ReadsNoKey ==
  ASSUME IInv,
         \/ UNCHANGED toSender \/ toSender' \in Prefixes(toSender) \/ toSender' = <<>>
         \/ toSender # <<>> /\ toSender' = Tail(toSender),
         \/ UNCHANGED toReceiver \/ toReceiver' \in Prefixes(toReceiver) \/ toReceiver' = <<>>
         \/ toReceiver # <<>> /\ toReceiver' = Tail(toReceiver)
  PROVE  NoNewKey
<1>1. toSender \in Seq(Message) /\ toReceiver \in Seq(Message)
  BY DEF IInv, TypeOK, LinkTypeOK
<1>2. ASSUME NEW ch \in Seq(Message), NEW new,
             \/ new = ch \/ new \in Prefixes(ch) \/ new = <<>> \/ (ch # <<>> /\ new = Tail(ch)),
             NEW t, Has(new, t)
      PROVE  Has(ch, t)
  BY <1>2, TailMessage, PrefixShape, PartSays, EmptyMessage
<1> QED BY <1>1, <1>2 DEF NoNewKey

\* Nor has one that is written to but for the exchange of keys.
LEMMA WritesNoKey ==
  ASSUME IInv,
         \/ UNCHANGED toSender
         \/ toSender # <<>> /\ toSender' = Tail(toSender)
         \/ \E n \in Nat : SendToSender(FilePacket(n))
         \/ \E t \in SignalType \ {"DEVICE_KEY"} : SendToSender(Signal(t)),
         \/ UNCHANGED toReceiver
         \/ toReceiver # <<>> /\ toReceiver' = Tail(toReceiver)
         \/ \E m \in Message : m.type # "DEVICE_KEY_OK" /\ SendToReceiver(m)
  PROVE  NoNewKey
<1>1. toSender \in Seq(Message) /\ toReceiver \in Seq(Message)
  BY DEF IInv, TypeOK, LinkTypeOK
<1>2. Has(toSender', "DEVICE_KEY") => Has(toSender, "DEVICE_KEY")
  BY <1>1, TailMessage, QuietWrite DEF QuietToSender
<1>3. Has(toReceiver', "DEVICE_KEY_OK") => Has(toReceiver, "DEVICE_KEY_OK")
  BY <1>1, TailMessage, WriteToReceiver
<1> QED BY <1>2, <1>3 DEF NoNewKey

\* The exchange of keys at the Sender.
LEMMA SenderKeysStay ==
  ASSUME HInv, QuietLink, UNCHANGED receiverVars,
         SHandleKeyRequest \/ SHandleDeviceKey \/ SHandleError
  PROVE  QuietLink'
<1>1. /\ toSender \in Seq(Message) /\ toReceiver \in Seq(Message)
  BY DEF HInv, IInv, TypeOK, LinkTypeOK
<1>2. PICK t \in KeyTalk : Reads(t)
  BY DEF SHandleKeyRequest, SHandleDeviceKey, SHandleError, KeyTalk
<1>3. /\ toSender # <<>> /\ Head(toSender).type = t /\ toSender' = Tail(toSender)
      /\ clientState \in {"ENCRYPTED", "UNRECOGNIZED"} /\ Has(toSender, t)
  BY <1>1, <1>2, TailMessage DEF Reads
<1>4. /\ Len(toSender) = 1 /\ toReceiver = <<>> /\ sPage # "sender" /\ rPage # "receiver"
      /\ clientState = "ENCRYPTED"
  BY <1>3 DEF HInv, KeyPhase
<1>5. toSender' = <<>>
  BY <1>1, <1>3, <1>4, FirstAndRest
<1>6. ASSUME NEW u \in SignalType, SendToReceiver(Signal(u)), Has(toReceiver', "DEVICE_KEY_OK")
      PROVE  u = "DEVICE_KEY_OK"
  <2>1. Signal(u) \in Message /\ Signal(u).type = u
    BY MessageKinds
  <2> QED BY <1>1, <1>4, <1>6, <2>1, WriteToReceiver, EmptyMessage
<1> USE DEF QuietLink, receiverVars, connectionVars, SignalType
<1>7. CASE SHandleKeyRequest
  BY <1>4, <1>5, <1>6, <1>7, EmptyMessage DEF SHandleKeyRequest, senderVars
<1>8. CASE SHandleDeviceKey
  <2>1. Has(toSender, "DEVICE_KEY") /\ ~Has(toSender, "ERROR")
    BY <1>3, <1>4, <1>8 DEF SHandleDeviceKey, Reads, Has
  <2>2. conn = "accepted"
    BY <1>4, <2>1
  <2>3. serverState = "ENCRYPTED"
    BY <1>3, <2>1, <2>2, EmptyMessage DEF HInv, IInv, ReceiverInv, EndsPhase
  <2>4. CASE SKeyRegistered
    BY <1>4, <1>5, <1>8, <2>2, <2>3, <2>4, EmptyMessage DEF SHandleDeviceKey
  <2>5. CASE ~SKeyRegistered
    BY <1>4, <1>5, <1>6, <1>8, <2>5, EmptyMessage DEF SHandleDeviceKey
  <2> QED BY <2>4, <2>5
<1>9. CASE SHandleError
  BY <1>4, <1>5, <1>9, EmptyMessage DEF SHandleError
<1> QED BY <1>7, <1>8, <1>9

\* A step of the Sender in a session that nobody leaves.
LEMMA SenderStays ==
  ASSUME HInv, Calm, Undisturbed, QuietLink, SenderStep, UNCHANGED receiverVars
  PROVE  QuietLink'
<1> USE DEF QuietLink, receiverVars, connectionVars
<1>1. ~SCrash /\ ~SQuit /\ ~SSuspend
  BY DEF Calm, Undisturbed, SCrash, SQuit, SSuspend
<1>2. /\ toSender \in Seq(Message) /\ toReceiver \in Seq(Message)
      /\ SenderInv /\ ReceiverInv /\ IInv
  BY DEF HInv, IInv, TypeOK, LinkTypeOK
<1>3. CASE \/ SOpenWaitingPage \/ ConnectToReceiver \/ SocketConnected \/ SocketError
           \/ SSocketReady \/ SRegister
  <2>1. sPage # "sender" /\ rPage # "receiver"
    BY <1>2, <1>3 DEF SOpenWaitingPage, ConnectToReceiver, SocketConnected, SocketError,
       SSocketReady, SRegister, SenderInv
  <2>2. sPage' # "sender" /\ UNCHANGED <<toSender, toReceiver, rPage>>
    BY <1>3, <2>1 DEF SOpenWaitingPage, ConnectToReceiver, SocketConnected, SocketError,
       SSocketReady, SRegister, linkVars, senderVars
  <2>3. \/ clientState' # "ENCRYPTED" \/ conn' = "accepted"
        \/ UNCHANGED <<conn, clientState>>
    BY <1>2, <1>3 DEF SOpenWaitingPage, ConnectToReceiver, SocketConnected, SocketError,
       SSocketReady, SRegister, SenderInv, senderVars, linkVars
  <2> QED BY <2>1, <2>2, <2>3
<1>4. CASE SSocketDisconnected \/ SEncryptingTimeout \/ (MayLeave /\ SBack)
  <2>1. sPage # "sender" /\ rPage # "receiver"
    BY <1>2, <1>4 DEF SSocketDisconnected, SEncryptingTimeout, SBack, SenderInv, MayLeave,
       Undisturbed
  <2>2. sPage' # "sender" /\ UNCHANGED rPage
    BY <1>4 DEF SSocketDisconnected, SEncryptingTimeout, SLeave, SBack
  <2>3. NoNewKey /\ clientState' = "DISCONNECTED"
    BY <1>2, <1>4, ReadsNoKey DEF SSocketDisconnected, SEncryptingTimeout, SLeave, SBack,
       ClientAbort, Surviving, linkVars
  <2> QED BY <2>1, <2>2, <2>3 DEF NoNewKey
<1>5. CASE SHandleKeyRequest \/ SHandleDeviceKey \/ SHandleError
  BY <1>5, SenderKeysStay
<1>6. ASSUME UNCHANGED <<conn, clientState, sPage>>, NoNewKey PROVE QuietLink'
  BY <1>6 DEF NoNewKey
<1>7. CASE SHandleFilePacket
  <2> DEFINE n == Head(toSender).packet
  <2>1. n \in Nat
    BY <1>2, <1>7, MessageFields, TailMessage DEF SHandleFilePacket, Reads
  <2> HIDE DEF n
  <2>2. \/ UNCHANGED toReceiver
        \/ sFile \in File /\ SendToReceiver(Packet(sFile, n))
    BY <1>2, <1>7 DEF SHandleFilePacket, IInv, TypeOK, SenderTypeOK, n
  <2>3. sFile \in File => Packet(sFile, n) \in Message /\ Packet(sFile, n).type = "PACKET"
    BY <2>1, MessageKinds
  <2>4. toSender # <<>> /\ toSender' = Tail(toSender) /\ UNCHANGED <<conn, clientState, sPage>>
    BY <1>7 DEF SHandleFilePacket, Reads, senderVars
  <2> QED BY <1>2, <1>6, <2>2, <2>3, <2>4, WritesNoKey
<1>8. CASE SHandleCancel \/ SHandleFileSuccess \/ SHandleFileError \/ SHandlePause
  BY <1>2, <1>6, <1>8, WritesNoKey DEF SHandleCancel, SHandleFileSuccess, SHandleFileError,
     SHandlePause, FileDone, Reads
<1>9. CASE SendTextMessage
  <2>1. Signal("TEXT") \in Message /\ Signal("TEXT").type = "TEXT"
    BY MessageKinds DEF SignalType
  <2> QED BY <1>2, <1>6, <1>9, <2>1, WritesNoKey DEF SendTextMessage, senderVars
<1>10. ASSUME NEW f \in File, SendFile(f) PROVE QuietLink'
  <2>1. FileInfo(f) \in Message /\ FileInfo(f).type = "FILE_INFO"
    BY MessageKinds
  <2>2. UNCHANGED toReceiver \/ SendToReceiver(FileInfo(f))
    BY <1>10 DEF SendFile
  <2> QED BY <1>2, <1>6, <1>10, <2>1, <2>2, WritesNoKey DEF SendFile
<1> QED BY <1>1, <1>3, <1>4, <1>5, <1>7, <1>8, <1>9, <1>10
    DEF SenderStep, SenderUser, SenderHandlers

\* The exchange of keys at the Receiver.
LEMMA ReceiverKeysStay ==
  ASSUME HInv, QuietLink, UNCHANGED senderVars,
         RSocketReady \/ RHandleDeviceKey \/ RHandleDeviceKeyOk
  PROVE  QuietLink'
<1> USE DEF QuietLink, senderVars
<1>1. toSender \in Seq(Message) /\ toReceiver \in Seq(Message)
  BY DEF HInv, IInv, TypeOK, LinkTypeOK
<1>2. ASSUME NEW t \in KeyTalk, SendToSender(Signal(t))
      PROVE  conn # "accepted" => (Has(toSender', "DEVICE_KEY") => Has(toSender, "DEVICE_KEY"))
  BY <1>2 DEF SendToSender
<1>3. CASE RSocketReady
  <2>1. conn = "accepted" /\ serverState = "ENCRYPTING" /\ rPage # "receiver" /\ UNCHANGED rPage
    BY <1>3 DEF RSocketReady, HInv, IInv, ReceiverInv
  <2> QED BY <1>3, <2>1 DEF RSocketReady
<1>4. CASE RHandleDeviceKey
  <2>1. Has(toReceiver, "DEVICE_KEY") /\ toReceiver # <<>> /\ toReceiver' = Tail(toReceiver)
    BY <1>1, <1>4, TailMessage DEF RHandleDeviceKey, Receives, NextMessage, Readable
  <2>2. sPage # "sender" /\ rPage # "receiver"
    BY <2>1 DEF HInv, KeyPhase
  <2>3. ~Has(toReceiver', "DEVICE_KEY_OK")
    BY <1>1, <2>1, TailMessage, <2>2
  <2>4. \E t \in KeyTalk : SendToSender(Signal(t))
    BY <1>4 DEF RHandleDeviceKey, KeyTalk
  <2>5. UNCHANGED <<conn, rPage>>
    BY <1>4 DEF RHandleDeviceKey
  <2> QED BY <1>2, <2>2, <2>3, <2>4, <2>5
<1>5. CASE RHandleDeviceKeyOk
  <2>1. /\ Has(toReceiver, "DEVICE_KEY_OK")
        /\ \A t : Has(toReceiver', t) => Has(toReceiver, t)
    BY <1>1, <1>5, TailMessage DEF RHandleDeviceKeyOk, Receives, NextMessage, Readable
  <2> QED BY <1>5, <2>1 DEF RHandleDeviceKeyOk
<1> QED BY <1>3, <1>4, <1>5

\* The Receiver leaves only what is not yet a session, or no longer.
LEMMA ReceiverLeavesEarly ==
  ASSUME HInv, Undisturbed, QuietLink,
         RSocketDisconnected \/ RHandleError \/ REncryptingTimeout \/ (MayLeave /\ RBack)
  PROVE  sPage # "sender" /\ rPage # "receiver"
<1>1. CASE RSocketDisconnected
  BY <1>1 DEF RSocketDisconnected, QuietLink
<1>2. CASE RHandleError
  <2>1. Has(toReceiver, "ERROR")
    BY <1>2, TailMessage DEF RHandleError, NextMessage, Readable, HInv, IInv, TypeOK, LinkTypeOK
  <2> QED BY <2>1 DEF HInv, KeyPhase
<1>3. CASE REncryptingTimeout
  BY <1>3 DEF REncryptingTimeout, HInv, IInv, ReceiverInv, QuietLink
<1>4. CASE MayLeave /\ RBack
  BY <1>4 DEF MayLeave, Undisturbed, QuietLink
<1> QED BY <1>1, <1>2, <1>3, <1>4

\* The Receiver's part of a connection that is not yet a session, or no longer.
LEMMA ReceiverLeavesQuietly ==
  ASSUME HInv, Undisturbed, QuietLink, UNCHANGED senderVars,
         RSocketDisconnected \/ RHandleError \/ REncryptingTimeout \/ (MayLeave /\ RBack)
  PROVE  QuietLink'
<1> USE DEF QuietLink, senderVars
<1>1. /\ toSender \in Seq(Message) /\ toReceiver \in Seq(Message)
      /\ SenderInv /\ ReceiverInv /\ ServerConsistent /\ IInv
  BY DEF HInv, IInv, TypeOK, LinkTypeOK, ReceiverInv
<1>2. conn = "accepted" /\ clientState = "ENCRYPTED" /\ Has(toSender, "DEVICE_KEY") =>
        serverState = "ENCRYPTED"
  <2> SUFFICES ASSUME conn = "accepted", clientState = "ENCRYPTED", Has(toSender, "DEVICE_KEY")
               PROVE  serverState = "ENCRYPTED"
    OBVIOUS
  <2>1. Len(toSender) = 1 /\ ~Has(toSender, "ERROR")
    BY DEF HInv, KeyPhase, KeyTalk, Has
  <2>2. serverState \in {"ENCRYPTING", "ENCRYPTED", "UNRECOGNIZED"}
    BY <1>1 DEF ReceiverInv
  <2>3. serverState # "ENCRYPTING"
    BY EmptyMessage DEF HInv, EndsPhase
  <2>4. serverState # "UNRECOGNIZED"
    BY <2>1 DEF HInv, EndsPhase
  <2> QED BY <2>2, <2>3, <2>4
<1>3. ASSUME NEW state, StopServer(state), sPage # "sender", rPage # "receiver",
             rPage' # "receiver",
             ~(conn = "accepted" /\ clientState = "ENCRYPTED" /\ Has(toSender, "DEVICE_KEY"))
      PROVE  QuietLink'
  <2>1. NoNewKey
    BY <1>1, <1>3, ReadsNoKey DEF StopServer, ServerAbort, CloseListener, Surviving
  <2> QED BY <1>3, <2>1 DEF NoNewKey
<1>4. \A state : PageAfter(state) # "receiver"
  BY DEF PageAfter
<1>5. sPage # "sender" /\ rPage # "receiver"
  BY ReceiverLeavesEarly
<1>6. CASE RSocketDisconnected
  BY <1>3, <1>4, <1>5, <1>6 DEF RSocketDisconnected
<1>7. CASE RHandleError
  <2>1. Has(toReceiver, "ERROR")
    BY <1>1, <1>7, TailMessage DEF RHandleError, NextMessage, Readable
  <2>2. toSender = <<>>
    BY <2>1 DEF HInv, KeyPhase
  <2> QED BY <1>3, <1>4, <1>5, <1>7, <2>2, EmptyMessage DEF RHandleError
<1>8. CASE REncryptingTimeout
  <2>1. serverState = "ENCRYPTING"
    BY <1>1, <1>8 DEF REncryptingTimeout, ReceiverInv
  <2> QED BY <1>2, <1>3, <1>4, <1>5, <1>8, <2>1 DEF REncryptingTimeout
<1>9. CASE MayLeave /\ RBack
  <2>1. ~(clientState = "ENCRYPTED" /\ serverState = "ENCRYPTED")
    BY <1>9 DEF MayLeave, Undisturbed
  <2>2. CASE serverState = "DISCONNECTED"
    BY <1>9, <2>2 DEF RBack, linkVars
  <2>3. CASE serverState # "DISCONNECTED"
    BY <1>2, <1>3, <1>5, <1>9, <2>1, <2>3 DEF RBack
  <2> QED BY <2>2, <2>3
<1> QED BY <1>6, <1>7, <1>8, <1>9

\* The Receiver's part of a transfer touches neither the connection nor a key.
LEMMA ReceiverTransfers ==
  ASSUME SInv, UNCHANGED senderVars,
         \/ RHandleText \/ RHandleFileInfo
         \/ RFinishCancel \/ RFinishFile \/ RConfirmPause \/ RRequestNext
         \/ PauseFileTransfer \/ ResumeFileTransfer \/ CancelFileTransfer
         \/ CreateWithoutName \/ SendFileError
         \/ \E folder \in Folder : SetFilePath(folder)
         \/ \E name \in Name : CreateUnderAnotherName(name)
  PROVE  NoNewKey /\ UNCHANGED <<conn, connectionVars>>
<1>1. toSender \in Seq(Message) /\ toReceiver \in Seq(Message) /\ IInv
      /\ rInfo.packetNumber \in Nat /\ rInfo.packetNumber + 1 \in Nat
  BY DEF SInv, IInv, TypeOK, LinkTypeOK, ReceiverTypeOK
<1> DEFINE Writes ==
      \/ UNCHANGED toSender
      \/ \E n \in Nat : SendToSender(FilePacket(n))
      \/ \E t \in SignalType \ {"DEVICE_KEY"} : SendToSender(Signal(t))
    Takes ==
      \/ UNCHANGED toReceiver
      \/ toReceiver # <<>> /\ toReceiver' = Tail(toReceiver)
<1>2. ASSUME Writes, Takes, UNCHANGED <<conn, connectionVars>>
      PROVE  NoNewKey /\ UNCHANGED <<conn, connectionVars>>
  BY <1>1, <1>2, WritesNoKey
<1>3. CASE RHandleText
  BY <1>2, <1>3 DEF RHandleText, Receives, NextMessage, Readable, receiverVars
<1>4. ASSUME NEW path, CreateFile(path) PROVE Writes
  BY <1>4 DEF CreateFile
<1>5. CASE RHandleFileInfo
  BY <1>2, <1>4, <1>5 DEF RHandleFileInfo, Receives, NextMessage, Readable
<1>6. ASSUME NEW name \in Name, CreateUnderAnotherName(name)
      PROVE  NoNewKey /\ UNCHANGED <<conn, connectionVars>>
  BY <1>2, <1>4, <1>6 DEF CreateUnderAnotherName
<1>7. CASE RFinishCancel \/ RFinishFile \/ RConfirmPause
  BY <1>2, <1>7 DEF RFinishCancel, RFinishFile, RConfirmPause, StoresPacket, ReadsPacket,
     Readable, SignalType
<1>8. CASE RRequestNext
  BY <1>1, <1>2, <1>8 DEF RRequestNext, StoresPacket, ReadsPacket, Readable
<1>9. CASE PauseFileTransfer \/ CreateWithoutName \/ \E folder \in Folder : SetFilePath(folder)
  BY <1>2, <1>9 DEF PauseFileTransfer, CreateWithoutName, SetFilePath, linkVars
<1>10. CASE ResumeFileTransfer
  BY <1>1, <1>2, <1>10 DEF ResumeFileTransfer
<1>11. CASE CancelFileTransfer \/ SendFileError
  BY <1>2, <1>11 DEF CancelFileTransfer, SendFileError, SignalType
<1> QED BY <1>3, <1>5, <1>6, <1>7, <1>8, <1>9, <1>10, <1>11

\* A step of the Receiver in a session that nobody leaves.
LEMMA ReceiverStays ==
  ASSUME HInv, SInv, Calm, Undisturbed, QuietLink, ReceiverStep, UNCHANGED senderVars
  PROVE  QuietLink'
<1>1. ~RCrash /\ ~RQuit /\ ~RSuspend /\ ~Misread
  BY NeverMisread DEF Calm, Undisturbed, RCrash, RQuit, RSuspend
<1>2. CASE NoNewKey /\ UNCHANGED <<conn, connectionVars>>
  BY <1>2 DEF NoNewKey, QuietLink, connectionVars, senderVars
<1>3. CASE StartServer \/ IncomingConnection \/ RRegister
  <2>1. /\ sPage # "sender" /\ rPage # "receiver" /\ rPage' # "receiver"
        /\ UNCHANGED <<toSender, toReceiver>>
        /\ conn = "accepted" => conn' = "accepted"
    BY <1>3 DEF StartServer, IncomingConnection, RRegister, QuietLink, HInv, IInv, ReceiverInv,
       ServerConsistent, linkVars, connectionVars
  <2> QED BY <2>1 DEF QuietLink, senderVars
<1> QED BY <1>1, <1>2, <1>3, ReceiverKeysStay, ReceiverLeavesQuietly, ReceiverTransfers
    DEF ReceiverStep, ReceiverUser, ReceiverHandlers

-----------------------------------------------------------------------------
(* Transfers in such sessions.                                             *)

\* A step of the Sender.
LEMMA SenderShares ==
  ASSUME HInv, SInv, Calm, Undisturbed, QuietLink, QuietTransfer, SharedTransfer,
         SenderStep, UNCHANGED receiverVars
  PROVE  QuietTransfer' /\ SharedTransfer'
<1> USE DEF QuietTransfer, SharedTransfer, receiverVars, connectionVars
<1>1. ~SCrash /\ ~SQuit /\ ~SSuspend
  BY DEF Calm, Undisturbed, SCrash, SQuit, SSuspend
<1>2. toSender \in Seq(Message) /\ toReceiver \in Seq(Message) /\ IInv /\ ChannelInv
      /\ SenderInv
  BY DEF SInv, IInv, TypeOK, LinkTypeOK, AgreeInv
<1>3. ASSUME sMessageState' = "MESSAGE", sSaved' = NoFile PROVE QuietTransfer' /\ SharedTransfer'
  BY <1>3
<1>4. CASE \/ SOpenWaitingPage \/ ConnectToReceiver \/ SocketConnected \/ SocketError
           \/ SSocketReady \/ SRegister
  <2>1. sPage # "sender"
    BY <1>2, <1>4 DEF SOpenWaitingPage, ConnectToReceiver, SocketConnected, SocketError,
       SSocketReady, SRegister, SenderInv
  <2> QED BY <1>3, <1>4, <2>1 DEF SOpenWaitingPage, ConnectToReceiver, SocketConnected,
      SocketError, SSocketReady, SRegister, senderVars
<1>5. CASE SSocketDisconnected \/ SEncryptingTimeout \/ (MayLeave /\ SBack)
  <2>1. sPage # "sender"
    BY <1>2, <1>5 DEF SSocketDisconnected, SEncryptingTimeout, SBack, SenderInv, MayLeave,
       Undisturbed, QuietLink
  <2> QED BY <1>3, <1>5, <2>1 DEF SSocketDisconnected, SEncryptingTimeout, SLeave, SBack,
      SSaveFileTransferInfo
<1>6. CASE SHandleKeyRequest \/ SHandleDeviceKey \/ SHandleError
  <2>1. PICK t \in KeyTalk : Reads(t)
    BY <1>6 DEF SHandleKeyRequest, SHandleDeviceKey, SHandleError, KeyTalk
  <2>2. Has(toSender, t)
    BY <1>2, <2>1, SenderReads
  <2>3. sPage # "sender"
    BY <2>2 DEF SInv, AgreeInv, TalkInv
  <2> QED BY <1>3, <1>6, <2>3 DEF SHandleKeyRequest, SHandleDeviceKey, SHandleError, senderVars
<1>7. CASE SHandleCancel \/ SHandleFileSuccess \/ SHandleFileError
  BY <1>3, <1>7 DEF SHandleCancel, SHandleFileSuccess, SHandleFileError, FileDone
<1>8. CASE SHandleFilePacket \/ SHandlePause
  <2>1. PICK t \in FileTalk \ Ending : Reads(t)
    BY <1>8 DEF SHandleFilePacket, SHandlePause, FileTalk, Ending
  <2>2. /\ Has(toSender, t) /\ toReceiver = <<>>
        /\ \A u \in Ending : Has(toSender, u) => Has(toSender', u)
    BY <1>2, <2>1, SenderReads
  <2>3. sPage = "sender" /\ sMessageState # "MESSAGE" /\ ~Has(toReceiver, "FILE_INFO")
    BY <2>2, EmptyShape DEF SInv, AgreeInv, TalkInv
  <2>4. UNCHANGED <<sSaved, sPage>>
    BY <1>8 DEF SHandleFilePacket, SHandlePause, senderVars
  <2> QED BY <2>2, <2>3, <2>4
<1>9. CASE SendTextMessage
  <2>1. sMessageState = "MESSAGE"
    BY <1>9, RowsEnabled DEF SendTextMessage
  <2> QED BY <1>3, <1>9, <2>1 DEF SendTextMessage, senderVars
<1>10. ASSUME NEW f \in File, SendFile(f) PROVE QuietTransfer' /\ SharedTransfer'
  <2>1. sPage = "sender" /\ sMessageState = "MESSAGE" /\ conn = "accepted"
    BY <1>10, RowsEnabled DEF SendFile, QuietLink
  <2>2. CASE Packets[f] = 0
    BY <1>3, <1>10, <2>1, <2>2 DEF SendFile
  <2>3. CASE Packets[f] # 0
    <3>1. toReceiver' = Append(toReceiver, FileInfo(f)) /\ UNCHANGED <<sPage, sSaved>>
      BY <1>10, <2>1, <2>3 DEF SendFile, SendToReceiver
    <3>2. FileInfo(f) \in Message /\ FileInfo(f).type = "FILE_INFO"
      BY MessageKinds
    <3>3. Has(toReceiver', "FILE_INFO")
      BY <1>2, <3>1, <3>2, AppendShape
    <3> QED BY <2>1, <3>1, <3>3
  <2> QED BY <2>2, <2>3
<1> QED BY <1>1, <1>4, <1>5, <1>6, <1>7, <1>8, <1>9, <1>10
    DEF SenderStep, SenderUser, SenderHandlers

\* A step of the Receiver.
LEMMA ReceiverShares ==
  ASSUME HInv, SInv, Calm, Undisturbed, QuietLink, QuietTransfer, SharedTransfer,
         ReceiverStep, UNCHANGED senderVars
  PROVE  QuietTransfer' /\ SharedTransfer'
<1> USE DEF QuietTransfer, SharedTransfer, senderVars, connectionVars
<1>1. ~RCrash /\ ~RQuit /\ ~RSuspend /\ ~Misread
  BY NeverMisread DEF Calm, Undisturbed, RCrash, RQuit, RSuspend
<1>2. toSender \in Seq(Message) /\ toReceiver \in Seq(Message) /\ IInv /\ ChannelInv
      /\ ReceiverInv /\ ServerConsistent
  BY DEF SInv, IInv, TypeOK, LinkTypeOK, AgreeInv, ReceiverInv
<1>3. ASSUME sPage # "sender", rMessageState' = "MESSAGE", popup' = "none", rSaved' = NoRecord
      PROVE  QuietTransfer' /\ SharedTransfer'
  BY <1>3
<1>4. ASSUME rPage' = "receiver", rSaved' = NoRecord,
             rMessageState' # "MESSAGE" \/ popup' # "none"
      PROVE  QuietTransfer' /\ SharedTransfer'
  BY <1>4
<1>5. ASSUME NEW t \in Ending, SendToSender(Signal(t)), rSaved' = NoRecord, UNCHANGED rPage,
             rMessageState # "MESSAGE" \/ popup # "none"
      PROVE  QuietTransfer' /\ SharedTransfer'
  <2>1. Signal(t) \in Message /\ Signal(t).type = t
    BY MessageKinds DEF Ending, SignalType
  <2>2. conn = "accepted" => Has(toSender', t)
    BY <1>2, <1>5, <2>1, AppendShape DEF SendToSender
  <2> QED BY <1>5, <2>2 DEF QuietLink
<1>6. CASE RSocketDisconnected \/ RHandleError \/ REncryptingTimeout \/ (MayLeave /\ RBack)
  <2>1. sPage # "sender" /\ rMessageState = "MESSAGE" /\ popup = "none"
    BY <1>6, ReceiverLeavesEarly
  <2>2. rMessageState' = "MESSAGE" /\ popup' = "none" /\ rSaved' = NoRecord
    BY <1>6, <2>1 DEF RSocketDisconnected, RHandleError, REncryptingTimeout, RBack, StopServer,
       RSaveFileTransferInfo
  <2> QED BY <1>3, <2>1, <2>2
<1>7. CASE StartServer \/ IncomingConnection \/ RRegister \/ RSocketReady
  <2>1. sPage # "sender" /\ rPage # "receiver"
    BY <1>2, <1>7 DEF StartServer, IncomingConnection, RRegister, RSocketReady, QuietLink,
       ReceiverInv, ServerConsistent
  <2> QED BY <1>3, <1>7, <2>1 DEF StartServer, IncomingConnection, RRegister, RSocketReady
<1>8. CASE RHandleDeviceKey
  <2>1. Has(toReceiver, "DEVICE_KEY")
    BY <1>2, <1>8, ReceiverReads DEF RHandleDeviceKey, Receives, NextMessage
  <2>2. sPage # "sender" /\ rPage # "receiver"
    BY <2>1 DEF HInv, KeyPhase
  <2> QED BY <1>3, <1>8, <2>2 DEF RHandleDeviceKey
<1>9. CASE RHandleDeviceKeyOk \/ RHandleText
  <2>1. PICK t \in {"DEVICE_KEY_OK", "TEXT"} : Receives(t)
    BY <1>9 DEF RHandleDeviceKeyOk, RHandleText
  <2>2. Has(toReceiver, "FILE_INFO") => Has(toReceiver', "FILE_INFO")
    <3> SUFFICES ASSUME NEW i \in 1 .. Len(toReceiver), toReceiver[i].type = "FILE_INFO"
                 PROVE  \E j \in 1 .. Len(toReceiver') : toReceiver'[j].type = "FILE_INFO"
      BY DEF Has
    <3>1. /\ toReceiver # <<>> /\ Head(toReceiver).type # "FILE_INFO"
          /\ toReceiver' = Tail(toReceiver)
      BY <2>1 DEF Receives, NextMessage, Readable
    <3>2. /\ Len(toReceiver) \in Nat /\ Head(toReceiver) = toReceiver[1]
          /\ Len(toReceiver') = Len(toReceiver) - 1
          /\ \A j \in 1 .. Len(toReceiver') : toReceiver'[j] = toReceiver[j + 1]
      BY <1>2, <3>1, FirstAndRest
    <3>3. i # 1
      BY <3>1, <3>2
    <3>4. i - 1 \in 1 .. Len(toReceiver') /\ (i - 1) + 1 = i
      BY <3>2, <3>3
    <3> QED BY <3>2, <3>4
  <2>3. UNCHANGED <<rSaved, rMessageState, popup, toSender>> /\ rPage' \in {rPage, "receiver"}
    BY <1>9 DEF RHandleDeviceKeyOk, RHandleText, receiverVars
  <2> QED BY <2>2, <2>3
<1>10. ASSUME NEW path, CreateFile(path) PROVE rMessageState' # "MESSAGE" \/ popup' # "none"
  BY <1>10 DEF CreateFile
<1>11. CASE RHandleFileInfo
  <2>1. Has(toReceiver, "FILE_INFO")
    BY <1>2, <1>11, ReceiverReads DEF RHandleFileInfo, Receives, NextMessage
  <2>2. rMessageState = "MESSAGE" /\ ~Has(toReceiver, "DEVICE_KEY_OK")
    BY <1>2, <1>11, ReadOff DEF RHandleFileInfo, Receives, NextMessage, Readable, HInv, KeyPhase
  <2>3. rPage = "receiver"
    BY <2>1, <2>2 DEF HInv, KeyPhase
  <2> QED BY <1>4, <1>10, <1>11, <2>3 DEF RHandleFileInfo
<1>12. CASE RFinishCancel
  BY <1>5, <1>12 DEF RFinishCancel, ReadsPacket, Ending
<1>13. CASE RFinishFile
  BY <1>5, <1>13 DEF RFinishFile, StoresPacket, ReadsPacket, Ending
<1>14. CASE RConfirmPause \/ RRequestNext
  BY <1>4, <1>14 DEF RConfirmPause, RRequestNext, StoresPacket, ReadsPacket
<1>15. CASE PauseFileTransfer \/ ResumeFileTransfer \/ CreateWithoutName
  BY <1>4, <1>15 DEF PauseFileTransfer, ResumeFileTransfer, CreateWithoutName, OnReceiverPage
<1>16. CASE CancelFileTransfer
  <2>1. CASE rMessageState' = "FILE_ABORTING"
    BY <1>4, <1>16, <2>1 DEF CancelFileTransfer, OnReceiverPage
  <2>2. CASE rMessageState' = "MESSAGE"
    BY <1>5, <1>16, <2>2 DEF CancelFileTransfer, Ending
  <2> QED BY <1>16, <2>1, <2>2 DEF CancelFileTransfer
<1>17. CASE SendFileError
  BY <1>5, <1>17 DEF SendFileError, Ending
<1>18. CASE \E folder \in Folder : SetFilePath(folder)
  BY <1>18 DEF SetFilePath, linkVars
<1>19. ASSUME NEW name \in Name, CreateUnderAnotherName(name)
       PROVE  QuietTransfer' /\ SharedTransfer'
  BY <1>4, <1>10, <1>19 DEF CreateUnderAnotherName
<1> QED BY <1>1, <1>6, <1>7, <1>8, <1>9, <1>11, <1>12, <1>13, <1>14, <1>15, <1>16, <1>17, <1>18,
        <1>19 DEF ReceiverStep, ReceiverUser, ReceiverHandlers

\* Every step.
LEMMA QuietKept ==
  ASSUME HInv, SInv, Calm, QuietInv, [Next]_vars
  PROVE  QuietInv'
<1> SUFFICES ASSUME Undisturbed PROVE (QuietLink /\ QuietTransfer /\ SharedTransfer)'
  BY DEF QuietInv
<1>1. QuietLink /\ QuietTransfer /\ SharedTransfer
  BY DEF QuietInv
<1>2. CASE UNCHANGED vars
  BY <1>1, <1>2 DEF vars, linkVars, senderVars, receiverVars, connectionVars, QuietLink,
     QuietTransfer, SharedTransfer
<1>3. ~LinkDrop
  BY DEF Undisturbed, LinkDrop
<1> QED BY <1>1, <1>2, <1>3, SenderStays, ReceiverStays, SenderShares, ReceiverShares DEF Next

-----------------------------------------------------------------------------
(* The theorems.                                                           *)

\* The initial states.
LEMMA FilesInitially ==
  ASSUME Init
  PROVE  QuietInv /\ TransferInv /\ Promise
<1>1. Partial = NoPath /\ ~Receiving /\ popup = "none" /\ rSaved = NoRecord
      /\ rMessageState = "MESSAGE"
  BY DEF Init, ReceiverInit, Partial, Receiving
<1>2. QuietInv
  BY EmptyShape DEF Init, LinkInit, SenderInit, ReceiverInit, QuietInv, QuietLink,
     QuietTransfer, SharedTransfer
<1>3. TransferInv
  BY <1>1 DEF TransferInv, DiskInv, NameInv, PlaceInv
<1>4. Promise
  BY <1>1 DEF Init, ReceiverInit, Promise, CompletedFilesIntact
<1> QED BY <1>2, <1>3, <1>4

\* DInv holds in every reachable state.
THEOREM FileInvariance ==
  ASSUME Traceable
  PROVE  Spec => []DInv
<1> DEFINE Both == SInv /\ HInv  Files == QuietInv /\ TransferInv /\ Promise
<1>1. Calm
  BY DEF Traceable
<1>2. Spec => []Both
  BY <1>1, SessionInvariance, HandshakeInvariance, PTL
<1>3. Init => Files
  BY FilesInitially
<1>4. Both /\ Files /\ [Next]_vars => Files'
  <2> SUFFICES ASSUME DInv, [Next]_vars PROVE Files'
    BY DEF DInv
  <2>1. TransferInv' /\ DeliveryStep
    BY FilesKept
  <2>2. Promise'
    BY <2>1, PromiseKept
  <2>3. QuietInv'
    BY <1>1, QuietKept DEF DInv
  <2> QED BY <2>1, <2>2, <2>3
<1>5. Both /\ Files => DInv
  BY DEF DInv
<1> HIDE DEF Both, Files
<1> QED BY <1>2, <1>3, <1>4, <1>5, PTL DEF Spec

\* LuminT implements FileDelivery: the Receiver's disk changes only as files
\* are begun, grow by the right packet, are delivered whole, or are dropped.
THEOREM DeliveryImplemented ==
  ASSUME Traceable
  PROVE  Spec => FileDelivered
<1>1. Init => Delivery!Init
  BY DEF Init, ReceiverInit, Delivery!Init, Delivery!Old, Old, Partial
<1>2. DInv /\ [Next]_vars => [Delivery!Next]_(Delivery!vars)
  BY FilesKept, DeliverySteps
<1> QED BY <1>1, <1>2, FileInvariance, PTL DEF Spec, FileDelivered, Delivery!Spec

\* A file reported complete holds every packet, once and in order, for ever.
THEOREM CompletedIntact ==
  ASSUME Traceable
  PROVE  Spec => []CompletedFilesIntact
<1>1. DInv => CompletedFilesIntact
  BY DEF DInv, Promise
<1> QED BY <1>1, FileInvariance, PTL

\* A partly received file is one that can still be finished or cancelled.
THEOREM NothingOrphaned ==
  ASSUME Traceable
  PROVE  Spec => []NoOrphans
<1>1. DInv => NoOrphans
  BY ReceiverAssumption DEF DInv, Promise, Partial, Done, NoOrphans
<1> QED BY <1>1, FileInvariance, PTL

\* A transfer is resumed from the packet at which its file stopped.
THEOREM ResumesExactly ==
  ASSUME Traceable
  PROVE  Spec => []ResumePointExact
<1>1. DInv => ResumePointExact
  <2> SUFFICES ASSUME DInv, rSaved # NoRecord, serverState = "DISCONNECTED"
               PROVE  ResumePointExact
    BY DEF ResumePointExact
  <2>1. Offered \in File /\ (Offered = sSaved \/ (sMessageState # "MESSAGE" /\ Offered = sFile))
    BY DEF DInv, SInv, AgreeInv, HeldInv, Holds, Offered
  <2>2. /\ rSaved.name = NameOf[Offered] /\ rSaved.size = Packets[Offered]
        /\ rSaved.packetNumber < Packets[Offered]
    BY DEF DInv, TransferInv, NameInv, SInv, AgreeInv, HeldInv
  <2>3. RecordPath \in Path /\ RecordPath # NoPath
    BY ReceiverAssumption DEF RecordPath, Path, TransferInfo, DInv, SInv, IInv, TypeOK,
       ReceiverTypeOK
  <2>4. disk[RecordPath] = Image(Offered, rSaved.packetNumber)
    <3>1. CASE Receiving
      <4>1. InPlace
        BY DEF DInv, QuietInv, QuietTransfer, Traceable
      <4>2. currentPath = RecordPath /\ rInfo = rSaved
        BY <3>1, <4>1 DEF DInv, TransferInv, PlaceInv, NameInv
      <4>3. Partial = RecordPath /\ Awaited = rSaved.packetNumber
        BY <3>1, <4>2 DEF Partial, Awaited, Receiving
      <4> QED BY <2>3, <4>3 DEF DInv, TransferInv, DiskInv
    <3>2. CASE ~Receiving
      <4>1. Partial = RecordPath /\ Awaited = rSaved.packetNumber
        BY <3>2 DEF Partial, Awaited, Receiving, RecordPath
      <4> QED BY <2>3, <4>1 DEF DInv, TransferInv, DiskInv
    <3> QED BY <3>1, <3>2
  <2> QED BY <2>1, <2>2, <2>4 DEF ResumePointExact, RecordPath
<1> QED BY <1>1, FileInvariance, PTL

\* LuminT never changes or deletes a file that was there before it.
THEOREM ForeignKept ==
  ASSUME Traceable
  PROVE  Spec => ForeignFilesKept
<1>1. DInv /\ [Next]_vars => [\A p \in Path : disk[p] = Old => disk'[p] = Old]_vars
  <2> SUFFICES ASSUME DInv, [Next]_vars, NEW p \in Path, disk[p] = Old PROVE disk'[p] = Old
    OBVIOUS
  <2>1. DeliveryStep
    BY FilesKept
  <2>2. disk \in [Path -> Content \union {Absent}] /\ Old # Absent
    <3>1. Old \in Content
      BY DEF Old, Content, Chunk
    <3> QED BY <3>1, ReceiverAssumption DEF DInv, SInv, IInv, TypeOK, ReceiverTypeOK
  <2>3. Partial # NoPath => disk[Partial] # Old
    BY FileUnderWay
  <2> QED BY <2>1, <2>2, <2>3
      DEF DeliveryStep, BeginFile, StoreFile, DeliverFile, GrowFile, DropFile
<1> QED BY <1>1, FileInvariance, PTL DEF Spec, ForeignFilesKept

\* Only createFile brings a file into being: a cancelled file stays deleted.
THEOREM CancelledStays ==
  ASSUME Traceable
  PROVE  Spec => CancelledStaysDeleted
<1>1. DInv /\ [Next]_vars =>
        [\A p \in Path : disk[p] = Absent /\ disk'[p] # Absent => rMessageState = "MESSAGE"]_vars
  <2> SUFFICES ASSUME DInv, [Next]_vars, NEW p \in Path, disk[p] = Absent, disk'[p] # Absent,
                      rMessageState # "MESSAGE"
               PROVE  FALSE
    OBVIOUS
  <2>1. DeliveryStep
    BY FilesKept
  <2>2. disk \in [Path -> Content \union {Absent}]
    BY DEF DInv, SInv, IInv, TypeOK, ReceiverTypeOK
  <2>3. Partial # NoPath => disk[Partial] # Absent
    BY FileUnderWay
  <2> QED BY <2>1, <2>2, <2>3
      DEF DeliveryStep, BeginFile, StoreFile, DeliverFile, GrowFile, DropFile
<1> QED BY <1>1, FileInvariance, PTL DEF Spec, CancelledStaysDeleted

\* When nobody leaves a session, both devices know of a transfer or neither does.
THEOREM TransferShared ==
  ASSUME Calm, Undisturbed
  PROVE  Spec => []TransferHasReceiver
<1>1. Spec => []QuietInv
  <2> DEFINE Both == SInv /\ HInv
  <2>1. Spec => []Both
    BY SessionInvariance, HandshakeInvariance, PTL
  <2>2. Init => QuietInv
    BY FilesInitially
  <2>3. Both /\ QuietInv /\ [Next]_vars => QuietInv'
    BY QuietKept
  <2> HIDE DEF Both
  <2> QED BY <2>1, <2>2, <2>3, PTL DEF Spec
<1>2. QuietInv => TransferHasReceiver
  BY EmptyShape DEF QuietInv, SharedTransfer, TransferHasReceiver
<1> QED BY <1>1, <1>2, PTL
=============================================================================
