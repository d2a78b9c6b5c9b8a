------------------------------- MODULE Storage -------------------------------
(***************************************************************************)
(* What one device keeps between sessions and between runs of LuminT: the  *)
(* list of devices (module DeviceList) and the records of transfers that   *)
(* sessions left behind, one file of them for the Sender and one for the   *)
(* Receiver, each a map from a peer's key to a transfer                    *)
(* (modules/communications/sender.cpp and receiver.cpp, main.qml).         *)
(* Modules Sender and Receiver have one peer and one run of a device; here *)
(* sessions with several peers follow one another.                         *)
(***************************************************************************)
EXTENDS DeviceList

CONSTANTS
  Role,       \* the objects of the process: "sender" and "receiver", or one of them
  Transfer,   \* what a fileTransferInfo may say
  Abandons,   \* "unrecorded", or also "recorded": the transfers that may be abandoned
  NoTransfer  \* the empty fileTransferInfo

NoPeer == <<>>
Peer == {k \in Typed : Len(k) = KeySize}
NoSession == [role |-> "none", peer |-> NoPeer]

ASSUME StorageAssumption ==
  /\ Role \subseteq {"sender", "receiver"}
  /\ NoTransfer \notin Transfer
  /\ Abandons \subseteq {"unrecorded", "recorded"}

VARIABLES
  peerKey,       \* peerKey of the Sender and of the Receiver
  messageState,  \* their messageState: "MESSAGE", or "FILE" for a transfer that would be recorded
  info,          \* their fileTransferInfo
  records,       \* the maps in the two record files; no entry is NoTransfer
  buffer,        \* the map about to be written to the open record file
  session,       \* the session under way
  todo,          \* the files the handler that runs has yet to rewrite, see Write
  left           \* history: what the last session with a peer left to be resumed, see Kill

storageVars == <<peerKey, messageState, info, records, buffer, session, todo, left>>
vars == <<listVars, storageVars>>

Map == [Peer -> Transfer \union {NoTransfer}]
EmptyMap == [p \in Peer |-> NoTransfer]

\* A file to be rewritten, and for a history the peer it is about.
Write == [file : Role \union {"suspending", "closing"}, about : Peer \union {NoPeer}]

TypeOK ==
  /\ ListTypeOK
  /\ peerKey \in [Role -> Peer \union {NoPeer}]
  /\ messageState \in [Role -> {"MESSAGE", "FILE"}]
  /\ info \in [Role -> Transfer \union {NoTransfer}]
  /\ records \in [Role -> Map]
  /\ buffer \in Map
  /\ session \in [role : Role, peer : Peer] \union {NoSession}
  /\ todo \in Seq(Write)
  /\ left \in [Role -> Map]

\* What the constructors set.
Fresh ==
  /\ peerKey' = [r \in Role |-> NoPeer]
  /\ messageState' = [r \in Role |-> "MESSAGE"]
  /\ info' = [r \in Role |-> NoTransfer]
  /\ session' = NoSession
  /\ todo' = <<>>

Init ==
  /\ ListInit
  /\ peerKey = [r \in Role |-> NoPeer]
  /\ messageState = [r \in Role |-> "MESSAGE"]
  /\ info = [r \in Role |-> NoTransfer]
  /\ records = [r \in Role |-> EmptyMap]
  /\ buffer = EmptyMap
  /\ session = NoSession
  /\ todo = <<>>
  /\ left = [r \in Role |-> EmptyMap]

\* No handler is running.
Idle == phase = "running" /\ todo = <<>>

InTransfer == session # NoSession /\ messageState[session.role] = "FILE"

-----------------------------------------------------------------------------
(* Sessions, as far as they touch the records.                             *)

\* startServer or connectToReceiver, then key verification with a device of
\* the list, then the session page's onCompleted.
OpenSession(r, p) ==
  /\ Idle
  /\ session = NoSession /\ view = <<>>
  /\ p \in ToSet(Keys)
  /\ session' = [role |-> r, peer |-> p]
  /\ peerKey' = [peerKey EXCEPT ![r] = p]
  /\ LET transfer == records[r][p] IN
       /\ messageState' = [messageState EXCEPT ![r] = IF transfer = NoTransfer THEN "MESSAGE"
                                                      ELSE "FILE"]
       /\ info' = [info EXCEPT ![r] = IF transfer = NoTransfer THEN @ ELSE transfer]
  /\ UNCHANGED <<listVars, records, buffer, todo, left>>

\* sendFile or handleFileInfo, or the packets of a transfer under way.
Carry(transfer) ==
  /\ Idle
  /\ session # NoSession
  /\ messageState' = [messageState EXCEPT ![session.role] = "FILE"]
  /\ info' = [info EXCEPT ![session.role] = transfer]
  /\ UNCHANGED <<listVars, peerKey, records, buffer, session, todo, left>>

\* FILE_SUCCESS at the Sender, the last packet at the Receiver:
\* clearFileTransferInfo.  The Sender's also empties fileTransferInfo.
Finish ==
  /\ Idle
  /\ InTransfer
  /\ messageState' = [messageState EXCEPT ![session.role] = "MESSAGE"]
  /\ info' = [info EXCEPT ![session.role] = IF session.role = "sender" THEN NoTransfer ELSE @]
  /\ todo' = <<[file |-> session.role, about |-> session.peer]>>
  /\ UNCHANGED <<listVars, peerKey, records, buffer, session, left>>

\* The Receiver's Cancel, and FILE_ERROR at the Sender, which clear no record;
\* that of an earlier session or of a suspension stays (run CancelSaved).
Abandon ==
  /\ Idle
  /\ InTransfer
  /\ (IF records[session.role][session.peer] = NoTransfer THEN "unrecorded" ELSE "recorded")
       \in Abandons
  /\ messageState' = [messageState EXCEPT ![session.role] = "MESSAGE"]
  /\ left' = [left EXCEPT ![session.role][session.peer] = NoTransfer]
  /\ UNCHANGED <<listVars, peerKey, info, records, buffer, session, todo>>

\* What a session that ends now has to record: saveFileTransferInfo.
RecordSession ==
  IF InTransfer THEN <<[file |-> session.role, about |-> session.peer]>> ELSE <<>>

\* socketDisconnected or disconnectFromReceiver at the Sender, stopServer at
\* the Receiver.  messageState and fileTransferInfo stay as they are.
EndSession ==
  /\ Idle
  /\ session # NoSession
  /\ session' = NoSession
  /\ todo' = RecordSession
  /\ UNCHANGED <<listVars, peerKey, messageState, info, records, buffer, left>>

\* The Receiver's handleDeviceKey takes the key of a device of the list before
\* that device answers; the Sender's opens the session at once.
TakesPeerKey ==
  \E p \in Peer \intersect ToSet(Keys) : peerKey' = [peerKey EXCEPT !["receiver"] = p]

\* A Receiver that started listening, or a Sender that started connecting,
\* and got no session: startServer and connectToReceiver reset messageState.
Attempt(r) ==
  /\ Idle
  /\ session = NoSession /\ view = <<>>
  /\ messageState' = [messageState EXCEPT ![r] = "MESSAGE"]
  /\ UNCHANGED peerKey \/ (r = "receiver" /\ TakesPeerKey)
  /\ UNCHANGED <<listVars, info, records, buffer, session, todo, left>>

-----------------------------------------------------------------------------
(* Suspension and exit.                                                    *)

\* onAppStateChanged goes by messageState alone, which a session that has
\* ended leaves behind.
SuspensionOf(r) ==
  IF r \in Role /\ messageState[r] = "FILE"
    THEN <<[file |-> r, about |-> IF session.role = r THEN session.peer ELSE NoPeer]>>
    ELSE <<>>

Suspend ==
  /\ Idle
  /\ todo' = <<[file |-> "suspending", about |-> NoPeer]>>
               \o SuspensionOf("sender") \o SuspensionOf("receiver")
  /\ UNCHANGED <<listVars, peerKey, messageState, info, records, buffer, session, left>>

\* main() returns: the Receiver and the Sender are destroyed, then the list.
Quit ==
  /\ Idle
  /\ session' = NoSession
  /\ todo' = RecordSession \o <<[file |-> "closing", about |-> NoPeer]>>
  /\ UNCHANGED <<listVars, peerKey, messageState, info, records, buffer, left>>

-----------------------------------------------------------------------------
(* The files.  saveFileTransferInfo and clearFileTransferInfo read the     *)
(* map, change the peer's entry, empty the file by opening it and write    *)
(* the map, which reaches the file when it is closed.                      *)

\* Mutant: the map is not read before it is written.
OnlyThisPeer(r) ==
  [EmptyMap EXCEPT ![peerKey[r]] = IF messageState[r] = "FILE" THEN info[r] ELSE NoTransfer]

\* insert(peerKey, fileTransferInfo), or remove(peerKey).
Updated(r) ==
  [records[r] EXCEPT ![peerKey[r]] = IF messageState[r] = "FILE" THEN info[r] ELSE NoTransfer]

OpenRecords ==
  /\ phase = "running"
  /\ todo # <<>>
  /\ LET r == Head(todo).file IN
       /\ r \in Role
       /\ phase' = "recording"
       /\ buffer' = Updated(r)
       /\ records' = [records EXCEPT ![r] = EmptyMap]
  /\ UNCHANGED <<deviceItems, seq, thisKey, view, conf, written>>
  /\ UNCHANGED <<peerKey, messageState, info, session, todo, left>>

CloseRecords ==
  /\ phase = "recording"
  /\ phase' = "running"
  /\ LET r == Head(todo).file
         p == Head(todo).about IN
       /\ records' = [records EXCEPT ![r] = buffer]
       /\ left' = IF p = NoPeer THEN left
                  ELSE [left EXCEPT ![r][p] = IF messageState[r] = "FILE" THEN info[r]
                                              ELSE NoTransfer]
  /\ buffer' = EmptyMap
  /\ todo' = Tail(todo)
  /\ UNCHANGED <<deviceItems, seq, thisKey, view, conf, written>>
  /\ UNCHANGED <<peerKey, messageState, info, session>>

WriteConf ==
  \/ /\ todo # <<>> /\ Head(todo).file \in {"suspending", "closing"}
     /\ OpenConf(Head(todo).file)
     /\ UNCHANGED storageVars
  \/ /\ CloseConf
     /\ todo' = Tail(todo)
     /\ UNCHANGED <<peerKey, messageState, info, records, buffer, session, left>>

-----------------------------------------------------------------------------
\* RegisterPage cannot be reached from a session or a waiting page.
Edit ==
  /\ todo = <<>> /\ session = NoSession
  /\ EditList
  /\ UNCHANGED storageVars

Start(key) == Launch(key) /\ Fresh /\ UNCHANGED <<records, buffer, left>>

\* Killed, also between two files of a suspension, or with a record file open:
\* then it is empty, and what it held is lost.
Kill ==
  /\ Crash
  /\ buffer' = EmptyMap
  /\ Fresh
  /\ left' = IF phase = "recording" THEN [left EXCEPT ![Head(todo).file] = EmptyMap] ELSE left
  /\ UNCHANGED records

Next ==
  \/ \E key \in OwnKey : Start(key)
  \/ Edit
  \/ \E r \in Role, p \in Peer : OpenSession(r, p)
  \/ \E transfer \in Transfer : Carry(transfer)
  \/ Finish
  \/ Abandon
  \/ EndSession
  \/ \E r \in Role : Attempt(r)
  \/ Suspend
  \/ Quit
  \/ OpenRecords
  \/ CloseRecords
  \/ WriteConf
  \/ Kill

Spec == Init /\ [][Next]_vars

-----------------------------------------------------------------------------
\* A session takes up exactly what the last session with the same peer left
\* unfinished, or was suspended with, whatever sessions with other peers, in
\* either role, suspensions, exits and kills came between; and none that was
\* finished (retrieveFileTransferInfo, saveFileTransferInfo,
\* clearFileTransferInfo).  A kill that meets a record file open loses what that
\* file held, and nothing of the other.
RecordComesBack ==
  [][\A r \in Role, p \in Peer : OpenSession(r, p) =>
       IF left[r][p] = NoTransfer THEN messageState'[r] = "MESSAGE"
       ELSE messageState'[r] = "FILE" /\ info'[r] = left[r][p]]_vars
=============================================================================
