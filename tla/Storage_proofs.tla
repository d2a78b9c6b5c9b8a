---------------------------- MODULE Storage_proofs ----------------------------
(***************************************************************************)
(* Theorems about what a device keeps: the page and the list agree, the    *)
(* list and this device's key outlive any number of runs of LuminT, and a  *)
(* transfer comes back with the peer it was left with.  They hold for every *)
(* set of peers, keys and transfers and either or both roles.              *)
(***************************************************************************)
EXTENDS Storage, DeviceList_proofs

\* LuminT is not killed while it writes lumint.conf, which writeDeviceItems
\* has emptied by opening it.
ConfSpared == {"suspending", "closing"} \intersect KilledIn = {}

\* No transfer that has a record is cancelled, for the record stays (run
\* CancelSaved).
UnrecordedOnly == "recorded" \notin Abandons

-----------------------------------------------------------------------------
(* The inductive invariant.                                                *)

StorageTyped ==
  /\ peerKey \in [Role -> Peer \union {NoPeer}]
  /\ messageState \in [Role -> {"MESSAGE", "FILE"}]
  /\ info \in [Role -> Transfer \union {NoTransfer}]
  /\ records \in [Role -> Map]
  /\ buffer \in Map
  /\ session \in [role : Role, peer : Peer] \union {NoSession}
  /\ todo \in Seq(Write)
  /\ left \in [Role -> Map]

\* The file that is open is the first of those to be written.
OpenFileInv ==
  /\ phase = "recording" => todo # <<>> /\ Head(todo).file \in Role
  /\ phase \in {"suspending", "closing"} => todo # <<>> /\ Head(todo).file = phase

StoreInv == ListInv /\ StorageTyped /\ OpenFileInv

\* What a record of the object's transfer says.
Value(r) == IF messageState[r] = "FILE" THEN info[r] ELSE NoTransfer

\* Between writings the files hold what sessions left behind; the one that is
\* open will, once it is closed, but for the entry about to change.
SavedInv ==
  /\ phase # "recording" => records = left
  /\ phase = "recording" =>
       /\ records[Head(todo).file] = EmptyMap
       /\ \A r \in Role \ {Head(todo).file} : records[r] = left[r]
       /\ buffer = [left[Head(todo).file] EXCEPT ![peerKey[Head(todo).file]]
                      = Value(Head(todo).file)]

\* A rewriting about no peer, of a session long over, changes nothing.
Rewriting(e) ==
  e.file \in Role =>
    /\ peerKey[e.file] \in Peer
    /\ e.about # NoPeer => e.about = peerKey[e.file]
    /\ e.about = NoPeer => /\ messageState[e.file] = "FILE"
                           /\ left[e.file][peerKey[e.file]] = info[e.file]

TodoInv == \A i \in 1 .. Len(todo) : Rewriting(todo[i])

SessionInv == session # NoSession => peerKey[session.role] = session.peer

\* What an object without a session still remembers is what it left behind,
\* or is about to be written.
MemoryInv ==
  \A r \in Role : messageState[r] = "FILE" /\ session.role # r =>
    /\ peerKey[r] \in Peer
    /\ \/ left[r][peerKey[r]] = info[r]
       \/ todo # <<>> /\ Head(todo) = [file |-> r, about |-> peerKey[r]]

RecordsInv == SavedInv /\ TodoInv /\ SessionInv /\ MemoryInv

-----------------------------------------------------------------------------
(* Types.                                                                  *)

\* The special values are none of the ordinary ones.
LEMMA Names ==
  /\ "suspending" \notin Role /\ "closing" \notin Role /\ "none" \notin Role
  /\ NoPeer \notin Peer
  /\ EmptyMap \in Map
<1>1. KeySize \in Nat \ {0} BY Size
<1>2. NoPeer \notin Peer BY <1>1 DEF NoPeer, Peer
<1> QED BY <1>2, StorageAssumption DEF EmptyMap, Map

\* The invariant holds before the first launch.
LEMMA StoreInitially == Init => StoreInv
<1> SUFFICES ASSUME Init PROVE StoreInv OBVIOUS
<1>1. ListInv BY ListInitially DEF Init
<1>2. StorageTyped BY Names DEF Init, StorageTyped
<1>3. OpenFileInv BY DEF Init, ListInit, OpenFileInv
<1> QED BY <1>1, <1>2, <1>3 DEF StoreInv

\* What a new process starts with has its types.
LEMMA FreshTyped ==
  ASSUME Fresh
  PROVE  /\ peerKey' \in [Role -> Peer \union {NoPeer}]
         /\ messageState' \in [Role -> {"MESSAGE", "FILE"}]
         /\ info' \in [Role -> Transfer \union {NoTransfer}]
         /\ session' \in [role : Role, peer : Peer] \union {NoSession}
         /\ todo' \in Seq(Write)
BY DEF Fresh

\* What a session that ends leaves to write has its type.
LEMMA RecordSessionTyped ==
  ASSUME StoreInv
  PROVE  RecordSession \in Seq(Write)
<1>1. CASE InTransfer
  <2>1. session \in [role : Role, peer : Peer] BY <1>1 DEF InTransfer, StoreInv, StorageTyped
  <2>2. [file |-> session.role, about |-> session.peer] \in Write BY <2>1 DEF Write
  <2> QED BY <1>1, <2>2 DEF RecordSession
<1>2. CASE ~ InTransfer BY <1>2 DEF RecordSession
<1> QED BY <1>1, <1>2

\* What a suspension leaves to write has its type.
LEMMA SuspensionTyped ==
  ASSUME StoreInv, NEW r \in {"sender", "receiver"}
  PROVE  SuspensionOf(r) \in Seq(Write)
<1>1. CASE r \in Role /\ messageState[r] = "FILE"
  <2> DEFINE e == [file |-> r, about |-> IF session.role = r THEN session.peer ELSE NoPeer]
  <2>1. session.role = r => session.peer \in Peer
    BY <1>1, Names DEF StoreInv, StorageTyped, NoSession
  <2>2. e \in Write BY <1>1, <2>1 DEF Write
  <2>3. SuspensionOf(r) = <<e>> BY <1>1 DEF SuspensionOf
  <2> HIDE DEF e
  <2> QED BY <2>2, <2>3
<1>2. CASE ~ (r \in Role /\ messageState[r] = "FILE") BY <1>2 DEF SuspensionOf
<1> QED BY <1>1, <1>2

\* Every step keeps the list and the types.
LEMMA StoreKept == StoreInv /\ [Next]_vars => StoreInv'
<1> SUFFICES ASSUME StoreInv, [Next]_vars PROVE StoreInv' OBVIOUS
<1>1. ListInv /\ StorageTyped /\ OpenFileInv BY DEF StoreInv
<1> USE DEF StoreInv
<1>2. ASSUME UNCHANGED listVars PROVE ListInv'
  BY <1>1, <1>2, ListAlone DEF listVars
<1>3. CASE \E key \in OwnKey : Start(key)
  <2>1. PICK key \in OwnKey : Start(key) BY <1>3
  <2>2. ListInv' BY <1>1, <2>1, LaunchReads DEF Start
  <2>3. StorageTyped' BY <1>1, <2>1, FreshTyped DEF Start, StorageTyped
  <2>4. OpenFileInv' BY <2>1 DEF Start, Launch, OpenFileInv
  <2> QED BY <2>2, <2>3, <2>4
<1>4. CASE Edit
  <2>1. ListInv' /\ phase' = phase BY <1>1, <1>4, EditKeeps DEF Edit
  <2> QED BY <2>1, <1>1, <1>4 DEF Edit, storageVars, StorageTyped, OpenFileInv
<1>5. CASE \E r \in Role, p \in Peer : OpenSession(r, p)
  <2>1. PICK r \in Role, p \in Peer : OpenSession(r, p) BY <1>5
  <2>2. ListInv' BY <2>1, <1>2 DEF OpenSession
  <2>3. StorageTyped'
    <3> DEFINE transfer == records[r][p]
    <3>1. transfer \in Transfer \union {NoTransfer} BY <1>1 DEF StorageTyped, Map
    <3>2. /\ info' = [info EXCEPT ![r] = IF transfer = NoTransfer THEN @ ELSE transfer]
          /\ messageState' = [messageState EXCEPT ![r] = IF transfer = NoTransfer
                                                         THEN "MESSAGE" ELSE "FILE"]
          /\ peerKey' = [peerKey EXCEPT ![r] = p]
          /\ session' = [role |-> r, peer |-> p]
          /\ UNCHANGED <<records, buffer, todo, left>>
      BY <2>1 DEF OpenSession
    <3> HIDE DEF transfer
    <3> QED BY <1>1, <3>1, <3>2 DEF StorageTyped
  <2>4. OpenFileInv' BY <1>1, <2>1 DEF OpenSession, OpenFileInv, listVars
  <2> QED BY <2>2, <2>3, <2>4
<1>6. CASE \E transfer \in Transfer : Carry(transfer)
  <2>1. PICK transfer \in Transfer : Carry(transfer) BY <1>6
  <2>2. ListInv' BY <2>1, <1>2 DEF Carry
  <2> QED BY <1>1, <2>1, <2>2 DEF Carry, StorageTyped, OpenFileInv, listVars
<1>7. CASE Finish
  <2>1. ListInv' BY <1>7, <1>2 DEF Finish
  <2>2. session \in [role : Role, peer : Peer]
    BY <1>1, <1>7 DEF Finish, InTransfer, StorageTyped
  <2>3. [file |-> session.role, about |-> session.peer] \in Write BY <2>2 DEF Write
  <2>4. todo' \in Seq(Write) BY <1>7, <2>3 DEF Finish
  <2>5. StorageTyped' BY <1>1, <1>7, <2>4 DEF Finish, StorageTyped
  <2>6. OpenFileInv' BY <1>7 DEF Finish, Idle, OpenFileInv, listVars
  <2> QED BY <2>1, <2>5, <2>6
<1>8. CASE Abandon
  <2>1. ListInv' BY <1>8, <1>2 DEF Abandon
  <2>2. left' \in [Role -> Map]
    <3>1. session \in [role : Role, peer : Peer]
      BY <1>1, <1>8 DEF Abandon, InTransfer, StorageTyped
    <3>2. left[session.role] \in Map BY <1>1, <3>1 DEF StorageTyped
    <3>3. [left[session.role] EXCEPT ![session.peer] = NoTransfer] \in Map
      BY <3>2 DEF Map
    <3> QED BY <1>1, <1>8, <3>1, <3>3 DEF Abandon, StorageTyped
  <2>3. StorageTyped' BY <1>1, <1>8, <2>2 DEF Abandon, StorageTyped
  <2>4. OpenFileInv' BY <1>1, <1>8 DEF Abandon, OpenFileInv, listVars
  <2> QED BY <2>1, <2>3, <2>4
<1>9. CASE EndSession
  <2>1. ListInv' BY <1>9, <1>2 DEF EndSession
  <2>2. todo' \in Seq(Write) BY <1>1, <1>9, RecordSessionTyped DEF EndSession
  <2>3. StorageTyped' BY <1>1, <1>9, <2>2 DEF EndSession, StorageTyped
  <2>4. OpenFileInv' BY <1>9 DEF EndSession, Idle, OpenFileInv, listVars
  <2> QED BY <2>1, <2>3, <2>4
<1>10. CASE \E r \in Role : Attempt(r)
  <2>1. PICK r \in Role : Attempt(r) BY <1>10
  <2>2. ListInv' BY <2>1, <1>2 DEF Attempt
  <2>3. peerKey' \in [Role -> Peer \union {NoPeer}]
    BY <1>1, <2>1 DEF Attempt, TakesPeerKey, StorageTyped
  <2> QED BY <1>1, <2>1, <2>2, <2>3 DEF Attempt, StorageTyped, OpenFileInv, listVars
<1>11. CASE Suspend
  <2>1. ListInv' BY <1>11, <1>2 DEF Suspend
  <2>2. todo' \in Seq(Write)
    <3> DEFINE first == <<[file |-> "suspending", about |-> NoPeer]>>
    <3>1. first \in Seq(Write) BY DEF Write
    <3>2. SuspensionOf("sender") \in Seq(Write) /\ SuspensionOf("receiver") \in Seq(Write)
      BY <1>1, SuspensionTyped
    <3>3. todo' = first \o SuspensionOf("sender") \o SuspensionOf("receiver")
      BY <1>11 DEF Suspend
    <3> HIDE DEF first
    <3>4. first \o SuspensionOf("sender") \in Seq(Write) BY <3>1, <3>2, ConcatProperties
    <3> QED BY <3>2, <3>3, <3>4, ConcatProperties
  <2>3. StorageTyped' BY <1>1, <1>11, <2>2 DEF Suspend, StorageTyped
  <2>4. OpenFileInv' BY <1>11 DEF Suspend, Idle, OpenFileInv, listVars
  <2> QED BY <2>1, <2>3, <2>4
<1>12. CASE Quit
  <2>1. ListInv' BY <1>12, <1>2 DEF Quit
  <2>2. todo' \in Seq(Write)
    <3> DEFINE last == <<[file |-> "closing", about |-> NoPeer]>>
    <3>1. last \in Seq(Write) BY DEF Write
    <3>2. RecordSession \in Seq(Write) BY <1>1, RecordSessionTyped
    <3>3. todo' = RecordSession \o last BY <1>12 DEF Quit
    <3> HIDE DEF last
    <3> QED BY <3>1, <3>2, <3>3, ConcatProperties
  <2>3. StorageTyped' BY <1>1, <1>12, <2>2 DEF Quit, StorageTyped
  <2>4. OpenFileInv' BY <1>12 DEF Quit, Idle, OpenFileInv, listVars
  <2> QED BY <2>1, <2>3, <2>4
<1>13. CASE OpenRecords
  <2> DEFINE r == Head(todo).file
  <2>1. /\ r \in Role /\ todo # <<>> /\ phase = "running" /\ phase' = "recording"
        /\ buffer' = Updated(r) /\ records' = [records EXCEPT ![r] = EmptyMap]
        /\ UNCHANGED <<deviceItems, seq, thisKey, view, conf, written>>
        /\ UNCHANGED <<peerKey, messageState, info, session, todo, left>>
    BY <1>13 DEF OpenRecords
  <2>2. ListInv' BY <1>1, <2>1, ListAlone
  <2> HIDE DEF r
  <2>3. buffer' \in Map
    <3>1. records[r] \in Map /\ Value(r) \in Transfer \union {NoTransfer}
      BY <1>1, <2>1 DEF StorageTyped, Value
    <3>2. [records[r] EXCEPT ![peerKey[r]] = Value(r)] \in Map BY <3>1 DEF Map
    <3> QED BY <3>2, <2>1 DEF Updated, Value
  <2>4. records' \in [Role -> Map] BY <1>1, <2>1, Names DEF StorageTyped
  <2>5. StorageTyped' BY <1>1, <2>1, <2>3, <2>4 DEF StorageTyped
  <2>6. OpenFileInv' BY <2>1 DEF OpenFileInv, r
  <2> QED BY <2>2, <2>5, <2>6
<1>14. CASE CloseRecords
  <2> DEFINE r == Head(todo).file
             p == Head(todo).about
  <2>1. /\ phase = "recording" /\ phase' = "running"
        /\ records' = [records EXCEPT ![r] = buffer]
        /\ left' = IF p = NoPeer THEN left ELSE [left EXCEPT ![r][p] = Value(r)]
        /\ buffer' = EmptyMap /\ todo' = Tail(todo)
        /\ UNCHANGED <<deviceItems, seq, thisKey, view, conf, written>>
        /\ UNCHANGED <<peerKey, messageState, info, session>>
    BY <1>14 DEF CloseRecords, Value
  <2>2. ListInv' BY <1>1, <2>1, ListAlone
  <2>3. r \in Role /\ todo # <<>> BY <1>1, <2>1 DEF OpenFileInv
  <2> HIDE DEF r, p
  <2>4. left' \in [Role -> Map]
    <3>1. left[r] \in Map /\ Value(r) \in Transfer \union {NoTransfer}
      BY <1>1, <2>3 DEF StorageTyped, Value
    <3>2. [left[r] EXCEPT ![p] = Value(r)] \in Map BY <3>1 DEF Map
    <3> QED BY <1>1, <2>1, <2>3, <3>2 DEF StorageTyped
  <2>5. todo' \in Seq(Write) BY <1>1, <2>1, <2>3, HeadTailProperties DEF StorageTyped
  <2>6. StorageTyped' BY <1>1, <2>1, <2>4, <2>5, Names DEF StorageTyped
  <2>7. OpenFileInv' BY <2>1 DEF OpenFileInv
  <2> QED BY <2>2, <2>6, <2>7
<1>15. CASE WriteConf
  <2>1. CASE todo # <<>> /\ Head(todo).file \in {"suspending", "closing"}
             /\ OpenConf(Head(todo).file) /\ UNCHANGED storageVars
    <3>1. ListInv' BY <1>1, <2>1, OpenConfKeeps
    <3>2. StorageTyped' BY <1>1, <2>1 DEF StorageTyped, storageVars
    <3>3. OpenFileInv' BY <2>1 DEF OpenConf, OpenFileInv, storageVars
    <3> QED BY <3>1, <3>2, <3>3
  <2>2. CASE CloseConf /\ todo' = Tail(todo)
             /\ UNCHANGED <<peerKey, messageState, info, records, buffer, session, left>>
    <3>1. ListInv' BY <1>1, <2>2, CloseConfKeeps
    <3>2. todo # <<>> BY <1>1, <2>2 DEF CloseConf, OpenFileInv
    <3>3. todo' \in Seq(Write) BY <1>1, <2>2, <3>2, HeadTailProperties DEF StorageTyped
    <3>4. StorageTyped' BY <1>1, <2>2, <3>3 DEF StorageTyped
    <3>5. OpenFileInv' BY <2>2 DEF CloseConf, OpenFileInv
    <3> QED BY <3>1, <3>4, <3>5
  <2> QED BY <2>1, <2>2, <1>15 DEF WriteConf
<1>16. CASE Kill
  <2>1. ListInv' BY <1>1, <1>16, CrashKeeps DEF Kill
  <2>2. StorageTyped'
    <3>1. left' \in [Role -> Map] BY <1>1, <1>16, Names DEF Kill, StorageTyped
    <3> QED BY <1>1, <1>16, <3>1, FreshTyped, Names DEF Kill, StorageTyped
  <2>3. OpenFileInv' BY <1>16 DEF Kill, Crash, OpenFileInv
  <2> QED BY <2>1, <2>2, <2>3
<1>17. CASE UNCHANGED vars
  BY <1>1, <1>17, <1>2 DEF vars, listVars, storageVars, StorageTyped, OpenFileInv
<1> QED BY <1>3, <1>4, <1>5, <1>6, <1>7, <1>8, <1>9, <1>10, <1>11, <1>12, <1>13,
           <1>14, <1>15, <1>16, <1>17 DEF Next

\* Types, the list and the file being written, in every reachable state.
LEMMA StoreInvariance == Spec => []StoreInv
<1> QED BY StoreInitially, StoreKept, PTL DEF Spec

\* Every variable keeps its type, wherever LuminT is killed (the record files
\* and lumint.conf are read back as maps and keys whatever was lost).
THEOREM TypeCorrect == Spec => []TypeOK
<1>1. StoreInv => TypeOK BY ListTyped DEF StoreInv, StorageTyped, TypeOK
<1> QED BY <1>1, StoreInvariance, PTL

\* RegisterPage shows the list as it is, through any edits, suspensions and
\* restarts.
THEOREM PageShowsList == Spec => []ViewMirrorsList
<1>1. StoreInv => ViewMirrorsList BY ListTyped DEF StoreInv
<1> QED BY <1>1, StoreInvariance, PTL

-----------------------------------------------------------------------------
(* The list and this device's key.                                         *)

\* What a step does to the list, as far as the next runs of LuminT see it.
LEMMA ConfKept ==
  ASSUME ConfSpared
  PROVE  StoreInv /\ ConfInv /\ [Next]_vars =>
           /\ ConfInv'
           /\ phase = "stopped" /\ phase' = "running" => Keys' = written
           /\ thisKey # <<>> => thisKey' = thisKey
<1> SUFFICES ASSUME StoreInv, ConfInv, [Next]_vars
             PROVE  /\ ConfInv'
                    /\ phase = "stopped" /\ phase' = "running" => Keys' = written
                    /\ thisKey # <<>> => thisKey' = thisKey
  OBVIOUS
<1>1. ListInv BY DEF StoreInv
<1>2. ASSUME UNCHANGED listVars
      PROVE  ConfInv' /\ thisKey' = thisKey /\ phase' = phase
  BY <1>1, <1>2, ListAlone DEF listVars
<1>3. CASE \E key \in OwnKey : Start(key)
  <2>1. PICK key \in OwnKey : Launch(key) BY <1>3 DEF Start
  <2> QED BY <1>1, <2>1, LaunchReads
<1>4. CASE Edit
  <2>1. EditList BY <1>4 DEF Edit
  <2> QED BY <1>1, <2>1, EditKeeps
<1>5. CASE OpenRecords
  <2>1. /\ phase = "running" /\ phase' = "recording"
        /\ UNCHANGED <<deviceItems, seq, thisKey, view, conf, written>>
    BY <1>5 DEF OpenRecords
  <2> QED BY <1>1, <2>1, ListAlone
<1>6. CASE CloseRecords
  <2>1. /\ phase = "recording" /\ phase' = "running"
        /\ UNCHANGED <<deviceItems, seq, thisKey, view, conf, written>>
    BY <1>6 DEF CloseRecords
  <2> QED BY <1>1, <2>1, ListAlone
<1>7. CASE WriteConf
  <2>1. CASE CloseConf
    <3>1. ConfInv' /\ phase # "stopped" BY <1>1, <2>1, CloseConfKeeps
    <3> QED BY <3>1, <2>1 DEF CloseConf
  <2>2. CASE \E state \in {"suspending", "closing"} : OpenConf(state)
    <3>1. PICK state \in {"suspending", "closing"} : OpenConf(state) BY <2>2
    <3>2. ConfInv' /\ phase' # "running" BY <1>1, <3>1, OpenConfKeeps
    <3> QED BY <3>1, <3>2 DEF OpenConf
  <2> QED BY <2>1, <2>2, <1>7 DEF WriteConf
<1>8. CASE Kill
  <2>1. Crash BY <1>8 DEF Kill
  <2>2. ConfInv' BY <1>1, <2>1, CrashKeeps DEF ConfSpared
  <2> QED BY <2>1, <2>2 DEF Crash
<1>9. CASE UNCHANGED listVars BY <1>2, <1>9
<1>10. \/ \E key \in OwnKey : Start(key)
       \/ Edit \/ OpenRecords \/ CloseRecords \/ WriteConf \/ Kill
       \/ UNCHANGED listVars
  BY DEF Next, OpenSession, Carry, Finish, Abandon, EndSession, Attempt, Suspend, Quit, vars
<1> QED BY <1>3, <1>4, <1>5, <1>6, <1>7, <1>8, <1>9, <1>10

\* lumint.conf holds the keys last written, unless LuminT is killed writing it.
LEMMA ConfInvariance ==
  ASSUME ConfSpared
  PROVE  Spec => [](StoreInv /\ ConfInv)
<1>1. Init => ConfInv BY ListInitially DEF Init
<1>2. StoreInv /\ ConfInv /\ [Next]_vars => ConfInv' BY ConfKept
<1> QED BY <1>1, <1>2, StoreInitially, StoreKept, PTL DEF Spec

\* LuminT knows at every start the keys it wrote last, in their order,
\* whatever their number and size, provided it was not killed while writing
\* them.
THEOREM ListComesBack ==
  ASSUME ConfSpared
  PROVE  Spec => ListSurvivesRestart
<1>1. StoreInv /\ ConfInv /\ [Next]_vars =>
        [phase = "stopped" /\ phase' = "running" => Keys' = written]_listVars
  BY ConfKept
<1> QED BY <1>1, ConfInvariance, PTL DEF Spec, ListSurvivesRestart

\* A device keeps its key through any number of runs, on the same condition.
THEOREM KeyComesBack ==
  ASSUME ConfSpared
  PROVE  Spec => OwnKeyForLife
<1>1. StoreInv /\ ConfInv /\ [Next]_vars => [thisKey # <<>> => thisKey' = thisKey]_listVars
  BY ConfKept
<1> QED BY <1>1, ConfInvariance, PTL DEF Spec, OwnKeyForLife

-----------------------------------------------------------------------------
(* The records.                                                            *)

\* No record, no session and nothing to write before the first launch.
LEMMA RecordsInitially == Init => RecordsInv
<1> SUFFICES ASSUME Init PROVE RecordsInv OBVIOUS
<1>1. TodoInv BY DEF Init, TodoInv
<1>2. phase = "stopped" BY DEF Init, ListInit
<1> QED BY <1>1, <1>2 DEF Init, RecordsInv, SavedInv, SessionInv, MemoryInv

\* Writings of one object about its present peer.
LEMMA RewritingNow ==
  ASSUME StoreInv, RecordsInv, InTransfer
  PROVE  Rewriting([file |-> session.role, about |-> session.peer])
<1>1. session \in [role : Role, peer : Peer] BY DEF InTransfer, StoreInv, StorageTyped
<1>2. peerKey[session.role] = session.peer BY DEF InTransfer, RecordsInv, SessionInv
<1>3. session.peer \in Peer /\ session.peer # NoPeer BY <1>1, Names
<1> QED BY <1>1, <1>2, <1>3 DEF Rewriting

\* A suspension writes each record about the peer its object is with.
LEMMA RewritingSuspended ==
  ASSUME StoreInv, RecordsInv, Idle, NEW r \in {"sender", "receiver"}
  PROVE  \A i \in 1 .. Len(SuspensionOf(r)) : Rewriting(SuspensionOf(r)[i])
<1>1. CASE r \in Role /\ messageState[r] = "FILE"
  <2> DEFINE e == [file |-> r, about |-> IF session.role = r THEN session.peer ELSE NoPeer]
  <2>1. SuspensionOf(r) = <<e>> BY <1>1 DEF SuspensionOf
  <2>2. Rewriting(e)
    <3>1. CASE session.role = r
      <4>1. session \in [role : Role, peer : Peer]
        BY <1>1, <3>1, Names DEF StoreInv, StorageTyped, NoSession
      <4>2. session # NoSession BY <4>1, Names DEF NoSession
      <4>3. e = [file |-> session.role, about |-> session.peer] BY <3>1
      <4> QED BY <1>1, <3>1, <4>2, <4>3, RewritingNow DEF InTransfer
    <3>2. CASE session.role # r
      <4>1. todo = <<>> BY DEF Idle
      <4>2. peerKey[r] \in Peer /\ left[r][peerKey[r]] = info[r]
        BY <1>1, <3>2, <4>1 DEF RecordsInv, MemoryInv
      <4>3. e = [file |-> r, about |-> NoPeer] BY <3>2
      <4> HIDE DEF e
      <4> QED BY <1>1, <4>2, <4>3 DEF Rewriting
    <3> QED BY <3>1, <3>2
  <2> HIDE DEF e
  <2> QED BY <2>1, <2>2
<1>2. CASE ~ (r \in Role /\ messageState[r] = "FILE") BY <1>2 DEF SuspensionOf
<1> QED BY <1>1, <1>2

\* What holds of the writings of two lists holds of the lists joined.
LEMMA RewritingBoth ==
  ASSUME NEW s \in Seq(Write), NEW t \in Seq(Write),
         \A i \in 1 .. Len(s) : Rewriting(s[i]),
         \A i \in 1 .. Len(t) : Rewriting(t[i])
  PROVE  s \o t \in Seq(Write) /\ \A i \in 1 .. Len(s \o t) : Rewriting((s \o t)[i])
<1>1. /\ s \o t \in Seq(Write)
      /\ Len(s \o t) = Len(s) + Len(t)
      /\ \A i \in 1 .. Len(s) + Len(t) :
           (s \o t)[i] = IF i <= Len(s) THEN s[i] ELSE t[i - Len(s)]
  BY ConcatProperties
<1>2. Len(s) \in Nat /\ Len(t) \in Nat OBVIOUS
<1>3. ASSUME NEW i \in 1 .. Len(s \o t) PROVE Rewriting((s \o t)[i])
  <2>1. CASE i <= Len(s)
    <3>1. i \in 1 .. Len(s) /\ (s \o t)[i] = s[i] BY <1>1, <1>2, <2>1
    <3> QED BY <3>1
  <2>2. CASE ~ (i <= Len(s))
    <3>1. i - Len(s) \in 1 .. Len(t) /\ (s \o t)[i] = t[i - Len(s)] BY <1>1, <1>2, <2>2
    <3> QED BY <3>1
  <2> QED BY <2>1, <2>2
<1> QED BY <1>1, <1>3

\* A session ends, by itself or with the process: what is to be written first
\* is what its object leaves behind.
LEMMA SessionLeaves ==
  ASSUME StoreInv, RecordsInv, Idle, phase' = phase, session' = NoSession,
         UNCHANGED <<peerKey, messageState, info, records, left>>,
         NEW last \in Seq(Write), \A i \in 1 .. Len(last) : Rewriting(last[i]),
         todo' = RecordSession \o last
  PROVE  RecordsInv'
<1>1. StorageTyped /\ SavedInv /\ TodoInv /\ SessionInv /\ MemoryInv
  BY DEF StoreInv, RecordsInv
<1>2. phase # "recording" /\ todo = <<>> BY DEF Idle
<1>3. SavedInv' BY <1>1, <1>2 DEF SavedInv
<1>4. SessionInv' BY DEF SessionInv
<1> DEFINE now == [file |-> session.role, about |-> session.peer]
<1>5. RecordSession \in Seq(Write) BY RecordSessionTyped
<1>6. \A i \in 1 .. Len(RecordSession) : Rewriting(RecordSession[i])
  <2>1. CASE InTransfer
    <3>1. Rewriting(now) BY <2>1, RewritingNow
    <3>2. RecordSession = <<now>> BY <2>1 DEF RecordSession
    <3> HIDE DEF now
    <3> QED BY <3>1, <3>2
  <2>2. CASE ~ InTransfer BY <2>2 DEF RecordSession
  <2> QED BY <2>1, <2>2
<1>7. TodoInv'
  <2>1. \A i \in 1 .. Len(todo') : Rewriting(todo'[i])
    BY <1>5, <1>6, RewritingBoth
  <2> QED BY <2>1 DEF TodoInv, Rewriting
<1>8. MemoryInv'
  <2> SUFFICES ASSUME NEW q \in Role, messageState'[q] = "FILE"
               PROVE  /\ peerKey'[q] \in Peer
                      /\ \/ left'[q][peerKey'[q]] = info'[q]
                         \/ todo' # <<>> /\ Head(todo') = [file |-> q, about |-> peerKey'[q]]
    BY DEF MemoryInv
  <2>1. CASE session.role # q BY <1>1, <1>2, <2>1 DEF MemoryInv
  <2>2. CASE session.role = q
    <3>1. session # NoSession BY <2>2, Names DEF NoSession
    <3>2. InTransfer BY <3>1, <2>2 DEF InTransfer
    <3>3. session \in [role : Role, peer : Peer] BY <1>1, <3>1 DEF StorageTyped
    <3>4. now = [file |-> q, about |-> peerKey[q]] /\ peerKey[q] \in Peer
      BY <1>1, <2>2, <3>1, <3>3 DEF SessionInv
    <3>5. RecordSession = <<now>> BY <3>2 DEF RecordSession
    <3> HIDE DEF now
    <3>6. todo' # <<>> /\ Head(todo') = now
      <4>1. <<now>> \in Seq(Write) BY <1>5, <3>5
      <4>2. /\ todo' \in Seq(Write)
            /\ Len(todo') = 1 + Len(last)
            /\ todo'[1] = now
        BY <3>5, <4>1, ConcatProperties
      <4> QED BY <4>2
    <3> QED BY <3>4, <3>6
  <2> QED BY <2>1, <2>2
<1> QED BY <1>3, <1>4, <1>7, <1>8 DEF RecordsInv

\* Nothing is to be written.
LEMMA NothingToWrite ==
  ASSUME todo' = <<>>
  PROVE  TodoInv'
BY DEF TodoInv

\* The steps between two rewritings keep what files and memory say.
LEMMA SavedStays ==
  ASSUME SavedInv, phase # "recording", phase' # "recording",
         records' = records, left' = left
  PROVE  SavedInv'
BY DEF SavedInv

\* Every step keeps the records and what the sessions left in agreement.
LEMMA RecordsKept ==
  ASSUME UnrecordedOnly
  PROVE  StoreInv /\ RecordsInv /\ [Next]_vars => RecordsInv'
<1> SUFFICES ASSUME StoreInv, RecordsInv, [Next]_vars PROVE RecordsInv' OBVIOUS
<1>1. StorageTyped /\ OpenFileInv /\ SavedInv /\ TodoInv /\ SessionInv /\ MemoryInv
  BY DEF StoreInv, RecordsInv
<1>2. session # NoSession => session.role \in Role /\ session.peer \in Peer
  BY <1>1 DEF StorageTyped
<1>3. Idle => phase # "recording" /\ todo = <<>> BY DEF Idle
<1>4. CASE \E key \in OwnKey : Start(key)
  <2>1. PICK key \in OwnKey : Start(key) BY <1>4
  <2>2. SavedInv' BY <1>1, <2>1, SavedStays DEF Start, Launch
  <2>3. TodoInv' BY <2>1, NothingToWrite DEF Start, Fresh
  <2>4. SessionInv' BY <2>1 DEF Start, Fresh, SessionInv
  <2>5. MemoryInv' BY <2>1 DEF Start, Fresh, MemoryInv
  <2> QED BY <2>2, <2>3, <2>4, <2>5 DEF RecordsInv
<1>5. CASE Edit
  <2>1. phase' = phase /\ todo' = <<>> /\ UNCHANGED storageVars
    BY <1>5, EditKeeps DEF Edit, StoreInv, storageVars
  <2>2. SavedInv' BY <1>1, <2>1 DEF SavedInv, storageVars, Value
  <2>3. TodoInv' BY <2>1, NothingToWrite
  <2>4. SessionInv' /\ MemoryInv' BY <1>1, <2>1 DEF SessionInv, MemoryInv, storageVars
  <2> QED BY <2>2, <2>3, <2>4 DEF RecordsInv
<1>6. CASE \E r \in Role, p \in Peer : OpenSession(r, p)
  <2>1. PICK r \in Role, p \in Peer : OpenSession(r, p) BY <1>6
  <2>2. /\ Idle /\ phase' = phase /\ records' = records /\ left' = left /\ todo' = todo
        /\ session = NoSession /\ session' = [role |-> r, peer |-> p]
        /\ peerKey' = [peerKey EXCEPT ![r] = p]
        /\ \A q \in Role \ {r} : messageState'[q] = messageState[q] /\ info'[q] = info[q]
    BY <1>1, <2>1 DEF OpenSession, listVars, StorageTyped
  <2>3. SavedInv' BY <1>1, <1>3, <2>2, SavedStays
  <2>4. TodoInv' BY <1>3, <2>2, NothingToWrite
  <2>5. SessionInv' BY <1>1, <2>2 DEF SessionInv, StorageTyped
  <2>6. MemoryInv'
    <3> SUFFICES ASSUME NEW q \in Role, messageState'[q] = "FILE", session'.role # q
                 PROVE  peerKey'[q] \in Peer /\ left'[q][peerKey'[q]] = info'[q]
      BY DEF MemoryInv
    <3>1. q # r /\ session.role # q BY <2>2, Names DEF NoSession
    <3>2. peerKey[q] \in Peer /\ left[q][peerKey[q]] = info[q]
      BY <1>1, <1>3, <2>2, <3>1 DEF MemoryInv
    <3> QED BY <1>1, <2>2, <3>1, <3>2 DEF StorageTyped
  <2> QED BY <2>3, <2>4, <2>5, <2>6 DEF RecordsInv
<1>7. CASE \E transfer \in Transfer : Carry(transfer)
  <2>1. PICK transfer \in Transfer : Carry(transfer) BY <1>7
  <2>2. /\ Idle /\ phase' = phase /\ UNCHANGED <<peerKey, records, session, todo, left>>
        /\ \A q \in Role \ {session.role} :
             messageState'[q] = messageState[q] /\ info'[q] = info[q]
    BY <1>1, <2>1 DEF Carry, listVars, StorageTyped
  <2>3. SavedInv' BY <1>1, <1>3, <2>2, SavedStays
  <2>4. TodoInv' BY <1>3, <2>2, NothingToWrite
  <2>5. SessionInv' BY <1>1, <2>2 DEF SessionInv
  <2>6. MemoryInv' BY <1>1, <1>3, <2>2 DEF MemoryInv
  <2> QED BY <2>3, <2>4, <2>5, <2>6 DEF RecordsInv
<1>8. CASE Finish
  <2>1. /\ Idle /\ phase' = phase /\ UNCHANGED <<peerKey, records, session, left>>
        /\ session # NoSession /\ InTransfer
        /\ todo' = <<[file |-> session.role, about |-> session.peer]>>
        /\ messageState' = [messageState EXCEPT ![session.role] = "MESSAGE"]
        /\ \A q \in Role \ {session.role} : info'[q] = info[q]
    BY <1>1, <1>8 DEF Finish, InTransfer, listVars, StorageTyped
  <2>2. SavedInv' BY <1>1, <1>3, <2>1, SavedStays
  <2>3. TodoInv'
    <3>1. peerKey[session.role] = session.peer /\ session.peer \in Peer
          /\ session.peer # NoPeer
      BY <1>1, <1>2, <2>1, Names DEF SessionInv
    <3> SUFFICES ASSUME NEW i \in 1 .. Len(todo') PROVE Rewriting(todo[i])'
      BY DEF TodoInv
    <3>2. todo'[i] = [file |-> session.role, about |-> session.peer] BY <2>1
    <3> QED BY <2>1, <3>1, <3>2 DEF Rewriting
  <2>4. SessionInv' BY <1>1, <2>1 DEF SessionInv
  <2>5. MemoryInv' BY <1>1, <1>3, <2>1 DEF MemoryInv, StorageTyped
  <2> QED BY <2>2, <2>3, <2>4, <2>5 DEF RecordsInv
<1>9. CASE Abandon
  <2>1. /\ Idle /\ phase' = phase /\ session # NoSession
        /\ UNCHANGED <<peerKey, info, records, session, todo>>
        /\ messageState' = [messageState EXCEPT ![session.role] = "MESSAGE"]
        /\ left' = [left EXCEPT ![session.role][session.peer] = NoTransfer]
    BY <1>9 DEF Abandon, InTransfer, listVars
  <2>2. left' = left
    <3>1. records[session.role][session.peer] = NoTransfer
      BY <1>9 DEF Abandon, UnrecordedOnly
    <3>2. records = left BY <1>1, <1>3, <2>1 DEF SavedInv
    <3>3. [left[session.role] EXCEPT ![session.peer] = NoTransfer] = left[session.role]
      BY <1>1, <1>2, <2>1, <3>1, <3>2 DEF StorageTyped, Map
    <3> QED BY <1>1, <2>1, <3>3 DEF StorageTyped
  <2>3. SavedInv' BY <1>1, <1>3, <2>1, <2>2, SavedStays
  <2>4. TodoInv' BY <1>3, <2>1, NothingToWrite
  <2>5. SessionInv' BY <1>1, <2>1 DEF SessionInv
  <2>6. MemoryInv' BY <1>1, <1>3, <2>1, <2>2 DEF MemoryInv, StorageTyped
  <2> QED BY <2>3, <2>4, <2>5, <2>6 DEF RecordsInv
<1>10. CASE EndSession
  <2>1. /\ Idle /\ phase' = phase /\ session # NoSession /\ session' = NoSession
        /\ todo' = RecordSession
        /\ UNCHANGED <<peerKey, messageState, info, records, left>>
    BY <1>10 DEF EndSession, listVars
  <2>2. <<>> \in Seq(Write) /\ \A i \in 1 .. Len(<<>>) : Rewriting(<<>>[i]) OBVIOUS
  <2>3. todo' = RecordSession \o <<>>
    BY <2>1, RecordSessionTyped, ConcatEmptySeq
  <2> QED BY <2>1, <2>2, <2>3, SessionLeaves
<1>11. CASE \E r \in Role : Attempt(r)
  <2>1. PICK r \in Role : Attempt(r) BY <1>11
  <2>2. /\ Idle /\ phase' = phase
        /\ UNCHANGED <<info, records, session, todo, left>>
        /\ messageState' = [messageState EXCEPT ![r] = "MESSAGE"]
        /\ session = NoSession /\ \A q \in Role \ {r} : peerKey'[q] = peerKey[q]
    BY <1>1, <2>1 DEF Attempt, TakesPeerKey, listVars, StorageTyped
  <2>3. SavedInv' BY <1>1, <1>3, <2>2, SavedStays
  <2>4. TodoInv' BY <1>3, <2>2, NothingToWrite
  <2>5. SessionInv' BY <1>1, <2>2 DEF SessionInv
  <2>6. MemoryInv' BY <1>1, <1>3, <2>2 DEF MemoryInv, StorageTyped
  <2> QED BY <2>3, <2>4, <2>5, <2>6 DEF RecordsInv
<1>12. CASE Suspend
  <2> DEFINE first == [file |-> "suspending", about |-> NoPeer]
             s == SuspensionOf("sender")
             r == SuspensionOf("receiver")
  <2>1. /\ Idle /\ phase' = phase
        /\ todo' = <<first>> \o s \o r
        /\ UNCHANGED <<peerKey, messageState, info, records, session, left>>
    BY <1>12 DEF Suspend, listVars
  <2>2. first \in Write /\ Rewriting(first) BY Names DEF Write, Rewriting
  <2>3. /\ s \in Seq(Write) /\ r \in Seq(Write)
        /\ \A i \in 1 .. Len(s) : Rewriting(s[i])
        /\ \A i \in 1 .. Len(r) : Rewriting(r[i])
    BY <2>1, SuspensionTyped, RewritingSuspended
  <2> HIDE DEF first, s, r
  <2>4. \A i \in 1 .. Len(todo') : Rewriting(todo'[i])
    <3>1. <<first>> \in Seq(Write) /\ \A i \in 1 .. Len(<<first>>) : Rewriting(<<first>>[i])
      BY <2>2
    <3>2. <<first>> \o s \in Seq(Write)
          /\ \A i \in 1 .. Len(<<first>> \o s) : Rewriting((<<first>> \o s)[i])
      BY <2>3, <3>1, RewritingBoth
    <3> QED BY <2>1, <2>3, <3>2, RewritingBoth
  <2>5. TodoInv' BY <2>1, <2>4 DEF TodoInv, Rewriting
  <2>6. SavedInv' BY <1>1, <1>3, <2>1, SavedStays
  <2>7. SessionInv' BY <1>1, <2>1 DEF SessionInv
  <2>8. MemoryInv' BY <1>1, <1>3, <2>1 DEF MemoryInv
  <2> QED BY <2>5, <2>6, <2>7, <2>8 DEF RecordsInv
<1>13. CASE Quit
  <2> DEFINE last == [file |-> "closing", about |-> NoPeer]
  <2>1. /\ Idle /\ phase' = phase /\ session' = NoSession
        /\ todo' = RecordSession \o <<last>>
        /\ UNCHANGED <<peerKey, messageState, info, records, left>>
    BY <1>13 DEF Quit, listVars
  <2>2. last \in Write /\ Rewriting(last) BY Names DEF Write, Rewriting
  <2> HIDE DEF last
  <2>3. <<last>> \in Seq(Write) /\ \A i \in 1 .. Len(<<last>>) : Rewriting(<<last>>[i])
    BY <2>2
  <2> QED BY <2>1, <2>3, SessionLeaves
<1>14. CASE OpenRecords
  <2> DEFINE r == Head(todo).file
  <2>1. /\ r \in Role /\ phase = "running" /\ phase' = "recording"
        /\ buffer' = [records[r] EXCEPT ![peerKey[r]] = Value(r)]
        /\ records' = [records EXCEPT ![r] = EmptyMap]
        /\ UNCHANGED <<peerKey, messageState, info, session, todo, left>>
    BY <1>14 DEF OpenRecords, Updated, Value
  <2>2. records = left BY <1>1, <2>1 DEF SavedInv
  <2>3. SavedInv'
    <3>1. records'[r] = EmptyMap /\ \A q \in Role \ {r} : records'[q] = left'[q]
      BY <1>1, <2>1, <2>2 DEF StorageTyped
    <3>2. buffer' = [left[r] EXCEPT ![peerKey[r]] = Value(r)] BY <2>1, <2>2
    <3> QED BY <2>1, <3>1, <3>2 DEF SavedInv, Value
  <2>4. TodoInv' /\ SessionInv' /\ MemoryInv'
    BY <1>1, <2>1 DEF TodoInv, Rewriting, SessionInv, MemoryInv
  <2> QED BY <2>3, <2>4 DEF RecordsInv
<1>15. CASE CloseRecords
  <2> DEFINE r == Head(todo).file
             p == Head(todo).about
             k == peerKey[r]
  <2>1. /\ phase = "recording" /\ phase' = "running"
        /\ records' = [records EXCEPT ![r] = buffer]
        /\ left' = IF p = NoPeer THEN left ELSE [left EXCEPT ![r][p] = Value(r)]
        /\ todo' = Tail(todo)
        /\ UNCHANGED <<peerKey, messageState, info, session>>
    BY <1>15 DEF CloseRecords, Value
  <2>2. /\ r \in Role /\ todo # <<>>
        /\ \A q \in Role \ {r} : records[q] = left[q]
        /\ buffer = [left[r] EXCEPT ![k] = Value(r)]
    BY <1>1, <2>1 DEF OpenFileInv, SavedInv
  <2>3. /\ Len(todo) \in Nat \ {0} /\ Head(todo) = todo[1]
        /\ todo' \in Seq(Write) /\ Len(todo') = Len(todo) - 1
        /\ \A i \in 1 .. Len(todo') : todo'[i] = todo[i + 1]
    BY <1>1, <2>1, <2>2, EmptySeq, HeadTailProperties DEF StorageTyped
  <2>4. Rewriting(Head(todo)) BY <1>1, <2>3 DEF TodoInv
  <2>5. /\ k \in Peer
        /\ p # NoPeer => p = k
        /\ p = NoPeer => messageState[r] = "FILE" /\ left[r][k] = info[r]
    BY <2>2, <2>4 DEF Rewriting
  <2> HIDE DEF r, p, k
  <2>6. left[r] \in Map /\ left \in [Role -> Map] /\ records \in [Role -> Map]
    BY <1>1, <2>2 DEF StorageTyped
  <2>7. left' = [left EXCEPT ![r] = buffer]
    <3>1. CASE p # NoPeer BY <2>1, <2>2, <2>5, <3>1
    <3>2. CASE p = NoPeer
      <4>1. Value(r) = left[r][k] BY <2>5, <3>2 DEF Value
      <4>2. buffer = left[r] BY <2>2, <2>5, <2>6, <4>1 DEF Map
      <4> QED BY <2>1, <2>6, <3>2, <4>2
    <3> QED BY <3>1, <3>2
  <2>8. /\ \A q \in Role \ {r} : left'[q] = left[q]
        /\ left'[r][k] = Value(r)
        /\ \A x \in Peer \ {k} : left'[r][x] = left[r][x]
    BY <2>2, <2>5, <2>6, <2>7 DEF Map
  <2>9. SavedInv'
    <3>1. records' = left'
      <4>1. \A q \in Role : records'[q] = left'[q] BY <2>1, <2>2, <2>6, <2>7
      <4>2. records' = [q \in Role |-> records'[q]] /\ left' = [q \in Role |-> left'[q]]
        BY <2>1, <2>6, <2>7
      <4> QED BY <4>1, <4>2
    <3> QED BY <2>1, <3>1 DEF SavedInv
  <2>10. TodoInv'
    <3> SUFFICES ASSUME NEW i \in 1 .. Len(todo') PROVE Rewriting(todo[i])'
      BY DEF TodoInv
    <3> DEFINE e == todo[i + 1]
    <3>1. i + 1 \in 1 .. Len(todo) /\ todo'[i] = e BY <2>3
    <3>2. Rewriting(e) BY <1>1, <3>1 DEF TodoInv
    <3> HIDE DEF e
    <3>3. CASE e.file = r
      <4>1. messageState[r] = "FILE" => left'[r][k] = info[r] BY <2>8 DEF Value
      <4> QED BY <2>1, <3>1, <3>2, <3>3, <4>1 DEF Rewriting, k
    <3>4. CASE e.file # r BY <2>1, <2>8, <3>1, <3>2, <3>4 DEF Rewriting
    <3> QED BY <3>3, <3>4
  <2>11. SessionInv' BY <1>1, <2>1 DEF SessionInv
  <2>12. MemoryInv'
    <3> SUFFICES ASSUME NEW q \in Role, messageState[q] = "FILE", session.role # q
                 PROVE  peerKey[q] \in Peer /\ left'[q][peerKey[q]] = info[q]
      BY <2>1 DEF MemoryInv
    <3>1. CASE q = r BY <2>5, <2>8, <3>1 DEF Value, k
    <3>2. CASE q # r
      <4>1. Head(todo) # [file |-> q, about |-> peerKey[q]] BY <3>2 DEF r
      <4>2. peerKey[q] \in Peer /\ left[q][peerKey[q]] = info[q]
        BY <1>1, <4>1 DEF MemoryInv
      <4> QED BY <2>8, <3>2, <4>2
    <3> QED BY <3>1, <3>2
  <2> QED BY <2>9, <2>10, <2>11, <2>12 DEF RecordsInv
<1>16. CASE WriteConf
  <2>1. CASE \E state \in {"suspending", "closing"} : OpenConf(state) /\ UNCHANGED storageVars
    <3>1. phase # "recording" /\ phase' # "recording" /\ UNCHANGED storageVars
      BY <2>1 DEF OpenConf
    <3>2. SavedInv' BY <1>1, <3>1, SavedStays DEF storageVars
    <3>3. TodoInv' /\ SessionInv' /\ MemoryInv'
      BY <1>1, <3>1 DEF storageVars, TodoInv, Rewriting, SessionInv, MemoryInv
    <3> QED BY <3>2, <3>3 DEF RecordsInv
  <2>2. CASE CloseConf /\ todo' = Tail(todo)
             /\ UNCHANGED <<peerKey, messageState, info, records, buffer, session, left>>
    <3>1. /\ phase \in {"suspending", "closing"} /\ phase' # "recording"
          /\ todo' = Tail(todo)
          /\ UNCHANGED <<peerKey, messageState, info, records, session, left>>
      BY <2>2 DEF CloseConf
    <3>2. todo # <<>> /\ Head(todo).file \notin Role BY <1>1, <3>1, Names DEF OpenFileInv
    <3>3. SavedInv' BY <1>1, <3>1, SavedStays
    <3>4. SessionInv' BY <1>1, <3>1 DEF SessionInv
    <3>5. TodoInv'
      <4>1. \A i \in 1 .. Len(todo') : i + 1 \in 1 .. Len(todo) /\ todo'[i] = todo[i + 1]
        BY <1>1, <3>1, <3>2, EmptySeq, HeadTailProperties DEF StorageTyped
      <4>2. \A i \in 1 .. Len(todo') : Rewriting(todo'[i]) BY <1>1, <4>1 DEF TodoInv
      <4> QED BY <3>1, <4>2 DEF TodoInv, Rewriting
    <3>6. MemoryInv'
      <4> SUFFICES ASSUME NEW q \in Role, messageState[q] = "FILE", session.role # q
                   PROVE  peerKey[q] \in Peer /\ left[q][peerKey[q]] = info[q]
        BY <3>1 DEF MemoryInv
      <4>1. Head(todo) # [file |-> q, about |-> peerKey[q]] BY <3>2
      <4> QED BY <1>1, <4>1 DEF MemoryInv
    <3> QED BY <3>3, <3>4, <3>5, <3>6 DEF RecordsInv
  <2> QED BY <1>16, <2>1, <2>2 DEF WriteConf
<1>17. CASE Kill
  <2>1. /\ phase' # "recording" /\ records' = records
        /\ left' = IF phase = "recording" THEN [left EXCEPT ![Head(todo).file] = EmptyMap]
                   ELSE left
    BY <1>17 DEF Kill, Crash
  <2>2. SavedInv'
    <3>1. CASE phase # "recording" BY <1>1, <2>1, <3>1, SavedStays
    <3>2. CASE phase = "recording"
      <4> DEFINE r == Head(todo).file
      <4>1. r \in Role /\ records[r] = EmptyMap /\ \A q \in Role \ {r} : records[q] = left[q]
        BY <1>1, <3>2 DEF OpenFileInv, SavedInv
      <4>2. records \in [Role -> Map] /\ left \in [Role -> Map] BY <1>1 DEF StorageTyped
      <4>3. left' = [left EXCEPT ![r] = EmptyMap] BY <2>1, <3>2
      <4> HIDE DEF r
      <4>4. records' = left' BY <2>1, <4>1, <4>2, <4>3
      <4> QED BY <2>1, <4>4 DEF SavedInv
    <3> QED BY <3>1, <3>2
  <2>3. TodoInv' BY <1>17, NothingToWrite DEF Kill, Fresh
  <2>4. SessionInv' /\ MemoryInv' BY <1>17 DEF Kill, Fresh, SessionInv, MemoryInv
  <2> QED BY <2>2, <2>3, <2>4 DEF RecordsInv
<1>18. CASE UNCHANGED vars
  BY <1>1, <1>18 DEF vars, listVars, storageVars, RecordsInv, SavedInv, Value, TodoInv,
                     Rewriting, SessionInv, MemoryInv
<1> QED BY <1>4, <1>5, <1>6, <1>7, <1>8, <1>9, <1>10, <1>11, <1>12, <1>13, <1>14,
           <1>15, <1>16, <1>17, <1>18 DEF Next

\* The records and what the sessions left agree in every reachable state.
LEMMA RecordsInvariance ==
  ASSUME UnrecordedOnly
  PROVE  Spec => [](StoreInv /\ RecordsInv)
<1>1. StoreInv /\ RecordsInv /\ [Next]_vars => RecordsInv' BY RecordsKept
<1> QED BY <1>1, StoreInitially, StoreKept, RecordsInitially, PTL DEF Spec

\* A session takes up what the last one with its peer left, whatever sessions
\* with others, suspensions, exits and kills came between, but for records lost
\* with the file that a kill met open.
THEOREM RecordsComeBack ==
  ASSUME UnrecordedOnly
  PROVE  Spec => RecordComesBack
<1> DEFINE TakenUp ==
             \A r \in Role, p \in Peer : OpenSession(r, p) =>
               IF left[r][p] = NoTransfer THEN messageState'[r] = "MESSAGE"
               ELSE messageState'[r] = "FILE" /\ info'[r] = left[r][p]
<1>1. StoreInv /\ RecordsInv => TakenUp
  <2> SUFFICES ASSUME StoreInv, RecordsInv, NEW r \in Role, NEW p \in Peer,
                      OpenSession(r, p)
               PROVE  IF left[r][p] = NoTransfer THEN messageState'[r] = "MESSAGE"
                      ELSE messageState'[r] = "FILE" /\ info'[r] = left[r][p]
    OBVIOUS
  <2>1. records = left BY DEF OpenSession, Idle, RecordsInv, SavedInv
  <2> QED BY <2>1 DEF OpenSession, StoreInv, StorageTyped
<1>2. StoreInv /\ RecordsInv => [TakenUp]_vars BY <1>1
<1> HIDE DEF TakenUp
<1>3. Spec => [][TakenUp]_vars BY <1>2, RecordsInvariance, PTL
<1> QED BY <1>3 DEF RecordComesBack, TakenUp
=============================================================================
