# TLA+ verification of LuminT

LuminT sends texts and files from one device, the Sender, to another, the
Receiver, over TLS on a local network. This directory holds TLA+ models of its
logic, TLC runs that check them on small instances, and proofs, checked by
TLAPS, of what holds for every instance. `PROJECT.json` lists the runs, the
source lines behind each definition, the findings, the hazards and the theorems.

## The system

| Component | Source | State it keeps | Operations |
|---|---|---|---|
| Sender | `modules/communications/sender.cpp` | `clientSocket`, `clientState`, `messageState`, encryption timer, `fileTransferInfo`, the record in `senderFileTransfer.info` | socket slots, `connectToReceiver`, `disconnectFromReceiver`, `handleReadyRead` and its handlers, `sendTextMessage`, `sendFile`, save/retrieve/clear of the record |
| Receiver | `modules/communications/receiver.cpp` | listener, `serverSocket`, `serverState`, `messageState`, timer, `currentFile`, `fileTransferInfo`, the record in `receiverFileTransfer.info` | `startServer`, `stopServer`, socket slots, `handleReadyRead` and its handlers, `createFile`, `pause/resume/cancelFileTransfer`, `setFilePath`, `sendFileError` |
| Pages | `qml/*.qml` | the stack of pages, enabled rows, two popups, the Pause/Resume button | buttons, Back, suspension on Android; the signals of Sender and Receiver push and pop pages |
| Messenger and messages | `modules/message` | one message buffer | framing, reading in transactions, the packet at an offset of the file |
| RegisterDeviceList | `modules/qml/register_device_list.cpp` | this device's key, the other devices' keys, `lumint.conf` | generate, read, write, insert, remove |
| RegisterDeviceModel, RegisterPage | `modules/qml/register_device_model.cpp`, `qml/RegisterPage.qml` | the rows shown | follow the list's signals, edit, + and - |
| Utilities | `modules/utilities` | none | 32-bit conversions, clipboard |
| Application start and exit | `main.cpp` | none | builds, connects and destroys the objects |
| TLS, certificates, Android permissions, build | `certificates`, `openssl`, `modules/android`, `android`, `lumint.pro` | outside the program's logic | |

A session runs as follows. The Receiver listens; the Sender dials until it is
accepted; the Receiver closes its listener, so that it serves one Sender, and
both start a timer of five seconds for the TLS handshake. Then the Receiver asks
for the Sender's key, answers with its own if it knows that key, and the Sender
confirms if it knows the Receiver's. Each opens its page. A file goes by
stop-and-wait: `FILE_INFO`, then one `FILE_PACKET` request for each packet, and
`FILE_SUCCESS`. Packets carry no length and no type: what the next bytes are is
known only from the Receiver's `messageState`. The Receiver may pause, resume
and cancel. If a session ends during a transfer each device writes a record
under its peer's key, and the next session starts from the two records.

What is hard: every slot runs to completion in one event loop, but the two
devices, the two users, the timers and the network interleave freely; a session
can be cut between any two steps; state survives in four files that are written
apart, each by emptying it first; several Senders may dial one Receiver, by an ID
that was read when LuminT started; framing depends on state that buttons change;
integers are narrow.

What makes each component correct:

* connection: server state, socket and listener never disagree; timers never
  fire into a session; the start page means that nothing is left running; no
  session opens unless both keys are known; handshakes end;
* transfer: one request or packet at a time; the stream is never read under the
  wrong framing; a completed file is the file sent; other files are not touched;
  a cancelled file stays deleted; the records are about the same file and the
  same packet; transfers and cancellations end;
* framing: all that arrives is read, and as it was written;
* device list: what was written comes back; the own key never changes; the page
  shows the list as it is; the row clicked is the row removed;
* storage: what was left unfinished with a peer, and nothing else, is resumed
  with that peer, whatever came between;
* rendezvous: a Receiver serves one Sender, the one in the session dialled the ID
  shown, a waiting Receiver can be reached, a Sender turned away is told.

`PROJECT.json` "hazards" names what can go wrong at each line and the properties
that would catch it.

## Modules

| Module | Models |
|---|---|
| `Link` | the connection, the listener's backlog and the messages on the wire, as the code uses Qt's sockets |
| `Sender` | class Sender with `SenderWaitingPage`, `SenderPage` and its side of `main.qml` |
| `Receiver` | class Receiver with `ReceiverPage`, its side of `main.qml`, and the folders it writes to |
| `LuminT` | the composition of the three, and its properties |
| `FileDelivery` | abstract: what file transfer promises; `LuminT` implements it |
| `Pairing` | abstract: what key verification promises; `LuminT` implements it |
| `MCLuminT` | instances of `LuminT` for TLC |
| `LuminT_proofs` | theorems about `LuminT` under every liberty: types, connection, timers, pages, keys, `Pairing`; lemmas on the order of messages in a channel |
| `Handshake_proofs` | theorems about handshakes and the ends of sessions |
| `Session_proofs` | theorems about stop-and-wait, framing, rows and popups |
| `Files_proofs` | theorems about the files, the records and `FileDelivery` |
| `Messenger` | the byte formats: framing, sizes, numbers |
| `PacketTransfer` | texts and files of one session byte for byte, with integers as wide as the code has them and TLS delivering in pieces |
| `PacketTransfer_proofs` | lemmas on `Messenger`, theorems about `PacketTransfer` |
| `DeviceList`, `MCDeviceList` | RegisterDeviceList, its model and page, `lumint.conf` and the life of the process |
| `Storage`, `MCStorage` | extends `DeviceList` with the two record files: one device, several peers, both roles, several runs of LuminT |
| `DeviceList_proofs` | lemmas on `DeviceList`: the file of keys, the list and the rows shown |
| `Storage_proofs` | theorems about `Storage`, the list and the records |
| `Rendezvous`, `MCRendezvous` | several devices on one network: addresses, IDs, listeners and competing Senders |
| `Rendezvous_proofs` | theorems about `Rendezvous` |

### Sender, Receiver and LuminT

Variables bear the names of the class members; a prefix `s` or `r` tells the two
`messageState`s, timers, pages and records apart. The correspondence of actions:

| Code | Action |
|---|---|
| `socketConnected`, `socketReady`, `socketDisconnected`, `encryptingTimeout` of Sender | `SocketConnected`, `SSocketReady`, `SSocketDisconnected`, `SEncryptingTimeout` |
| `connectToReceiver`; `socketError` | `ConnectToReceiver`; `SocketError` (a refused attempt dials again and changes nothing) |
| Back with `disconnectFromReceiver` / `stopServer` | `SBack` / `RBack` |
| `Sender::handleReadyRead` | the `SHandle...` actions, one for each message |
| `sendTextMessage`, `sendFile` with their buttons | `SendTextMessage`, `SendFile` |
| `startServer`, `incomingConnection`, `Receiver::socketReady` | `StartServer`, `IncomingConnection`, `RSocketReady` |
| `stopServer` in any state | `StopServer(state)`, within `RSocketDisconnected`, `REncryptingTimeout`, `RHandleError`, `RBack` |
| `Receiver::handleReadyRead` in `MESSAGE` | the `RHandle...` actions |
| `Receiver::handleReadyRead` in a file state | `RFinishCancel`, `RFinishFile`, `RConfirmPause`, `RRequestNext` |
| bytes read under the wrong framing | `Misread`, after which nothing more of that connection is read |
| `createFile` with `onFileStatus` | `CreateFile`, within `RHandleFileInfo` and `CreateUnderAnotherName`; `CreateWithoutName` for the empty name |
| `pause/resume/cancelFileTransfer`, `setFilePath`, `sendFileError` | `PauseFileTransfer`, `ResumeFileTransfer`, `CancelFileTransfer`, `SetFilePath`, `SendFileError` |
| suspension on Android; a kill; exit (`~Sender`, `~Receiver`) | `SSuspend`, `RSuspend`; `SCrash`, `RCrash`; `SQuit`, `RQuit` |

Direct signal connections run within the emitting slot, so that the page's
reaction is part of the same action. The whole of a slot is one action, the
record written at its end included.

A channel is a sequence of messages. When the connection is cut, either end may
still read a prefix of what the other wrote, until it handles `disconnected()`.
A write to a connection that is gone is lost without an error.

A file on disk is a sequence of chunks `<<f, n>>`, the nth packet of f, so that
content, order, loss and duplication are visible while bytes are not. Only the
last packet of a file is short, which is what `Fits` looks at to say whether a
packet is read whole; `PacketTransfer` checks that down to the byte.

The constant `Environment` lists the liberties that users, disks and networks
take in a run (`Liberties` in `Link`). Safety that holds only without some of
them is checked without them, and a violation run shows what happens with them.
The theorems of `LuminT_proofs` and `Handshake_proofs` hold for every
`Environment`; those of `Session_proofs` and `Files_proofs` name the liberties
they do without, which are those a run shows to do harm. `MayLeave` in
`LuminT`, which bars Back during a session without `"interrupt"`, is such a
restriction of the users, not a guard of the code.

### Messenger and PacketTransfer

`Messenger` defines the formats with the number of byte values as a constant, so
that `uint32_t`, `uint16_t` and `int` shrink together. In `PacketTransfer` a
write is a TLS record, TLS delivers records in pieces of any size, and each
piece calls `handleReadyRead`, which reads one message or packet at most.
`Place` has the weights of the bytes that the code reaches by shifting.
`Offset` models the `int` product of `FileMessage::serialize`: past `INT_MAX` it
is undefined, and comes out exact, or wrapped and refused by `seek()`.

### The abstract specifications

`FileDelivery` sees only the Receiver's disk, the file coming in, the Sender's file
it comes from and what was delivered. Its steps are: a file comes into being,
grows by the next packet of one file, is delivered with its last packet, or is
dropped. Pauses, cuts, resumptions and records are stutters. `FileDelivered`
maps `partial` to the path of the transfer under way, or else of the Receiver's
record, and `source` to the Sender's file likewise, so that a cut, which moves
both from memory to the records, changes neither.

`Pairing` sees who shows a session on the live connection and who trusts whom:
the Sender opens first, only if both trust, the Receiver follows, and the end is
the end for both. `SessionsOpenInOrder` maps a connection that is down to
"nobody", whatever page a device still shows.

### DeviceList

One device over many runs of LuminT. `OpenConf` and `CloseConf` are the two
halves of `writeDeviceItems`, between which the process can be killed where
`KilledIn` says so; nothing else runs in between. `lumint.conf` is one sequence
of characters, as in the code, which stores keys with no separator.

`view` is what the ListView holds. It changes only by what the model announces:
the reset when the page is opened (`OpenPage`), `dataChanged` (`EnterKey`),
`beginInsertRows`/`endInsertRows` (`ShowInserted`), and the removal of a row. The
first row is special: `insertItem` empties it without announcing that, and the
page empties its own text field instead.

### Storage

Modules Sender and Receiver have one peer and write its record in one step. In
`Storage` each file holds a map from peers to transfers, and
`saveFileTransferInfo` and `clearFileTransferInfo` are `OpenRecords` (read the
map, change it, open for writing, which empties the file) and `CloseRecords`. A
handler that rewrites several files puts them in `todo`: suspension writes the
list and then the records, exit the records and then the list, and a kill may
come in between. `peerKey`, `messageState` and `fileTransferInfo` outlive their
session as in the code. What a transfer is, and how it moves, is `LuminT`'s
subject; here it is a value, changed by `Carry`, `Finish` and `Abandon`.
`left` is a history variable: what the last session with each peer left, less
what `Kill` destroys when it meets a record file open, that is, emptied. `Attempt`
is a handshake that comes to nothing; the Receiver may have taken its peer's key
by then (`TakesPeerKey`), and it stays.

### Rendezvous

Any number of devices, each of which may send, receive, quit and start again. `Launch` reads
the address once, as `setup()` does, and `GetIPAddress` takes one that ends like a
gateway's (`PassedOver`) for none; `thisID` stands for the ID shown and for the
address listened at. `Move` gives a device another address, or none, on the pages
`MovesOn` names for it. `SocketConnected` needs a listener at the address dialled;
connections queue in `backlog`; `IncomingConnection` takes the first, and `close()`
resets the others. What a lost connection looks like at each end is `to` (the
Sender's end) against `serving` (the Receiver's). The handshake after that is cut
down to three steps, `SenderOpens`, `ReceiverOpens` and `Refuse`, which `Pairing`
and its theorem justify.

## Runs

| Run | Result | Question |
|---|---|---|
| `Transfers` | holds | sessions cut, applications suspended or closed at any step, three files (3, 1 and 0 packets), default name and folder; refinement of `FileDelivery`; cancellations and transfers end |
| `Users` | holds | renames and changes of folder at any time in sessions nobody cuts, two files of one name; refinement of `FileDelivery` |
| `Everything` | holds | every liberty at once: connection, timers, pages, keys, types; refinement of `Pairing`; handshakes end |
| `Packets` | holds | bytes: framing, widths, the last packet, pieces |
| `Storage` | holds | the list, the own key, the rows shown and the records of two peers in both roles over several runs of LuminT, killed anywhere but inside `writeDeviceItems` |
| `Rendezvous` | holds | three devices, two of which send and two of which receive, addresses given out anew between runs of LuminT, and one device whose address changes also behind its start page |
| `RenameResume` | violated | a renamed transfer, cut and resumed, writes into the existing file |
| `CancelPausing` | violated | Cancel between Pause and its confirmation reads a packet as a message |
| `CancelSaved` | violated | cancelling a resumed transfer keeps its record, and the file comes back |
| `Lockout` | violated | a session cut before the Receiver has begun leaves the Sender unable to send to that peer |
| `BeyondInt` | violated | files above about 2 GiB arrive with wrong content |
| `RemoveAfterRestart` | violated | the button of one key removes another |

Each violated run has an entry under "findings" that quotes the document,
comment, message or test it contradicts. More behaviours come out of the same
models when a run's constants are widened:

* with the liberties `"interrupt"` and `"browse"` and two folders,
  `CompletedFilesIntact` fails: a folder chosen during a transfer that is then cut
  goes into the record, and the resumed file lacks its first packets;
* with `"suspend"` and `"crash"` together `FileDelivered` and `CompletedFilesIntact`
  fail: the record of a suspended application that is killed later is older than
  the file, and packets are appended twice;
* with `KilledIn` of `Storage` extended to `"suspending"` or `"closing"`
  `OwnKeyForLife` fails: `writeDeviceItems` has emptied `lumint.conf`, and
  `generateConf` does not write a new key to a file that exists;
* with `Abandons` of `Storage` extended to `"recorded"` `RecordComesBack` fails:
  neither the Receiver's Cancel (`CancelSaved`) nor `FILE_ERROR` at the Sender
  clears a record that an earlier session or a suspension has written.

Two flaws of the code are within passing runs, whose properties except them by
name and show that they are the only ones of their kind: a kill that meets a
record file open loses the records of all peers in it (`RecordComesBack`), and a
Receiver whose address changed behind the start page fails to listen and shows the
old ID all the same (`WaitingIsReachable`).

### Bounds, and why they suffice

* Files of three, one and no packets: three is the least with a first, a middle
  and a last packet, so that a transfer can be cut, resumed and cut again; one
  is first and last at once; none is refused. `Everything` has one of two.
* One or two names and folders: a clash needs one name, a rename two, a change
  of folder two.
* `MaxTexts` bounds the texts unread at a time: two let texts queue up before
  a file. `MaxChunks` only stops a file from growing without end by repeated
  resumption after a fault or a change of folder; no passing property depends on
  it. Channels are bounded by the protocol itself.
* `Packets`: four byte values, so that `uint32_t` counts to 255, `uint16_t` to 15
  and `int` to 127, and packets of 20 bytes, which keeps the order of the code's
  limits: 13 packets fit the packet number, `MAX_FILE_SIZE` is reached, and the
  offset leaves `int` half-way. Sizes are 0, 1, one below, at and above a
  packet, a multiple, the largest that fits, and two that are refused; texts are
  empty, short, as long as the two size bytes allow, and one longer.
* `Storage`: keys of two characters out of two, two keys in the list, one of
  this device, and a key cut short that must be refused; one insertion in a
  run of LuminT (`MaxSeq`) and any number of runs, so that a list is read, changed and
  written again. `RemoveAfterRestart` has the larger list its counterexample
  needs. Two peers let a record of one be lost or overwritten by the other's;
  two values of a transfer tell an old record from a new one. They are
  interchangeable, which makes them a symmetry set: no constant names one, and
  the run has no liveness property. `MaxItems` and `MaxSeq` guard `InsertItem`.
  `KilledIn` leaves out the writing of `lumint.conf`, for the reason given above.
* `Rendezvous`: one device only sends, one only receives, and one does either;
  d3 knows both but only d1 knows it, so that refusals happen. Three
  addresses let a device come back with the ID another one had, and a fourth
  ends in 1, so that `getIPAddress` passes it over.
  `MaxBacklog` of two holds every Sender that can be there at once. One device
  moves while its start page is shown: it can lose its address to another that
  comes back with it, and two devices then show one ID.

### Fairness

`FairSpec` is weakly fair to the slots of each device (`SenderHandlers`,
`ReceiverHandlers`, and in `Rendezvous` `SenderSlots` and `ReceiverSlots` of each
device): Qt's event loop delivers a pending event. Nothing is
assumed of users, of the timers or of the network's faults. That a
message in a channel is an event rests on Qt: each slot writes at most one
message; `QSslSocket::write` queues what it takes, and the encryption that turns
the queue into a record is the next thing the event loop does; and `readyRead()`
is emitted for what is decrypted of each record. `PacketTransfer` makes this
explicit (`Write` is a record of its own) and is weakly fair to arrivals and to
the Sender's handlers; `NothingLeftBehind` then shows that one message for each
`readyRead()` is enough. Two events that reach the Sender before its queue is
encrypted, two clicks handled together, say, would put two messages into one
record, of which one `readyRead()` reads the first only. The model leaves that out.

## Proofs

Every theorem holds for all values of the constants that the named assumptions
of the modules admit (`ConstantsAssumption`, `NoFileAssumption`,
`ReceiverAssumption`, `RendezvousAssumption`, `DeviceListAssumption`,
`StorageAssumption`, `MessengerAssumption`, `PacketTransferAssumption`): the
constants have their types and the special values are no ordinary ones.
`WidthsAssumption` of `Messenger` adds the order of the code's limits, which
2^8 values of a byte and packets of 300 KiB have. What a theorem needs beyond
that is the ASSUME it states.

| Theorems | Needs | Properties |
|---|---|---|
| `LuminT_proofs` | nothing | `TypeOK`, `KeyVerification`, `ServerConsistent`, `TimersStopWithHandshake`, `StartPageIsIdle`, `SessionsOpenInOrder` |
| `Handshake_proofs` | nothing | `SessionEndsQuietly` |
| `Session_proofs` | `Calm` | `OneRequestAtATime`, `StreamInSync`, `RowsFollowTransfer`, `PopupHoldsTransfer` |
| `Files_proofs` | `Traceable` | `FileDelivered`, `CompletedFilesIntact`, `NoOrphans`, `ResumePointExact`, `ForeignFilesKept`, `CancelledStaysDeleted` |
| | `Calm`, `Undisturbed` | `TransferHasReceiver` |
| `Storage_proofs` | nothing | `TypeOK`, `ViewMirrorsList` |
| | `ConfSpared` | `ListSurvivesRestart`, `OwnKeyForLife` |
| | `UnrecordedOnly` | `RecordComesBack` |
| `PacketTransfer_proofs` | `WithinInt` | `TypeOK`, `FileArrivesWhole`, `TextsArrive`, `NothingLeftBehind` |
| `Rendezvous_proofs` | nothing | `TypeOK`, `OneSenderAtATime`, `ReachesIDShown` |
| | `MovesEarly` | `WaitingIsReachable` |

No run's property is an invariant that is inductive by itself; the following says
what had to be added, and why.

### Connection and handshake

`IInv` of `LuminT_proofs` adds:

* `FileInv`: while a file is open a transfer is under way, its path is real and
  the file is on the disk. Without it the type of `disk` is lost when a packet is
  appended, and that of a record when a transfer is saved.
* `SenderInv` and `ReceiverInv`: for each state of an end, the page it shows, the
  timer, and the state of the connection. `conn = "accepted"` forces both ends
  into handshake or session; that is why a timer cannot meet the wrong state and
  why `stopServer` never meets a null socket.
* `KeyInv`: what the messages in flight say. A `DEVICE_KEY` on its way to the
  Sender means that the Receiver knows the Sender's key, a `DEVICE_KEY_OK` that
  the Sender has opened its page. Key verification follows as they arrive.

`PairingImplemented` shows that `LuminT` refines `Pairing`: `IInv` implies the
abstract guards, `SessionSteps` maps every step that does not touch the lists of
keys to a step of `Pairing` or a stutter, and `RegistrationSteps` shows that a
list is edited only while nobody is in a session.

`HInv` of `Handshake_proofs` adds to `IInv` how the exchange of keys lies among
the other messages. `KeyPhase`: a message of the exchange is alone on the wire and
neither session page is open, except that `DEVICE_KEY_OK` may have texts and a
file behind it, and then comes first, with the Sender's page open. `EndsPhase`: an
end that shows its session is encrypted, and one that has turned its peer away
has nothing to read and an `ERROR` under way. So whatever is read in a session, `ERROR`
is not, and `stopServer` and `socketDisconnected` run only from `ENCRYPTED`. This
holds under every liberty, a killed application included, because it speaks of
the handshake only.

### Session

`SInv` of `Session_proofs` adds to `IInv` what the two ends know of each other:

* `ChannelInv`: the ends speak in turn; only a pause may have another message to
  the Sender behind it, nothing follows `FILE_INFO`, a packet is alone
  (`SenderShape`, `ReceiverShape`); the packet or the request on the wire has the
  number the Receiver is at.
* `TalkInv`: what each kind of message, while under way, says of both message
  states, pages, popups and records.
* `HeldInv`: what the Receiver holds, in memory, in its record or in a popup, is
  what the Sender offers, of the same size, with a packet left to ask for.
* `LiveInv`: on a live connection, a packet that is awaited is asked for or on its
  way. This is the half of `OneRequestAtATime` that no request is lost.
* `EndsInv`: what each end knows by itself, `StreamInSync` and
  `RowsFollowTransfer` among it.

`Calm` leaves out a killed application, which has recorded nothing while its peer
has, so that the two begin the next session in different states; and the two
kinds of Cancel that the runs `CancelPausing` and `CancelSaved` show to break the
agreement.

### Files

`DInv` of `Files_proofs` adds to `SInv` and `HInv`:

* `DiskInv`: the file under way holds exactly the packets before the one the
  transfer, or its record, stands at (`Image`).
* `NameInv` and `PlaceInv`: what the Receiver holds has the name of what is
  offered; and where the record says the file is, it is, unless files are renamed
  or folders changed.
* `QuietInv`: if nobody leaves a session, nothing is ever recorded, and the Sender
  is in a transfer only as long as the Receiver is (`TransferShared`).
* `Promise`: what `FileDelivery` promises of the disk.

The argument is the refinement's. Every step of `LuminT` is a `DeliveryStep`:
`BeginFile`, `StoreFile`, `DeliverFile`, `DropFile`, or it leaves disk, file under
way and deliveries alone. `DeliverySteps` maps these to the steps of
`FileDelivery`, `PromiseKept` shows that they keep the promise, and
`ForeignFilesKept` and `CancelledStaysDeleted` follow from their form.

`Traceable` is `Calm`, no failing disk, and one of two things: sessions that nobody
leaves (`Undisturbed`, as in the run `Users`) or files that stay under the name
and in the folder they were announced with (`InPlace`, as in `Transfers`). A
failing disk loses packets unnoticed; and a record names the folder shown last
and the name the Sender gave, not the place of the file, so that a renamed
transfer that is cut goes astray (run `RenameResume`).

### Device list and records

`FlattenSeq`, with which `writeDeviceItems` is modelled, is defined recursively, so
its lemmas need induction. `Inductive` in `DeviceList_proofs` states it for a set
of numbers, from the well-foundedness of the naturals. With `Holds(file, keys)`,
the file has the keys' characters in their places, `FlattenHolds` says that the
file written holds the keys, and `LinesOfKeys` that a file that holds them is read
back as them. On this rest:

* `ListInv`: rows have their sequence numbers and types, and the page's rows are
  the list's.
* `ConfInv`: outside of a writing, `lumint.conf` does not exist yet, or holds the
  own key and the keys last written. It needs `ConfSpared`: LuminT is not killed
  while it writes that file, which it has emptied by opening it.

`Storage_proofs` adds, for `RecordComesBack`:

* `SavedInv`: the record files are `left`, but for the one that is being written,
  which will be.
* `TodoInv`: each rewriting in the queue is about the peer its object is with, or,
  of a session long over, changes nothing.
* `SessionInv` and `MemoryInv`: the object in a session is with that peer; what
  an object without a session still remembers is what it left behind, or is the
  next thing to be written. Without it a suspension, which saves what the
  object remembers, could bring back a transfer long finished.

`UnrecordedOnly` leaves out a recorded transfer that is cancelled, whose record
stays (`CancelSaved`). `RecordsComeBack` lets LuminT be killed anywhere, in the
middle of a record file too: `SavedInv` says that the open file is empty, which is
what `Kill` enters in `left`. `TypeCorrect` and `PageShowsList` assume nothing.

### Rendezvous

The inductive invariant adds `Bookkeeping`: a listener is open only on the waiting
page and before a connection was taken, a Sender that is not connected has no
connection, and a connection leads to a device that runs and whose ID is the one
typed. The last is what keeps a session with the right device although addresses
are handed on: a device that restarts with a new ID has lost its connections
first. `LeavingKeeps` treats at once the six actions by which a device leaves its
page and drops its connections. `WaitingReceiversReachable` needs `MovesEarly`,
which lets an address change between runs and behind the start page, but not
once the Receiver waits at it. With `Current`, a running LuminT has the address it
read, unless it may have changed meanwhile.

### Packets

`FrameReadBack` and `PacketReadBack` are the two lemmas about the formats: of the
beginning of a frame nothing is read until it is the whole frame, and then the
identifier and content, or the packet, are those written, with nothing left over.
They rest on `TwoBytesRead` and `FourBytesRead`: a number that fits its bytes is
read as it was written. `FromBytes` is a fold, defined by recursion, but over two
or four bytes only: `FoldsNext` shows that the recursive function over one
byte more exists, and four uses of it replace an induction.

`PInv` of `PacketTransfer_proofs` is then:

* `StreamInv`: only bytes of a record under way are delivered and unread.
  `Pending` joins them with those to come into the first frame: a piece that
  arrives (`PieceStays`) changes no frame, only where its bytes are.
* `TextsInv` and `NumbersInv`: types, widths, and the texts shown so far.
* `PhaseInv`: for each point of a transfer (`Idle`, `Announced`, `Asked`,
  `Answered`, `Delivered`) the frames under way, what the two ends remember and
  what the Receiver's file holds. `Asked` and `Answered` say that the packet is
  the one the Receiver is at, so that the number of bytes it expects is the
  number that comes (`PacketData`), although no packet says how long it is.

`WithinInt` leaves out files with a packet that starts past `INT_MAX`, that is,
files above 2 GiB: there `seek()` may fail, and the file arrives wrong (run
`BeyondInt`).

### Only model-checked

* The liveness properties `HandshakeEnds`, `TransferEnds`, `CancelEnds`,
  `ConnectionSettled` and `TransferCompletes`: liveness under fairness is outside
  what TLAPS proves, as is ENABLED.
* The violations, which are TLC's counterexamples.

## Plan

Done: all the models; every safety property and every refinement that a passing
run checks, proved. Next, what the theorems leave open:

1. `TransferHasReceiver` with sessions that are left: what has to hold of the two
   records for the Sender not to be in a transfer alone.
2. The handshake of `Rendezvous` related to that of `LuminT` step by step, instead
   of by the argument given above.

## Not modelled

* The failure of `setSocketDescriptor` or of the certificate's resource.
* Back behind the popup that a Receiver started without a network shows:
  `Rendezvous` has the popup's one button, which ends LuminT.
* What is read after a `Misread`: the code goes on parsing bytes that mean nothing.
* Errors of a socket other than refusal, in `Rendezvous` (`LuminT` has them).
  Dialling an ID nobody has is modelled: the waiting page dials for ever.
* Two messages in one TLS record, see "Fairness".
* A kill inside `writeDeviceItems`, in the run `Storage` and in the theorems on the
  list and the own key (`ConfSpared`): it loses both.
* A device that is Sender and Receiver at once: the pages do not allow it.
* The Sender's file changing or vanishing during a transfer.
* Progress, layout, texts of messages, the clipboard, permissions, TLS itself.
