----------------------------- MODULE DeviceList -----------------------------
(***************************************************************************)
(* The list of recognised devices: class RegisterDeviceList                *)
(* (modules/qml/register_device_list.cpp), edited on RegisterPage through  *)
(* RegisterDeviceModel and kept in lumint.conf across runs of LuminT.  The *)
(* page's ListView has its own copy of the rows, which follows the list    *)
(* only as far as the model announces what changes.                        *)
(* lumint.conf is this device's key followed by the others', with nothing  *)
(* in between, so the model keeps keys as sequences of characters.         *)
(***************************************************************************)
EXTENDS Naturals, SequencesExt

CONSTANTS
  Char,      \* the characters RegisterPage's validator lets through
  KeySize,   \* DEVICE_KEY_SIZE
  OwnKey,    \* the keys generateConf may draw from a fresh UUID
  Typed,     \* what users type into the row for new keys
  MaxItems,  \* bound: rows of the list, the row for new keys included
  MaxSeq,    \* bound: insertions in a run of LuminT
  KilledIn,  \* the phases in which LuminT may be killed
  NoConf     \* lumint.conf does not exist

\* The process: not running, running, inside writeDeviceItems, or inside the
\* rewriting of a transfer record (module Storage).
Phase == {"stopped", "running", "suspending", "closing", "recording"}
Text == BoundedSeq(Char, KeySize)

ASSUME DeviceListAssumption ==
  /\ KeySize \in Nat \ {0}
  /\ OwnKey \subseteq {k \in Text : Len(k) = KeySize}
  /\ Typed \subseteq Text
  /\ MaxItems \in Nat
  /\ MaxSeq \in Nat
  /\ KilledIn \subseteq Phase
  /\ NoConf \notin Seq(Char)

VARIABLES
  phase,        \* where the process is, see Phase
  deviceItems,  \* RegisterDeviceList::deviceItems; the first row takes new keys
  seq,          \* insertItem's static seq
  thisKey,      \* RegisterDeviceList::thisKey
  view,         \* the rows RegisterPage shows, <<>> when the page is not open
  conf,         \* the content of lumint.conf
  written       \* history: the keys of the last list written to it

listVars == <<phase, deviceItems, seq, thisKey, view, conf, written>>

NewKeyRow == [deviceKey |-> <<>>, seq |-> 0]
Keys == [i \in 1 .. Len(deviceItems) - 1 |-> deviceItems[i + 1].deviceKey]

ListTypeOK ==
  /\ phase \in Phase
  /\ deviceItems \in Seq([deviceKey : Text, seq : Nat]) /\ deviceItems # <<>>
  /\ view \in Seq([deviceKey : Text, seq : Nat])
  /\ seq \in Nat
  /\ thisKey \in Text
  /\ conf \in Seq(Char) \union {NoConf}
  /\ written \in Seq(Text)

ListInit ==
  /\ phase = "stopped"
  /\ deviceItems = <<NewKeyRow>>
  /\ seq = 0
  /\ thisKey = <<>>
  /\ view = <<>>
  /\ conf = NoConf
  /\ written = <<>>

-----------------------------------------------------------------------------
\* Mutant: pieces of DEVICE_KEY_SIZE + 1 characters.
LinesOneLonger(file) ==
  [i \in 1 .. (Len(file) + KeySize) \div (KeySize + 1) |->
     SubSeq(file, (i - 1) * (KeySize + 1) + 1, Min({i * (KeySize + 1), Len(file)}))]

\* readLine(DEVICE_KEY_SIZE + 1) until the end: pieces of KeySize characters.
Lines(file) ==
  [i \in 1 .. (Len(file) + KeySize - 1) \div KeySize |->
     SubSeq(file, (i - 1) * KeySize + 1, Min({i * KeySize, Len(file)}))]

\* generateConf and readDeviceItems at start.  What readLine leaves in thisKey
\* of an empty file is the empty key.
Launch(key) ==
  /\ phase = "stopped"
  /\ phase' = "running"
  /\ conf' = IF conf = NoConf THEN key ELSE conf
  /\ LET lines == Lines(conf') IN
       /\ thisKey' = IF lines = <<>> THEN <<>> ELSE lines[1]
       /\ deviceItems' = <<NewKeyRow>> \o
            [i \in 1 .. Len(lines) - 1 |-> [deviceKey |-> lines[i + 1], seq |-> i]]
  /\ seq' = 0
  /\ UNCHANGED <<view, written>>

-----------------------------------------------------------------------------
(* RegisterPage.  Delegate row i of its ListView holds what the model's    *)
(* data() said of item i - 1 when the row was made or announced changed.   *)

\* What rowCount() and data() say of the list.
Rows == deviceItems

\* StartPage's button: the new page's model is given the list, and resets.
OpenPage ==
  /\ phase = "running"
  /\ view = <<>>
  /\ view' = Rows
  /\ UNCHANGED <<phase, deviceItems, seq, thisKey, conf, written>>

\* The back button or key destroys the page and its model.
ClosePage ==
  /\ phase = "running"
  /\ view # <<>>
  /\ view' = <<>>
  /\ UNCHANGED <<phase, deviceItems, seq, thisKey, conf, written>>

SetItemAt(i, text) == deviceItems' = [deviceItems EXCEPT ![i].deviceKey = text]

\* Editing of the first row is finished: setData, setItemAt and dataChanged.
EnterKey(text) ==
  /\ phase = "running"
  /\ view # <<>>
  /\ SetItemAt(1, text)
  /\ view' = [view EXCEPT ![1].deviceKey = text]
  /\ UNCHANGED <<phase, seq, thisKey, conf, written>>

\* Mutant: a key of any length is taken.
CheckOwnKeyOnly == deviceItems[1].deviceKey # thisKey

CheckNewDeviceKey ==
  /\ Len(deviceItems[1].deviceKey) \in {0, KeySize}
  /\ deviceItems[1].deviceKey # thisKey

\* Mutant: the insertion is announced one row too far up.
ShowInsertedFirst ==
  view' = <<deviceItems'[1]>> \o [view EXCEPT ![1].deviceKey = <<>>]

\* preItemInserted(1) and postItemInserted(), after which the page clears its
\* text field: nothing announces that the list's first item was cleared.
ShowInserted ==
  view' = InsertAt([view EXCEPT ![1].deviceKey = <<>>], 2, deviceItems'[2])

\* The + button.
InsertItem ==
  /\ phase = "running"
  /\ view # <<>>
  /\ CheckNewDeviceKey
  /\ deviceItems[1].deviceKey # <<>>
  /\ Len(deviceItems) < MaxItems /\ seq < MaxSeq
  /\ seq' = seq + 1
  /\ deviceItems' = <<NewKeyRow, [deviceKey |-> deviceItems[1].deviceKey, seq |-> seq + 1]>>
                      \o Tail(deviceItems)
  /\ ShowInserted
  /\ UNCHANGED <<phase, thisKey, conf, written>>

\* The - button of a row of the view: the first item with the row's sequence
\* number goes, and its row with it.
RemoveItem(row) ==
  /\ phase = "running"
  /\ LET i == SelectInSeq(deviceItems, LAMBDA item : item.seq = view[row].seq) IN
       /\ deviceItems' = RemoveAt(deviceItems, i)
       /\ view' = RemoveAt(view, i)
  /\ UNCHANGED <<phase, seq, thisKey, conf, written>>

-----------------------------------------------------------------------------
(* The end of a run of LuminT.                                             *)

\* writeDeviceItems, when Android suspends LuminT or the list is destroyed at
\* exit.  Opening the file empties it; what is written reaches it at close.
OpenConf(state) ==
  /\ phase = "running"
  /\ phase' = state
  /\ conf' = <<>>
  /\ view' = IF state = "closing" THEN <<>> ELSE view
  /\ UNCHANGED <<deviceItems, seq, thisKey, written>>

\* Mutant: this device's key goes last.
OwnKeyLast ==
  /\ phase \in {"suspending", "closing"}
  /\ phase' = IF phase = "suspending" THEN "running" ELSE "stopped"
  /\ conf' = FlattenSeq(Keys) \o thisKey
  /\ written' = Keys
  /\ UNCHANGED <<deviceItems, seq, thisKey, view>>

CloseConf ==
  /\ phase \in {"suspending", "closing"}
  /\ phase' = IF phase = "suspending" THEN "running" ELSE "stopped"
  /\ conf' = thisKey \o FlattenSeq(Keys)
  /\ written' = Keys
  /\ UNCHANGED <<deviceItems, seq, thisKey, view>>

Crash ==
  /\ phase \in KilledIn \ {"stopped"}
  /\ phase' = "stopped"
  /\ view' = <<>>
  /\ UNCHANGED <<deviceItems, seq, thisKey, conf, written>>

\* What the user does on RegisterPage.
EditList ==
  \/ OpenPage
  \/ ClosePage
  \/ \E text \in Typed : EnterKey(text)
  \/ InsertItem
  \/ \E row \in 2 .. Len(view) : RemoveItem(row)

ListNext ==
  \/ \E key \in OwnKey : Launch(key)
  \/ EditList
  \/ \E state \in {"suspending", "closing"} : OpenConf(state)
  \/ CloseConf
  \/ Crash

ListSpec == ListInit /\ [][ListNext]_listVars

-----------------------------------------------------------------------------
\* Every row RegisterPage shows is the item of the list at the same place,
\* whatever was typed, added and removed since the page was opened: the button
\* of a row carries the row's sequence number into removeItem, and a number
\* that is no longer in the list would have it erase past the end.
ViewMirrorsList == view # <<>> => view = Rows

\* LuminT recognises, when it starts, exactly the keys that were registered
\* when it last wrote the list, in the same order (readDeviceItems,
\* writeDeviceItems).
ListSurvivesRestart ==
  [][phase = "stopped" /\ phase' = "running" => Keys' = written]_listVars

\* "first key is our key" (readDeviceItems): a device keeps for good the key
\* the others have registered.
OwnKeyForLife ==
  [][thisKey # <<>> => thisKey' = thisKey]_listVars

\* "Find the item that has the sequence number corresponding with the sequence
\* number of the button clicked" (removeItem): the row whose button is clicked
\* is the row that goes.
ClickedRowGoes ==
  [][\A row \in 2 .. Len(deviceItems) :
       row <= Len(view) /\ RemoveItem(row) => deviceItems' = RemoveAt(deviceItems, row)]_listVars
=============================================================================
