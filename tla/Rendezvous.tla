----------------------------- MODULE Rendezvous -----------------------------
(***************************************************************************)
(* How several devices on one network find each other: a Receiver listens  *)
(* at the address it had when LuminT started and shows its last digits as  *)
(* an ID; Senders connect to the ID their users type, in competition; the  *)
(* Receiver serves the first and turns the others away (receiver.cpp,      *)
(* sender.cpp and the waiting pages).  Module LuminT has what follows      *)
(* between two devices in detail; here the handshake is cut down to the    *)
(* steps that decide who is served.                                        *)
(***************************************************************************)
EXTENDS Naturals, SequencesExt

CONSTANTS
  Device,
  SendsFrom, ReceivesAt,  \* where users press Send, and where they press Receive
  ID,                     \* the last numbers of the addresses the network gives out
  PassedOver,             \* those getIPAddress takes for a gateway's
  Trusts,                 \* Trusts[d]: the devices whose keys d has registered
  MovesOn,                \* MovesOn[d]: the pages during which d's address may change
  MaxBacklog,             \* bound: connections a listener has not accepted
  NoID, NoDevice

Page == {"off", "start", "noNetwork", "senderWaiting", "receiverWaiting", "sender", "receiver",
         "error", "unrecognized"}
ClientState == {"DISCONNECTED", "CONNECTING", "CONNECTED", "ENCRYPTED", "UNRECOGNIZED"}
ServerState == {"ERROR", "DISCONNECTED", "CONNECTING", "ENCRYPTING", "ENCRYPTED", "UNRECOGNIZED"}

ASSUME RendezvousAssumption ==
  /\ SendsFrom \subseteq Device /\ ReceivesAt \subseteq Device
  /\ Trusts \in [Device -> SUBSET Device]
  /\ PassedOver \subseteq ID
  /\ MovesOn \in [Device -> SUBSET Page]
  /\ MaxBacklog \in Nat
  /\ NoID \notin ID /\ NoDevice \notin Device

VARIABLES
  address,        \* the device's address on the network
  page,           \* the page on top of the window's stack, "off" if LuminT is not running
  thisID,         \* Receiver::thisID, and with it Receiver::ipAddress
  clientState,    \* Sender::clientState
  peerIPAddress,  \* Sender::peerIPAddress
  to,             \* the device at the other end of clientSocket's connection
  serverState,    \* Receiver::serverState
  listening,      \* QTcpServer::isListening()
  backlog,        \* the connections the listener has not accepted, dead ones as NoDevice
  serving         \* the device whose connection serverSocket holds

senderVars == <<clientState, peerIPAddress, to>>
receiverVars == <<thisID, serverState, listening, backlog, serving>>
vars == <<address, page, senderVars, receiverVars>>

TypeOK ==
  /\ address \in [Device -> ID \union {NoID}]
  /\ page \in [Device -> Page]
  /\ thisID \in [Device -> ID \union {NoID}]
  /\ clientState \in [Device -> ClientState]
  /\ peerIPAddress \in [Device -> ID \union {NoID}]
  /\ to \in [Device -> Device \union {NoDevice}]
  /\ serverState \in [Device -> ServerState]
  /\ listening \in [Device -> BOOLEAN]
  /\ backlog \in [Device -> Seq(Device \union {NoDevice})]
  /\ serving \in [Device -> Device \union {NoDevice}]

Init ==
  /\ address \in [Device -> ID \union {NoID}]
  /\ \A d, e \in Device : address[d] = address[e] /\ address[d] # NoID => d = e
  /\ page = [d \in Device |-> "off"]
  /\ thisID = [d \in Device |-> NoID]
  /\ clientState = [d \in Device |-> "DISCONNECTED"]
  /\ peerIPAddress = [d \in Device |-> NoID]
  /\ to = [d \in Device |-> NoDevice]
  /\ serverState = [d \in Device |-> "DISCONNECTED"]
  /\ listening = [d \in Device |-> FALSE]
  /\ backlog = [d \in Device |-> <<>>]
  /\ serving = [d \in Device |-> NoDevice]

\* Every connection d has goes down, and waits as a dead one in a backlog.
BreakConnections(d) ==
  /\ to' = [s \in Device |-> IF s = d \/ to[s] = d THEN NoDevice ELSE to[s]]
  /\ backlog' = [r \in Device |-> IF r = d THEN <<>> ELSE ReplaceAll(backlog[r], d, NoDevice)]

\* abort() of d's client socket, closing of its listener and server socket.
Disconnect(d) ==
  /\ BreakConnections(d)
  /\ listening' = [listening EXCEPT ![d] = FALSE]
  /\ serving' = [serving EXCEPT ![d] = NoDevice]

\* The page that the signal of a connection that ends in the given state opens.
PageAfter(state) ==
  CASE state = "UNRECOGNIZED" -> "unrecognized"
    [] state \in {"CONNECTED", "ERROR"} -> "error"
    [] OTHER -> "start"

-----------------------------------------------------------------------------
(* The application and the network.                                        *)

\* getIPAddress(), at either end of a connection.
GetIPAddress(d) == IF address[d] \in PassedOver THEN NoID ELSE address[d]

\* setup(): without an address the Receiver is in ERROR.
Setup(d) ==
  /\ thisID' = [thisID EXCEPT ![d] = GetIPAddress(d)]
  /\ serverState' =
       [serverState EXCEPT ![d] = IF GetIPAddress(d) = NoID THEN "ERROR" ELSE "DISCONNECTED"]

\* main() and main.qml's onCompleted, whose popup has no way out but to quit.
Launch(d) ==
  /\ page[d] = "off"
  /\ Setup(d)
  /\ page' = [page EXCEPT ![d] = IF thisID'[d] = NoID THEN "noNetwork" ELSE "start"]
  /\ UNCHANGED <<address, senderVars, listening, backlog, serving>>

\* The window is closed: ~Receiver and ~Sender, and the two are gone.
Quit(d) ==
  /\ page[d] # "off"
  /\ page' = [page EXCEPT ![d] = "off"]
  /\ clientState' = [clientState EXCEPT ![d] = "DISCONNECTED"]
  /\ serverState' = [serverState EXCEPT ![d] = "DISCONNECTED"]
  /\ thisID' = [thisID EXCEPT ![d] = NoID]
  /\ peerIPAddress' = [peerIPAddress EXCEPT ![d] = NoID]
  /\ Disconnect(d)
  /\ UNCHANGED address

\* The network gives the device another address, or none: its connections
\* break, and a listener stays bound to the address that is gone.
Move(d, id) ==
  /\ page[d] \in MovesOn[d]
  /\ id \in {address[e] : e \in Device} => id = NoID
  /\ address' = [address EXCEPT ![d] = id]
  /\ BreakConnections(d)
  /\ UNCHANGED <<page, thisID, clientState, peerIPAddress, serverState, listening, serving>>

\* disconnectFromReceiver(), stopServer() and pop(null).
Back(d) ==
  /\ page[d] \notin {"off", "start", "noNetwork"}
  /\ page' = [page EXCEPT ![d] = "start"]
  /\ clientState' = [clientState EXCEPT ![d] = "DISCONNECTED"]
  /\ serverState' = [serverState EXCEPT ![d] = "DISCONNECTED"]
  /\ Disconnect(d)
  /\ UNCHANGED <<address, thisID, peerIPAddress>>

-----------------------------------------------------------------------------
(* The Receiver.                                                           *)

\* StartPage's Receive button; startServer fails if the address is gone, and
\* the page shows the ID all the same.
StartServer(r) ==
  /\ page[r] = "start"
  /\ page' = [page EXCEPT ![r] = "receiverWaiting"]
  /\ listening' = [listening EXCEPT ![r] = address[r] = thisID[r]]
  /\ serverState' = [serverState EXCEPT ![r] = IF listening'[r] THEN "CONNECTING" ELSE @]
  /\ UNCHANGED <<address, thisID, senderVars, backlog, serving>>

\* Mutant: the listener is not closed.
CloseLater(r) ==
  /\ backlog' = [backlog EXCEPT ![r] = Tail(@)]
  /\ UNCHANGED <<listening, to>>

\* close() resets what waits behind the connection that is being taken.
Close(r) ==
  /\ backlog' = [backlog EXCEPT ![r] = <<>>]
  /\ listening' = [listening EXCEPT ![r] = FALSE]
  /\ to' = [s \in Device |-> IF to[s] = r /\ s # Head(backlog[r]) THEN NoDevice ELSE to[s]]

\* incomingConnection.
IncomingConnection(r) ==
  /\ listening[r]
  /\ backlog[r] # <<>>
  /\ Close(r)
  /\ serving' = [serving EXCEPT ![r] = Head(backlog[r])]
  /\ serverState' = [serverState EXCEPT ![r] = "ENCRYPTING"]
  /\ UNCHANGED <<address, page, thisID, clientState, peerIPAddress>>

\* Is the connection serverSocket holds up?
Connected(r) == serving[r] # NoDevice /\ to[serving[r]] = r

\* socketReady, at the Receiver.
RSocketReady(r) ==
  /\ serverState[r] = "ENCRYPTING"
  /\ Connected(r)
  /\ serverState' = [serverState EXCEPT ![r] = "ENCRYPTED"]
  /\ UNCHANGED <<address, page, thisID, senderVars, listening, backlog, serving>>

\* Mutant: a session cut during the verification of keys leaves its page.
StopServerQuietly(r, state) ==
  /\ page' = [page EXCEPT ![r] = IF state = "ENCRYPTED" THEN @ ELSE PageAfter(state)]
  /\ serverState' = [serverState EXCEPT ![r] = "DISCONNECTED"]
  /\ Disconnect(r)
  /\ UNCHANGED <<address, thisID, clientState, peerIPAddress>>

\* stopServer() in the given state.
StopServer(r, state) ==
  /\ page' = [page EXCEPT ![r] = PageAfter(state)]
  /\ serverState' = [serverState EXCEPT ![r] = "DISCONNECTED"]
  /\ Disconnect(r)
  /\ UNCHANGED <<address, thisID, clientState, peerIPAddress>>

RSocketDisconnected(r) ==
  /\ serverState[r] \in {"ENCRYPTING", "ENCRYPTED", "UNRECOGNIZED"}
  /\ ~Connected(r)
  /\ StopServer(r, IF serverState[r] = "ENCRYPTING" THEN "ERROR" ELSE serverState[r])

REncryptingTimeout(r) ==
  /\ serverState[r] = "ENCRYPTING"
  /\ StopServer(r, "ERROR")

-----------------------------------------------------------------------------
(* The Sender.                                                             *)

OpenWaitingPage(s) ==
  /\ page[s] = "start"
  /\ page' = [page EXCEPT ![s] = "senderWaiting"]
  /\ UNCHANGED <<address, senderVars, receiverVars>>

\* Mutant: the button stays enabled, and what was dialled goes on connecting.
DialAgain(s, id) ==
  /\ page[s] = "senderWaiting"
  /\ GetIPAddress(s) # NoID
  /\ peerIPAddress' = [peerIPAddress EXCEPT ![s] = id]
  /\ clientState' = [clientState EXCEPT ![s] = IF @ = "DISCONNECTED" THEN "CONNECTING" ELSE @]
  /\ UNCHANGED <<address, page, to, receiverVars>>

\* The Start button: setPeerIPAddress, which needs an address of its own to
\* put the ID in, and connectToReceiver.
Dial(s, id) ==
  /\ page[s] = "senderWaiting"
  /\ clientState[s] = "DISCONNECTED"  \* then the button is enabled
  /\ GetIPAddress(s) # NoID
  /\ peerIPAddress' = [peerIPAddress EXCEPT ![s] = id]
  /\ clientState' = [clientState EXCEPT ![s] = "CONNECTING"]
  /\ UNCHANGED <<address, page, to, receiverVars>>

\* socketConnected.  Where nobody listens the connection is refused, and
\* socketError tries again.
SocketConnected(s) ==
  /\ clientState[s] = "CONNECTING"
  /\ address[s] # NoID
  /\ \E r \in Device :
       /\ address[r] = peerIPAddress[s] /\ thisID[r] = address[r]
       /\ listening[r] /\ Len(backlog[r]) < MaxBacklog
       /\ to' = [to EXCEPT ![s] = r]
       /\ backlog' = [backlog EXCEPT ![r] = Append(@, s)]
  /\ clientState' = [clientState EXCEPT ![s] = "CONNECTED"]
  /\ UNCHANGED <<address, page, peerIPAddress, thisID, serverState, listening, serving>>

\* socketReady, at the Sender.
SSocketReady(s) ==
  /\ clientState[s] = "CONNECTED"
  /\ to[s] # NoDevice /\ serving[to[s]] = s
  /\ clientState' = [clientState EXCEPT ![s] = "ENCRYPTED"]
  /\ UNCHANGED <<address, page, peerIPAddress, to, receiverVars>>

\* Mutant: the state in which the connection was cut stays.
SLeaveKeepsState(s, state) ==
  /\ page' = [page EXCEPT ![s] = PageAfter(state)]
  /\ clientState' = [clientState EXCEPT ![s] = state]
  /\ Disconnect(s)
  /\ UNCHANGED <<address, peerIPAddress, thisID, serverState>>

\* socketDisconnected() in the given state.
SLeave(s, state) ==
  /\ page' = [page EXCEPT ![s] = PageAfter(state)]
  /\ clientState' = [clientState EXCEPT ![s] = "DISCONNECTED"]
  /\ Disconnect(s)
  /\ UNCHANGED <<address, peerIPAddress, thisID, serverState>>

SSocketDisconnected(s) ==
  /\ clientState[s] \in {"CONNECTED", "ENCRYPTED", "UNRECOGNIZED"}
  /\ to[s] = NoDevice
  /\ SLeave(s, clientState[s])

SEncryptingTimeout(s) ==
  /\ clientState[s] = "CONNECTED"
  /\ SLeave(s, "ERROR")

-----------------------------------------------------------------------------
(* Key verification, as module Pairing has it.                             *)

Verifying(s, r) ==
  /\ to[s] = r /\ serving[r] = s
  /\ clientState[s] = "ENCRYPTED" /\ serverState[r] = "ENCRYPTED"
  /\ page[r] = "receiverWaiting"

SenderOpens(s, r) ==
  /\ Verifying(s, r) /\ page[s] = "senderWaiting"
  /\ r \in Trusts[s] /\ s \in Trusts[r]
  /\ page' = [page EXCEPT ![s] = "sender"]
  /\ UNCHANGED <<address, senderVars, receiverVars>>

ReceiverOpens(s, r) ==
  /\ Verifying(s, r) /\ page[s] = "sender"
  /\ page' = [page EXCEPT ![r] = "receiver"]
  /\ UNCHANGED <<address, senderVars, receiverVars>>

\* One of them sends ERROR, and the other cuts the connection.
Refuse(s, r) ==
  /\ Verifying(s, r) /\ page[s] = "senderWaiting"
  /\ r \notin Trusts[s] \/ s \notin Trusts[r]
  /\ clientState' = [clientState EXCEPT ![s] = "UNRECOGNIZED"]
  /\ serverState' = [serverState EXCEPT ![r] = "UNRECOGNIZED"]
  /\ to' = [to EXCEPT ![s] = NoDevice]
  /\ UNCHANGED <<address, page, peerIPAddress, thisID, listening, backlog, serving>>

-----------------------------------------------------------------------------
ReceiverSlots(r) == IncomingConnection(r) \/ RSocketReady(r) \/ RSocketDisconnected(r)
SenderSlots(s) == SocketConnected(s) \/ SSocketReady(s) \/ SSocketDisconnected(s)

Next ==
  \/ \E d \in Device : Launch(d) \/ Quit(d) \/ Back(d) \/ \E id \in ID \union {NoID} : Move(d, id)
  \/ \E r \in ReceivesAt : StartServer(r)
  \/ \E s \in SendsFrom : OpenWaitingPage(s) \/ \E id \in ID : Dial(s, id)
  \/ \E r \in Device : ReceiverSlots(r) \/ REncryptingTimeout(r)
  \/ \E s \in Device : SenderSlots(s) \/ SEncryptingTimeout(s)
  \/ \E s, r \in Device : SenderOpens(s, r) \/ ReceiverOpens(s, r) \/ Refuse(s, r)

Spec == Init /\ [][Next]_vars

\* The event loop of every device runs; nothing is asked of the timers.
Fairness == \A d \in Device : WF_vars(ReceiverSlots(d)) /\ WF_vars(SenderSlots(d))

FairSpec == Spec /\ Fairness

-----------------------------------------------------------------------------
\* A Receiver has one Sender at a time, and each is at the other end of the
\* connection of the other: of any number of Senders that got through to the
\* listener, none but the one served ever sees a session.
OneSenderAtATime ==
  \A s \in Device :
    /\ clientState[s] = "ENCRYPTED" /\ to[s] # NoDevice => serving[to[s]] = s
    /\ page[s] = "receiver" /\ Connected(s) => page[serving[s]] = "sender"

\* A Sender that is in a session is with the device that shows the ID it was
\* given ("Connects to Receiver's IP via Receiver's ID", sender.hpp:24),
\* although addresses are given out anew between runs of LuminT, and a device may
\* show one that another device has by now.
ReachesIDShown ==
  \A s \in Device : page[s] = "sender" /\ to[s] # NoDevice => thisID[to[s]] = peerIPAddress[s]

\* A Receiver that shows its ID and waits can be reached at it, until it has
\* taken a connection (receiver.hpp:17 and 28), unless its address changed since
\* LuminT started: it shows the old one all the same.
WaitingIsReachable ==
  \A r \in Device : page[r] = "receiverWaiting" =>
    \/ /\ thisID[r] = address[r]
       /\ IF serverState[r] = "CONNECTING" THEN listening[r]
          ELSE serverState[r] \in {"ENCRYPTING", "ENCRYPTED", "UNRECOGNIZED"}
    \/ "start" \in MovesOn[r] /\ thisID[r] # address[r]

\* A Sender that got through to a listener is told what became of it, also
\* when another was served, or the Receiver left.
ConnectionSettled ==
  \A s \in Device : clientState[s] = "CONNECTED" ~> clientState[s] # "CONNECTED"
=============================================================================
