-------------------------- MODULE Rendezvous_proofs --------------------------
(***************************************************************************)
(* Theorems about Rendezvous, for any number of devices and addresses.     *)
(***************************************************************************)
EXTENDS Rendezvous, TLAPS

\* What the session invariants rest on: a listener is open only on the waiting
\* page, before a connection was taken; a Sender that is not connected has no
\* connection; and a connection leads to a running device that was given the
\* ID typed.
Bookkeeping ==
  \A d \in Device :
    /\ listening[d] => page[d] = "receiverWaiting" /\ serverState[d] = "CONNECTING"
    /\ clientState[d] \in {"DISCONNECTED", "CONNECTING"} => to[d] = NoDevice
    /\ page[d] = "off" => clientState[d] = "DISCONNECTED"
    /\ page[d] = "sender" => clientState[d] \in {"ENCRYPTED", "UNRECOGNIZED"}
    /\ to[d] # NoDevice => page[to[d]] # "off" /\ thisID[to[d]] = peerIPAddress[d]

IInv == TypeOK /\ Bookkeeping /\ OneSenderAtATime

-----------------------------------------------------------------------------
(* Types.                                                                  *)

\* Every initial state is typed.
LEMMA InitType == Init => TypeOK
  BY DEF Init, TypeOK, Page, ClientState, ServerState

\* Replacing an element of a sequence by another leaves a sequence.
LEMMA ReplaceType ==
  ASSUME NEW S, NEW q \in Seq(S), NEW old, NEW new \in S
  PROVE  ReplaceAll(q, old, new) \in Seq(S)
<1>1. Len(q) \in Nat /\ \A i \in 1 .. Len(q) : q[i] \in S
  OBVIOUS
<1>2. ReplaceAll(q, old, new) \in [1 .. Len(q) -> S]
  BY <1>1 DEF ReplaceAll
<1> QED BY <1>1, <1>2

\* Breaking connections leaves channels and backlogs of their types.
LEMMA BreakType ==
  ASSUME TypeOK, NEW d \in Device, BreakConnections(d)
  PROVE  /\ to' \in [Device -> Device \union {NoDevice}]
         /\ backlog' \in [Device -> Seq(Device \union {NoDevice})]
<1>1. to' \in [Device -> Device \union {NoDevice}]
  BY DEF TypeOK, BreakConnections
<1>2. \A r \in Device :
        (IF r = d THEN <<>> ELSE ReplaceAll(backlog[r], d, NoDevice))
          \in Seq(Device \union {NoDevice})
  <2> SUFFICES ASSUME NEW r \in Device
               PROVE  (IF r = d THEN <<>> ELSE ReplaceAll(backlog[r], d, NoDevice))
                        \in Seq(Device \union {NoDevice})
    OBVIOUS
  <2>1. backlog[r] \in Seq(Device \union {NoDevice})
    BY DEF TypeOK
  <2>2. ReplaceAll(backlog[r], d, NoDevice) \in Seq(Device \union {NoDevice})
    BY <2>1, ReplaceType
  <2> QED BY <2>2
<1>3. backlog' \in [Device -> Seq(Device \union {NoDevice})]
  <2> DEFINE B(r) == IF r = d THEN <<>> ELSE ReplaceAll(backlog[r], d, NoDevice)
  <2>1. \A r \in Device : B(r) \in Seq(Device \union {NoDevice})
    BY <1>2
  <2>2. backlog' = [r \in Device |-> B(r)]
    BY DEF BreakConnections
  <2> HIDE DEF B
  <2> QED BY <2>1, <2>2
<1> QED BY <1>1, <1>3

\* So does closing everything a device has open.
LEMMA DisconnectType ==
  ASSUME TypeOK, NEW d \in Device, Disconnect(d)
  PROVE  /\ to' \in [Device -> Device \union {NoDevice}]
         /\ backlog' \in [Device -> Seq(Device \union {NoDevice})]
         /\ listening' \in [Device -> BOOLEAN]
         /\ serving' \in [Device -> Device \union {NoDevice}]
  BY BreakType DEF TypeOK, Disconnect

\* What stopServer and socketDisconnected leave of the types.
LEMMA LeaveType ==
  ASSUME TypeOK, NEW d \in Device, NEW state \in ClientState \union ServerState,
         StopServer(d, state) \/ SLeave(d, state)
  PROVE  TypeOK'
  BY DisconnectType DEF TypeOK, StopServer, SLeave, PageAfter, Page, ServerState, ClientState

\* Every step leaves a typed state.
LEMMA NextType == TypeOK /\ [Next]_vars => TypeOK'
<1> SUFFICES ASSUME TypeOK, [Next]_vars PROVE TypeOK'
  OBVIOUS
<1>1. ASSUME NEW d \in Device, Launch(d) PROVE TypeOK'
  BY <1>1 DEF TypeOK, Launch, Setup, GetIPAddress, Page, ServerState, senderVars
<1>2. ASSUME NEW d \in Device, Quit(d) \/ Back(d) PROVE TypeOK'
  BY <1>2, DisconnectType DEF TypeOK, Quit, Back, Page, ClientState, ServerState
<1>3. ASSUME NEW d \in Device, NEW id \in ID \union {NoID}, Move(d, id) PROVE TypeOK'
  BY <1>3, BreakType DEF TypeOK, Move
<1>4. ASSUME NEW r \in Device, StartServer(r) PROVE TypeOK'
  BY <1>4 DEF TypeOK, StartServer, Page, ServerState, senderVars
<1>5. ASSUME NEW r \in Device, IncomingConnection(r) PROVE TypeOK'
  <2>1. Head(backlog[r]) \in Device \union {NoDevice}
    BY <1>5 DEF TypeOK, IncomingConnection
  <2>2. /\ backlog' \in [Device -> Seq(Device \union {NoDevice})]
        /\ listening' \in [Device -> BOOLEAN]
        /\ to' \in [Device -> Device \union {NoDevice}]
    BY <1>5 DEF TypeOK, IncomingConnection, Close
  <2> QED BY <1>5, <2>1, <2>2 DEF TypeOK, IncomingConnection, ServerState
<1>6. ASSUME NEW r \in Device, RSocketReady(r) PROVE TypeOK'
  BY <1>6 DEF TypeOK, RSocketReady, ServerState, senderVars
<1>7. ASSUME NEW r \in Device, RSocketDisconnected(r) \/ REncryptingTimeout(r) PROVE TypeOK'
  BY <1>7, LeaveType DEF RSocketDisconnected, REncryptingTimeout, ServerState
<1>8. ASSUME NEW s \in Device, OpenWaitingPage(s) PROVE TypeOK'
  BY <1>8 DEF TypeOK, OpenWaitingPage, Page, senderVars, receiverVars
<1>9. ASSUME NEW s \in Device, NEW id \in ID, Dial(s, id) PROVE TypeOK'
  BY <1>9 DEF TypeOK, Dial, ClientState, receiverVars
<1>10. ASSUME NEW s \in Device, SocketConnected(s) PROVE TypeOK'
  <2>1. PICK r \in Device : /\ to' = [to EXCEPT ![s] = r]
                            /\ backlog' = [backlog EXCEPT ![r] = Append(@, s)]
    BY <1>10 DEF SocketConnected
  <2>2. backlog' \in [Device -> Seq(Device \union {NoDevice})]
    BY <2>1 DEF TypeOK
  <2> QED BY <1>10, <2>1, <2>2 DEF TypeOK, SocketConnected, ClientState
<1>11. ASSUME NEW s \in Device, SSocketReady(s) PROVE TypeOK'
  BY <1>11 DEF TypeOK, SSocketReady, ClientState, receiverVars
<1>12. ASSUME NEW s \in Device, SSocketDisconnected(s) \/ SEncryptingTimeout(s) PROVE TypeOK'
  BY <1>12, LeaveType DEF SSocketDisconnected, SEncryptingTimeout, ClientState, ServerState
<1>13. ASSUME NEW s \in Device, NEW r \in Device, SenderOpens(s, r) \/ ReceiverOpens(s, r)
       PROVE  TypeOK'
  BY <1>13 DEF TypeOK, SenderOpens, ReceiverOpens, Page, senderVars, receiverVars
<1>14. ASSUME NEW s \in Device, NEW r \in Device, Refuse(s, r) PROVE TypeOK'
  BY <1>14 DEF TypeOK, Refuse, ClientState, ServerState
<1>15. CASE UNCHANGED vars
  BY <1>15 DEF TypeOK, vars, senderVars, receiverVars
<1> QED BY <1>1, <1>2, <1>3, <1>4, <1>5, <1>6, <1>7, <1>8, <1>9, <1>10, <1>11, <1>12, <1>13,
           <1>14, <1>15, RendezvousAssumption DEF Next, ReceiverSlots, SenderSlots

-----------------------------------------------------------------------------
(* The inductive invariant.                                                *)

\* Every initial state satisfies the invariant.
LEMMA InitInv == Init => Bookkeeping /\ OneSenderAtATime
  BY DEF Init, Bookkeeping, OneSenderAtATime

\* A device that leaves its page for one outside a session, and with it every
\* connection it has and maybe the IDs it knew, disturbs nobody's session but ends it.
LEMMA LeavingKeeps ==
  ASSUME TypeOK, Bookkeeping, OneSenderAtATime,
         NEW d \in Device, Disconnect(d),
         \A e \in Device \ {d} : thisID'[e] = thisID[e] /\ peerIPAddress'[e] = peerIPAddress[e],
         NEW p \in {"off", "start", "error", "unrecognized"}, page' = [page EXCEPT ![d] = p],
         clientState' \in {clientState, [clientState EXCEPT ![d] = "DISCONNECTED"]},
         p = "off" => clientState'[d] = "DISCONNECTED",
         serverState' \in {serverState, [serverState EXCEPT ![d] = "DISCONNECTED"]}
  PROVE  Bookkeeping' /\ OneSenderAtATime'
<1> USE DEF TypeOK, Disconnect, BreakConnections
<1>1. Bookkeeping'
  BY DEF Bookkeeping
<1>2. OneSenderAtATime'
  BY RendezvousAssumption DEF OneSenderAtATime, Connected
<1> QED BY <1>1, <1>2

\* Every step keeps it.
LEMMA NextInv == TypeOK /\ Bookkeeping /\ OneSenderAtATime /\ [Next]_vars
                   => Bookkeeping' /\ OneSenderAtATime'
<1> SUFFICES ASSUME TypeOK, Bookkeeping, OneSenderAtATime, [Next]_vars
             PROVE  Bookkeeping' /\ OneSenderAtATime'
  OBVIOUS
<1> USE DEF TypeOK, Bookkeeping, OneSenderAtATime, Connected, senderVars, receiverVars
<1>1. ASSUME NEW d \in Device, Launch(d) PROVE Bookkeeping' /\ OneSenderAtATime'
  BY <1>1 DEF Launch, Setup
<1>2. ASSUME NEW d \in Device, Quit(d) \/ Back(d) PROVE Bookkeeping' /\ OneSenderAtATime'
  <2>1. CASE Quit(d)
    <3>1. clientState'[d] = "DISCONNECTED"
      BY <2>1 DEF Quit
    <3> QED BY <2>1, <3>1, LeavingKeeps DEF Quit
  <2>2. CASE Back(d)
    BY <2>2, LeavingKeeps DEF Back
  <2> QED BY <1>2, <2>1, <2>2
<1>3. ASSUME NEW d \in Device, NEW id \in ID \union {NoID}, Move(d, id)
      PROVE  Bookkeeping' /\ OneSenderAtATime'
  BY <1>3, RendezvousAssumption DEF Move, BreakConnections
<1>4. ASSUME NEW r \in Device, StartServer(r) PROVE Bookkeeping' /\ OneSenderAtATime'
  BY <1>4 DEF StartServer
<1>5. ASSUME NEW r \in Device, IncomingConnection(r) PROVE Bookkeeping' /\ OneSenderAtATime'
  BY <1>5, RendezvousAssumption DEF IncomingConnection, Close
<1>6. ASSUME NEW r \in Device, RSocketReady(r) PROVE Bookkeeping' /\ OneSenderAtATime'
  BY <1>6 DEF RSocketReady
<1>7. ASSUME NEW r \in Device, RSocketDisconnected(r) \/ REncryptingTimeout(r)
      PROVE  Bookkeeping' /\ OneSenderAtATime'
  BY <1>7, LeavingKeeps DEF RSocketDisconnected, REncryptingTimeout, StopServer, PageAfter
<1>8. ASSUME NEW s \in Device, OpenWaitingPage(s) PROVE Bookkeeping' /\ OneSenderAtATime'
  BY <1>8 DEF OpenWaitingPage
<1>9. ASSUME NEW s \in Device, NEW id \in ID, Dial(s, id)
      PROVE  Bookkeeping' /\ OneSenderAtATime'
  BY <1>9 DEF Dial
<1>10. ASSUME NEW s \in Device, SocketConnected(s) PROVE Bookkeeping' /\ OneSenderAtATime'
  BY <1>10 DEF SocketConnected
<1>11. ASSUME NEW s \in Device, SSocketReady(s) PROVE Bookkeeping' /\ OneSenderAtATime'
  BY <1>11 DEF SSocketReady
<1>12. ASSUME NEW s \in Device, SSocketDisconnected(s) \/ SEncryptingTimeout(s)
       PROVE  Bookkeeping' /\ OneSenderAtATime'
  BY <1>12, LeavingKeeps DEF SSocketDisconnected, SEncryptingTimeout, SLeave, PageAfter
<1>13. ASSUME NEW s \in Device, NEW r \in Device, SenderOpens(s, r)
       PROVE  Bookkeeping' /\ OneSenderAtATime'
  BY <1>13 DEF SenderOpens, Verifying
<1>14. ASSUME NEW s \in Device, NEW r \in Device, ReceiverOpens(s, r)
       PROVE  Bookkeeping' /\ OneSenderAtATime'
  BY <1>14 DEF ReceiverOpens, Verifying
<1>15. ASSUME NEW s \in Device, NEW r \in Device, Refuse(s, r)
       PROVE  Bookkeeping' /\ OneSenderAtATime'
  BY <1>15, RendezvousAssumption DEF Refuse, Verifying
<1>16. CASE UNCHANGED vars
  BY <1>16 DEF vars
<1> QED BY <1>1, <1>2, <1>3, <1>4, <1>5, <1>6, <1>7, <1>8, <1>9, <1>10, <1>11, <1>12, <1>13,
           <1>14, <1>15, <1>16, RendezvousAssumption DEF Next, ReceiverSlots, SenderSlots

\* IInv holds in every reachable state.
LEMMA Invariance == Spec => []IInv
<1>1. Init => IInv
  BY InitType, InitInv DEF IInv
<1>2. IInv /\ [Next]_vars => IInv'
  BY NextType, NextInv DEF IInv
<1> QED BY <1>1, <1>2, PTL DEF Spec

\* Every variable keeps its type, for any number of devices and addresses.
THEOREM TypeCorrect == Spec => []TypeOK
  BY Invariance, PTL DEF IInv

\* Any number of Senders compete for a Receiver: only the one it serves ever
\* encrypts with it, and only that one is in a session with it.
THEOREM OneSenderPerReceiver == Spec => []OneSenderAtATime
  BY Invariance, PTL DEF IInv

\* Whatever addresses the network gives out, and whenever it changes them, a
\* Sender in a session is with the device that has the ID it was given.
THEOREM SessionsReachIDShown == Spec => []ReachesIDShown
<1>1. IInv => ReachesIDShown
  BY DEF IInv, Bookkeeping, ReachesIDShown
<1> QED BY <1>1, Invariance, PTL

-----------------------------------------------------------------------------
(* Addresses that change between runs of LuminT or behind its start page.  *)

\* While a device's address may change.
MovesEarly == \A d \in Device : MovesOn[d] \subseteq {"off", "start"}

\* A LuminT that got past its start knows its address, unless it may change
\* meanwhile, and one that did not is neither serving nor connecting.
Current ==
  \A d \in Device :
    IF page[d] \in {"off", "noNetwork"}
      THEN serverState[d] \in {"ERROR", "DISCONNECTED"} /\ clientState[d] = "DISCONNECTED"
      ELSE "start" \in MovesOn[d] \/ thisID[d] = address[d]

\* Every step keeps that, and every waiting Receiver reachable.
LEMMA CurrentKept ==
  ASSUME MovesEarly, TypeOK, Bookkeeping, Current, WaitingIsReachable, Next
  PROVE  Current' /\ WaitingIsReachable'
<1> DEFINE Goal == Current' /\ WaitingIsReachable'
<1> USE DEF TypeOK, Current, WaitingIsReachable, senderVars, receiverVars
<1>1. ASSUME NEW d \in Device, Launch(d) PROVE Goal
  BY <1>1 DEF Launch, Setup, GetIPAddress
<1>2. ASSUME NEW d \in Device, Quit(d) \/ Back(d) PROVE Goal
  BY <1>2 DEF Quit, Back, Disconnect
<1>3. ASSUME NEW d \in Device, NEW id \in ID \union {NoID}, Move(d, id) PROVE Goal
  BY <1>3 DEF Move, MovesEarly
<1>4. ASSUME NEW r \in Device, StartServer(r) PROVE Goal
  BY <1>4 DEF StartServer
<1>5. ASSUME NEW r \in Device, IncomingConnection(r) \/ RSocketReady(r) PROVE Goal
  <2>1. page[r] \notin {"off", "noNetwork"}
    BY <1>5 DEF IncomingConnection, RSocketReady, Bookkeeping
  <2>2. page' = page /\ thisID' = thisID /\ address' = address /\ clientState' = clientState
    BY <1>5 DEF IncomingConnection, RSocketReady
  <2>3. PICK t \in {"ENCRYPTING", "ENCRYPTED"} : serverState' = [serverState EXCEPT ![r] = t]
    BY <1>5 DEF IncomingConnection, RSocketReady
  <2>4. listening' \in {listening, [listening EXCEPT ![r] = FALSE]}
    BY <1>5 DEF IncomingConnection, Close, RSocketReady
  <2> QED BY <2>1, <2>2, <2>3, <2>4
<1>6. ASSUME NEW r \in Device, RSocketDisconnected(r) \/ REncryptingTimeout(r) PROVE Goal
  <2>1. PICK p \in {"start", "error", "unrecognized"} : page' = [page EXCEPT ![r] = p]
    BY <1>6 DEF RSocketDisconnected, REncryptingTimeout, StopServer, PageAfter
  <2>2. /\ page[r] \notin {"off", "noNetwork"}
        /\ thisID' = thisID /\ address' = address /\ clientState' = clientState
        /\ serverState' = [serverState EXCEPT ![r] = "DISCONNECTED"]
        /\ listening' = [listening EXCEPT ![r] = FALSE]
    BY <1>6 DEF RSocketDisconnected, REncryptingTimeout, StopServer, Disconnect
  <2> QED BY <2>1, <2>2
<1>7. ASSUME NEW s \in Device, OpenWaitingPage(s) PROVE Goal
  BY <1>7 DEF OpenWaitingPage
<1>8. ASSUME NEW s \in Device, NEW id \in ID, Dial(s, id) PROVE Goal
  BY <1>8 DEF Dial
<1>9. ASSUME NEW s \in Device, SocketConnected(s) \/ SSocketReady(s) PROVE Goal
  BY <1>9 DEF SocketConnected, SSocketReady
<1>10. ASSUME NEW s \in Device, SSocketDisconnected(s) \/ SEncryptingTimeout(s) PROVE Goal
  <2>1. PICK p \in {"start", "error", "unrecognized"} : page' = [page EXCEPT ![s] = p]
    BY <1>10 DEF SSocketDisconnected, SEncryptingTimeout, SLeave, PageAfter
  <2>2. /\ page[s] \notin {"off", "noNetwork"}
        /\ thisID' = thisID /\ address' = address /\ serverState' = serverState
        /\ clientState' = [clientState EXCEPT ![s] = "DISCONNECTED"]
        /\ listening' = [listening EXCEPT ![s] = FALSE]
    BY <1>10 DEF SSocketDisconnected, SEncryptingTimeout, SLeave, Disconnect
  <2> QED BY <2>1, <2>2
<1>11. ASSUME NEW s \in Device, NEW r \in Device,
              SenderOpens(s, r) \/ ReceiverOpens(s, r) \/ Refuse(s, r)
       PROVE  Goal
  BY <1>11 DEF SenderOpens, ReceiverOpens, Refuse, Verifying
<1> QED BY <1>1, <1>2, <1>3, <1>4, <1>5, <1>6, <1>7, <1>8, <1>9, <1>10, <1>11,
           RendezvousAssumption DEF Next, ReceiverSlots, SenderSlots

\* As long as no address changes after the start page, every Receiver that shows
\* its ID and waits listens at it or serves a Sender, unless its address is gone.
THEOREM WaitingReceiversReachable ==
  ASSUME MovesEarly
  PROVE  Spec => []WaitingIsReachable
<1>1. Init => Current /\ WaitingIsReachable
  BY DEF Init, Current, WaitingIsReachable
<1>2. IInv /\ Current /\ WaitingIsReachable /\ [Next]_vars => Current' /\ WaitingIsReachable'
  <2>1. CASE UNCHANGED vars
    BY <2>1 DEF vars, senderVars, receiverVars, Current, WaitingIsReachable
  <2> QED BY <2>1, CurrentKept DEF IInv
<1> QED BY <1>1, <1>2, Invariance, PTL DEF Spec
=============================================================================
