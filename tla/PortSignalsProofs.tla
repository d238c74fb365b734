-------------------------- MODULE PortSignalsProofs --------------------------
(***************************************************************************)
(* Proofs about PortSignals, for every number of sockets, subscriptions    *)
(* and values: its type invariant, that the subscriptions of both ports    *)
(* agree, that a reader who is subscribed will have the server's value,    *)
(* and that what a reader sees implements SignalContract.                  *)
(***************************************************************************)
EXTENDS PortSignals, WsClientTransportProofs

(* The messages a client sends for one subscription. *)
Sub(i) == [type |-> "signalSubscribe", id |-> i]
Unsub(i) == [type |-> "signalUnsubscribe", id |-> i]

(* The client port knows of one subscription at most, the signal's, which  *)
(* has somebody waiting for it; a fresh value has a subscriber.            *)
LazyInv ==
    /\ openSignalSubscriptions = IF upstream = None THEN {} ELSE {upstream}
    /\ upstream # None => upstream < nextSubscribeId /\ ~hasError /\ subscribers + pulls > 0
    /\ ~stale => upstream # None /\ subscribers > 0 /\ pulls = 0
    /\ RecoveredOnConnection
    /\ openCommunicationsCount \in 0..1

(* A subscribe is on its way at most once, and only until it is received.  *)
SubscribesOnce(i) ==
    /\ \A l \in Places : Once(Wire[l], Sub(i))
    /\ \A l1, l2 \in Places :
         Carries(Wire[l1], Sub(i)) /\ Carries(Wire[l2], Sub(i)) => l1 = l2
    /\ \A l \in Places :
         Carries(Wire[l], Sub(i)) => i < nextSubscribeId /\ subscription[i] = "none"

(* The server knows of a subscription from the one socket it came on. *)
HomeAgrees(i) ==
    /\ i >= nextSubscribeId => subscription[i] = "none"
    /\ subscription[i] = "none" <=> home[i] = 0
    /\ home[i] # 0 => server[home[i]] # "none"
    /\ initialized[i] => subscription[i] \notin {"none", "starting"} /\ source # NotAvailable

(* What comes for a subscription comes on its socket, and an error only if *)
(* its handler failed.                                                     *)
AnswerAgrees(s, m) ==
    /\ home[m.id] = s /\ subscription[m.id] \in {"open", "closed", "failed"}
    /\ m.type = "signalError" => subscription[m.id] = "failed"

AnswersAgree == \A s \in Sockets : \A k \in 1..Len(down[s]) : AnswerAgrees(s, down[s][k])

(* The signal's subscription is known to no connection but the current one. *)
Followed(i) ==
    Deaf \/ /\ \A l \in Places : Carries(Wire[l], Sub(i)) => l = Current
            /\ home[i] # 0 => home[i] = Current

UpstreamFollowed == upstream # None => Followed(upstream)

(* A subscription the client left is left on the current connection, or    *)
(* will be by an unsubscribe behind it or ahead of its handler's return.   *)
Leaving(i) ==
    /\ Carries(Wire[Current], Sub(i)) => Carries(Wire[Current], Unsub(i)) \/ i \in toClose
    /\ Current # 0 /\ server[Current] = "open" /\ home[i] = Current =>
         /\ subscription[i] = "starting" => Carries(Wire[Current], Unsub(i)) \/ i \in toClose
         /\ subscription[i] = "open" => Carries(Wire[Current], Unsub(i))

Left(i) == i # upstream /\ i \notin abandoned => Leaving(i)

(* A reader of i who has v reads values that go up, never beyond top, and  *)
(* reaches top in the end if exact.                                        *)
Sound(q, i, v, top, exact) ==
    \E f \in [0..Len(q) -> NotAvailable..top] :
        /\ Reads(f, v, q, i)
        /\ \A k \in 1..Len(q) : f[k - 1] <= f[k]
        /\ exact => f[Len(q)] = top

(* The server has sent the whole value of the signal's subscription. *)
UpToDate == server[ws] = "open" /\ upstream \in Open /\ initialized[upstream]

ReadingSound ==
    upstream # None /\ status = "Connected" => Sound(down[ws], upstream, value, source, UpToDate)

SignalInv ==
    /\ ConnectionInv /\ WiresFollowSockets
    /\ LazyInv /\ value <= source
    /\ \A i \in SubscribeIds : SubscribesOnce(i) /\ HomeAgrees(i) /\ Left(i)
    /\ AnswersAgree /\ UpstreamFollowed /\ ReadingSound

-----------------------------------------------------------------------------
(* The steps.                                                              *)

(* The type invariant, but for the bounds that the other invariants give. *)
ClientTypes ==
    /\ nextSubscribeId \in 0..MaxSubscribeIds
    /\ recoverable \in BOOLEAN
    /\ subscribers \in 0..MaxSubscribers /\ pulls \in 0..MaxPulls
    /\ upstream \in SubscribeIds \cup {None}
    /\ value \in Int /\ value >= NotAvailable /\ stale \in BOOLEAN
    /\ error \in {"none", "transport", "server"}
    /\ abandoned \subseteq SubscribeIds

ServerTypes ==
    /\ source \in Values \cup {NotAvailable}
    /\ subscription \in [SubscribeIds -> {"none", "starting", "open", "closed", "failed"}]
    /\ initialized \in [SubscribeIds -> BOOLEAN]
    /\ home \in [SubscribeIds -> 0..MaxSockets]
    /\ toClose \subseteq SubscribeIds

Types == TransportTypeOK(SubscribeMsg, UpdateMsg) /\ ClientTypes /\ ServerTypes

LEMMA Bounds ==
    /\ MaxSockets \in Nat /\ MaxSubscribeIds \in Nat /\ MaxSubscribers \in Nat
    /\ MaxPulls \in Nat /\ MaxValue \in Nat
  BY TransportAssumption, PortSignalsAssumption

LEMMA NextStaysDisposed ==
    ASSUME [Next]_vars
    PROVE  StaysDisposed
<1>1. CASE UNCHANGED dispose
  BY <1>1 DEF StaysDisposed, disposed
<1>2. CASE UpdateOpenCommunicationsCount
  BY <1>2, CommunicationsChangeKeepsDisposed DEF UpdateOpenCommunicationsCount
<1>3. CASE CommunicationsChange(openCommunicationsCount, 0)
  BY <1>3, CommunicationsChangeKeepsDisposed
<1>4. CASE StartDispose \/ FinishDispose
  BY <1>4 DEF StartDispose, FinishDispose, DisposeWaits, DisposeCloses, StaysDisposed, disposed
<1>5. CASE LazySignalStep
  BY <1>1, <1>2, <1>5 DEF LazySignalStep, Subscribe, Pull, Attach, Register, Unsubscribe
<1>6. CASE ConnectStep \/ UrlStep \/ ServerStep \/ UNCHANGED vars
  BY <1>1, <1>6 DEF ConnectStep, UrlStep, ServerStep, EnsureConnectedOrStartConnection, UrlSettles,
     SourceChanges, SignalHandlerReturns, SignalHandlerThrows, vars, transportVars
<1>7. CASE NetworkStep
  <2>1. ASSUME NEW s \in Sockets, ClientReceives(s) PROVE StaysDisposed
    BY <1>1, <1>2, <2>1 DEF ClientReceives, ReceivedSignalUpdate, ReceivedSignalError
  <2>2. ASSUME NEW s \in Sockets, \/ ConnectionOpens(s) \/ ConnectionLost(s)
                                 \/ ServerReceives(s) \/ ServerConnectionLost(s)
        PROVE  StaysDisposed
    BY <1>1, <1>2, <1>3, <2>2 DEF ConnectionOpens, Register, ConnectionLost, ServerReceives,
       ServerTakeMessage, ServerConnectionLost, ServerSocketCloses
  <2>3. QED
    BY <1>7, <2>1, <2>2 DEF NetworkStep
<1>8. QED
  BY <1>1, <1>4, <1>5, <1>6, <1>7 DEF Next

LEMMA SafeSendSends ==
    ASSUME NEW msg, SafeSend(msg), UNCHANGED server
    PROVE  Sends
  BY DEF SafeSend, Sends

LEMMA NextIsTransportStep ==
    ASSUME [Next]_vars
    PROVE  TransportStep
<1>1. CASE Quiet
  BY <1>1 DEF TransportStep
<1>2. CASE Sends
  BY <1>2 DEF TransportStep
<1>3. CASE EnsureConnectedOrStartConnection \/ UrlSettles \/ DisposeCloses
  BY <1>3 DEF TransportStep
<1>4. CASE \E s \in Sockets : SocketStep(s)
  BY <1>4 DEF TransportStep
<1>5. CASE LazySignalStep
  <2>1. CASE Subscribe \/ Pull
    <3>1. CASE upstream = None /\ ~hasError
      BY <1>2, <2>1, <3>1, SafeSendSends DEF Subscribe, Pull, Attach
    <3>2. CASE ~(upstream = None /\ ~hasError)
      BY <1>1, <2>1, <3>2 DEF Subscribe, Pull, Attach, connectionVars, Quiet
    <3>3. QED
      BY <3>1, <3>2
  <2>2. CASE Unsubscribe
    <3>1. CASE LeaveUpstream
      BY <1>2, <2>2, <3>1, SafeSendSends DEF Unsubscribe, LeaveUpstream
    <3>2. CASE UNCHANGED <<connectionVars, up>>
      BY <1>1, <2>2, <3>2 DEF Unsubscribe, connectionVars, Quiet
    <3>3. QED
      BY <2>2, <3>1, <3>2 DEF Unsubscribe
  <2>3. QED
    BY <1>5, <2>1, <2>2 DEF LazySignalStep
<1>6. CASE NetworkStep
  <2>1. ASSUME NEW s \in Sockets, ClientReceives(s) PROVE TransportStep
    <3>1. CASE LeaveUpstream
      BY <1>2, <2>1, <3>1, SafeSendSends DEF ClientReceives, LeaveUpstream
    <3>2. CASE UNCHANGED <<connectionVars, up>>
      BY <1>1, <2>1, <3>2 DEF ClientReceives, connectionVars, Quiet
    <3>3. QED
      BY <2>1, <3>1, <3>2 DEF ClientReceives, ReceivedSignalUpdate, ReceivedSignalError
  <2>2. ASSUME NEW s \in Sockets, ConnectionOpens(s) PROVE TransportStep
    BY <1>4, <2>2 DEF ConnectionOpens, SocketStep
  <2>3. ASSUME NEW s \in Sockets, ConnectionLost(s) \/ ServerReceives(s) \/ ServerConnectionLost(s)
        PROVE  TransportStep
    BY <1>4, <2>3 DEF ConnectionLost, ServerReceives, ServerConnectionLost, SocketStep
  <2>4. QED
    BY <1>6, <2>1, <2>2, <2>3 DEF NetworkStep
<1>7. CASE ConnectStep \/ UrlStep \/ FinishDispose
  BY <1>3, <1>7 DEF ConnectStep, UrlStep, FinishDispose
<1>8. CASE ServerStep \/ StartDispose \/ UNCHANGED vars
  BY <1>1, <1>8 DEF ServerStep, SourceChanges, SignalHandlerReturns, SignalHandlerThrows, StartDispose,
     DisposeWaits, vars, transportVars, connectionVars, Quiet
<1>9. QED
  BY <1>5, <1>6, <1>7, <1>8 DEF Next

(* The steps, by what they do to the subscriptions and the messages about  *)
(* them. The client makes one;                                             *)
Registers ==
    /\ upstream = None /\ nextSubscribeId \in SubscribeIds
    /\ nextSubscribeId' = nextSubscribeId + 1 /\ upstream' = nextSubscribeId

SubscribeKind ==
    /\ Registers
    /\ SafeSend(Sub(nextSubscribeId))
    /\ UNCHANGED <<server, down, serverVars, abandoned, value>>

(* or leaves the one it has;                                               *)
LeaveKind ==
    /\ upstream # None /\ upstream' = None
    /\ SafeSend(Unsub(upstream))
    /\ UNCHANGED <<server, serverVars, abandoned, nextSubscribeId>>

(* a connection opens, and may bring the signal back;                      *)
OpenKind(s) ==
    /\ \/ OnWsOpen(s, <<>>) /\ UNCHANGED <<nextSubscribeId, upstream>>
       \/ OnWsOpen(s, <<Sub(nextSubscribeId)>>) /\ Registers
    /\ UNCHANGED <<serverVars, abandoned, value, down>>

(* a loss ends the subscription, or is not told to anybody;                *)
ErroredKind ==
    /\ upstream' = None
    /\ abandoned' = abandoned \cup {queued[k].id : k \in DOMAIN queued}
    /\ status' = "Disconnected"
    /\ UNCHANGED <<queued, up, server, serverVars, nextSubscribeId>>

SilentLossKind(s) ==
    /\ SocketErrors(s) \/ SocketCloses(s)
    /\ ~ReportsError
    /\ UNCHANGED <<dispose, clientVars, serverVars>>

(* or nothing of this happens, but the server's error may arrive.          *)
ClientKind ==
    /\ UNCHANGED <<connectionVars, server, up, serverVars, nextSubscribeId, abandoned>>
    /\ \/ upstream' = upstream
       \/ upstream # None /\ upstream' = None /\ subscription[upstream] = "failed"

ConnectKind == ConnectStep \/ UrlStep

LEMMA RegisterNumbers ==
    ASSUME Types, Register, upstream = None
    PROVE  Registers
  BY Bounds DEF Types, ClientTypes, Register, Registers, SubscribeIds

(* A message that is not ignored is for the signal's subscription. *)
LEMMA HeadAgrees ==
    ASSUME Types, AnswersAgree, NEW s \in Sockets, down[s] # <<>>
    PROVE  /\ Head(down[s]) \in UpdateMsg /\ Head(down[s]).id \in SubscribeIds
           /\ AnswerAgrees(s, Head(down[s]))
<1>1. down[s] \in Seq(UpdateMsg)
  BY DEF Types, TransportTypeOK
<1>2. Head(down[s]) = down[s][1] /\ 1 \in 1..Len(down[s]) /\ Head(down[s]) \in UpdateMsg
  BY <1>1
<1>3. Head(down[s]).id \in SubscribeIds
  BY <1>2 DEF UpdateMsg
<1>4. QED
  BY <1>2, <1>3 DEF AnswersAgree

LEMMA ClientReceivesKind ==
    ASSUME Types, LazyInv, AnswersAgree, NEW s \in Sockets, ClientReceives(s)
    PROVE  LeaveKind \/ ClientKind
<1> DEFINE m == Head(down[s])
<1>1. m.id \in SubscribeIds /\ AnswerAgrees(s, m)
  BY HeadAgrees DEF ClientReceives
<1> HIDE DEF m
<1>2. CASE UNCHANGED <<connectionVars, up, dispose, shouldRef, clientVars>>
  BY <1>2 DEF ClientReceives, ClientKind, clientVars, portVars, lazyVars
<1>3. CASE ReceivedSignalUpdate(s, m)
  <2>1. upstream # None
    BY <1>3 DEF ReceivedSignalUpdate, LazyInv
  <2>2. CASE LeaveUpstream
    BY <1>3, <2>1, <2>2 DEF ReceivedSignalUpdate, ClientReceives, LeaveUpstream, LeaveKind, Unsub
  <2>3. CASE UNCHANGED <<connectionVars, up, upstream>>
    BY <1>3, <2>3 DEF ReceivedSignalUpdate, ClientReceives, ClientKind
  <2>4. QED
    BY <1>3, <2>2, <2>3 DEF ReceivedSignalUpdate
<1>4. CASE ReceivedSignalError(m)
  <2>1. m.id = upstream /\ upstream # None
    BY <1>4 DEF ReceivedSignalError, LazyInv
  <2>2. subscription[upstream] = "failed"
    BY <1>1, <1>4, <2>1 DEF ReceivedSignalError, AnswerAgrees
  <2>3. QED
    BY <1>4, <2>1, <2>2 DEF ReceivedSignalError, LazySignalErrors, ClientReceives, ClientKind
<1>5. QED
  BY <1>2, <1>3, <1>4 DEF ClientReceives, m

LEMMA ErroredEnds ==
    ASSUME LazyInv, Errored
    PROVE  /\ upstream' = None
           /\ abandoned' = abandoned \cup {queued[k].id : k \in DOMAIN queued}
           /\ UNCHANGED nextSubscribeId
  BY DEF Errored, LazyInv, LazySignalErrors, lazyVars

LEMMA StepKinds ==
    ASSUME Types, LazyInv, AnswersAgree, [Next]_vars
    PROVE  \/ SubscribeKind \/ LeaveKind \/ ErroredKind \/ ClientKind \/ ConnectKind \/ ServerStep
           \/ \E s \in Sockets : \/ OpenKind(s) \/ SilentLossKind(s)
                                 \/ ServerReceives(s) \/ ServerConnectionLost(s)
<1>1. CASE Subscribe \/ Pull
  <2>1. CASE upstream = None /\ ~hasError
    <3>1. Registers
      BY <1>1, <2>1, RegisterNumbers DEF Subscribe, Pull, Attach
    <3>2. SubscribeKind
      BY <1>1, <2>1, <3>1 DEF Subscribe, Pull, Attach, SubscribeKind, Sub
    <3>3. QED
      BY <3>2
  <2>2. CASE ~(upstream = None /\ ~hasError)
    BY <1>1, <2>2 DEF Subscribe, Pull, Attach, ClientKind
  <2>3. QED
    BY <2>1, <2>2
<1>2. CASE Unsubscribe
  <2>1. CASE upstream # None /\ LeaveUpstream
    BY <1>2, <2>1 DEF Unsubscribe, LeaveUpstream, LeaveKind, Unsub
  <2>2. CASE UNCHANGED <<connectionVars, up, upstream>>
    BY <1>2, <2>2 DEF Unsubscribe, ClientKind
  <2>3. QED
    BY <1>2, <2>1, <2>2 DEF Unsubscribe
<1>3. ASSUME NEW s \in Sockets, ConnectionOpens(s) PROVE OpenKind(s)
  <2>1. UNCHANGED <<serverVars, abandoned, value, down>>
    BY <1>3 DEF ConnectionOpens, OnWsOpen
  <2>2. CASE recoverable /\ hasError /\ subscribers + pulls > 0
    <3>1. Register /\ upstream = None
      BY <1>3, <2>2 DEF ConnectionOpens, LazyInv
    <3>2. QED
      BY <1>3, <2>1, <2>2, <3>1, RegisterNumbers DEF ConnectionOpens, OpenKind, Sub
  <2>3. CASE ~(recoverable /\ hasError /\ subscribers + pulls > 0)
    BY <1>3, <2>1, <2>3 DEF ConnectionOpens, OpenKind
  <2>4. QED
    BY <2>2, <2>3
<1>4. ASSUME NEW s \in Sockets, ConnectionLost(s) PROVE ErroredKind \/ SilentLossKind(s)
  <2>1. CASE ReportsError
    <3>1. /\ status' = "Disconnected"
          /\ UNCHANGED <<queued, up, server, serverVars>>
      BY <1>4 DEF ConnectionLost, SocketErrors, SocketCloses, OnWsError
    <3>2. QED
      BY <1>4, <2>1, <3>1, ErroredEnds DEF ConnectionLost, ErroredKind
  <2>2. CASE ~ReportsError
    BY <1>4, <2>2 DEF ConnectionLost, SilentLossKind
  <2>3. QED
    BY <2>1, <2>2
<1>5. ASSUME NEW s \in Sockets, ClientReceives(s) PROVE LeaveKind \/ ClientKind
  BY <1>5, ClientReceivesKind
<1>6. CASE FinishDispose
  BY <1>6, ErroredEnds DEF FinishDispose, DisposeCloses, ErroredKind
<1>7. CASE StartDispose \/ UNCHANGED vars
  BY <1>7 DEF StartDispose, DisposeWaits, vars, transportVars, clientVars, portVars, lazyVars, ClientKind
<1>8. QED
  BY <1>1, <1>2, <1>3, <1>4, <1>5, <1>6, <1>7 DEF Next, LazySignalStep, NetworkStep, ConnectKind

-----------------------------------------------------------------------------
(* Types.                                                                  *)

LEMMA MessageTypes ==
    ASSUME NEW i \in SubscribeIds
    PROVE  /\ Sub(i) \in SubscribeMsg /\ Unsub(i) \in SubscribeMsg
           /\ [type |-> "signalError", id |-> i] \in UpdateMsg
           /\ \A v \in Values : Update(i, v) \in UpdateMsg
  BY DEF Sub, Unsub, SubscribeMsg, Update, UpdateMsg

LEMMA SourceChangesUpdates ==
    ASSUME Types, SourceChanges, NEW s \in Sockets
    PROVE  LET told == {i \in Open : home[i] = s}
               msgs == {Update(i, source') : i \in told}
           IN  /\ IsFiniteSet(msgs) /\ msgs \subseteq UpdateMsg
               /\ SetToSeq(msgs) \in Seq(UpdateMsg)
               /\ down'[s] = Answered(s, SetToSeq(msgs))[s]
<1> DEFINE told == {i \in Open : home[i] = s}
           msgs == {Update(i, source') : i \in told}
           f == [i \in told |-> Update(i, source')]
<1>1. source' \in Values
  BY Bounds DEF SourceChanges, Types, ServerTypes, Values, NotAvailable
<1>2. told \subseteq SubscribeIds
  BY DEF Open
<1>3. IsFiniteSet(told)
  <2>1. IsFiniteSet(SubscribeIds)
    BY Bounds, FS_Interval DEF SubscribeIds
  <2>2. QED
    BY <1>2, <2>1, FS_Subset
<1>4. f \in Surjection(told, msgs)
  BY DEF Surjection
<1>5. IsFiniteSet(msgs)
  BY <1>3, <1>4, FS_Surjection
<1>6. msgs \subseteq UpdateMsg
  BY <1>1, <1>2, MessageTypes
<1>7. SetToSeq(msgs) \in Seq(msgs)
  BY <1>5, SetToSeqPoints
<1>8. SetToSeq(msgs) \in Seq(UpdateMsg)
  BY <1>6, <1>7
<1>9. QED
  BY <1>5, <1>6, <1>8 DEF SourceChanges

LEMMA UpTypes ==
    ASSUME Types, LazyInv, AnswersAgree, [Next]_vars
    PROVE  queued' \in Seq(SubscribeMsg) /\ up' \in [Sockets -> Seq(SubscribeMsg)]
<1>0. /\ TransportTypeOK(SubscribeMsg, UpdateMsg)
      /\ queued \in Seq(SubscribeMsg) /\ up \in [Sockets -> Seq(SubscribeMsg)]
  BY DEF Types, TransportTypeOK
<1>1. CASE UNCHANGED <<queued, up>>
  BY <1>0, <1>1
<1>2. CASE SubscribeKind
  <2>1. Sub(nextSubscribeId) \in SubscribeMsg
    BY <1>2, MessageTypes DEF SubscribeKind, Registers
  <2>2. QED
    BY <1>0, <1>2, <2>1, SendTypes DEF SubscribeKind, SafeSend
<1>3. CASE LeaveKind
  <2>1. Unsub(upstream) \in SubscribeMsg
    BY <1>3, MessageTypes DEF LeaveKind, Types, ClientTypes
  <2>2. QED
    BY <1>0, <1>3, <2>1, SendTypes DEF LeaveKind, SafeSend
<1>4. ASSUME NEW s \in Sockets, OpenKind(s)
      PROVE  queued' \in Seq(SubscribeMsg) /\ up' \in [Sockets -> Seq(SubscribeMsg)]
  <2>1. PICK msgs \in Seq(SubscribeMsg) : OnWsOpen(s, msgs)
    <3>1. Registers => <<Sub(nextSubscribeId)>> \in Seq(SubscribeMsg)
      <4>1. Registers => Sub(nextSubscribeId) \in SubscribeMsg
        BY MessageTypes DEF Registers
      <4>2. QED
        BY <4>1
    <3>2. <<>> \in Seq(SubscribeMsg)
      OBVIOUS
    <3>3. QED
      BY <1>4, <3>1, <3>2 DEF OpenKind
  <2>2. \A q \in Seq(SubscribeMsg) : q \o queued \o msgs \in Seq(SubscribeMsg)
    BY <1>0
  <2>3. up' = [up EXCEPT ![ws] = @ \o queued \o msgs] /\ queued' = <<>>
    BY <2>1 DEF OnWsOpen
  <2>4. up' \in [Sockets -> Seq(SubscribeMsg)]
    BY <1>0, <2>2, <2>3
  <2>5. QED
    BY <2>3, <2>4
<1>5. ASSUME NEW s \in Sockets, ServerReceives(s) \/ ServerConnectionLost(s)
      PROVE  queued' \in Seq(SubscribeMsg) /\ up' \in [Sockets -> Seq(SubscribeMsg)]
  <2>1. \A q \in Seq(SubscribeMsg) : q # <<>> => Tail(q) \in Seq(SubscribeMsg)
    OBVIOUS
  <2>2. <<>> \in Seq(SubscribeMsg)
    OBVIOUS
  <2>3. CASE ServerReceives(s)
    BY <1>0, <2>1, <2>3 DEF ServerReceives, ServerTakeMessage, connectionVars
  <2>4. CASE ServerConnectionLost(s)
    BY <1>0, <2>2, <2>4 DEF ServerConnectionLost, ServerSocketCloses, connectionVars
  <2>5. QED
    BY <1>5, <2>3, <2>4
<1>6. QED
  BY <1>1, <1>2, <1>3, <1>4, <1>5, StepKinds DEF ErroredKind, ClientKind, ConnectKind, ConnectStep,
     UrlStep, EnsureConnectedOrStartConnection, UrlSettles, ServerStep, SourceChanges,
     SignalHandlerReturns, SignalHandlerThrows, SilentLossKind, SocketErrors, SocketCloses,
     OnWsError, connectionVars

(* What a step does to the messages on their way to the client. *)
LEMMA DownSteps ==
    ASSUME [Next]_vars
    PROVE  \/ down' = down
           \/ ServerStep
           \/ \E s \in Sockets : \/ ClientReceives(s)
                                 \/ down' = [down EXCEPT ![s] = <<>>] /\ status' = "Disconnected"
  BY DEF Next, LazySignalStep, Subscribe, Pull, Attach, Unsubscribe, ConnectStep, UrlStep,
     EnsureConnectedOrStartConnection, UrlSettles, NetworkStep, ConnectionOpens, OnWsOpen,
     ConnectionLost, SocketErrors, SocketCloses, OnWsError, ServerReceives, ServerConnectionLost,
     ServerSocketCloses, StartDispose, DisposeWaits, FinishDispose, DisposeCloses, vars,
     transportVars

LEMMA DownTypes ==
    ASSUME Types, [Next]_vars
    PROVE  down' \in [Sockets -> Seq(UpdateMsg)]
<1>0. /\ TransportTypeOK(SubscribeMsg, UpdateMsg)
      /\ down \in [Sockets -> Seq(UpdateMsg)]
  BY DEF Types, TransportTypeOK
<1>1. ASSUME NEW s \in Sockets, ClientReceives(s) PROVE down' \in [Sockets -> Seq(UpdateMsg)]
  BY <1>0, <1>1 DEF ClientReceives
<1>2. ASSUME NEW i \in SubscribeIds, SignalHandlerReturns(i)
      PROVE  down' \in [Sockets -> Seq(UpdateMsg)]
  <2>1. CASE source # NotAvailable
    <3>1. Update(i, source) \in UpdateMsg
      BY <2>1, MessageTypes DEF Types, ServerTypes
    <3>2. <<Update(i, source)>> \in Seq(UpdateMsg)
      BY <3>1
    <3>3. Answered(home[i], <<Update(i, source)>>) \in [Sockets -> Seq(UpdateMsg)]
      BY <1>0, <3>2, AnsweredTypes
    <3>4. QED
      BY <1>0, <1>2, <3>3 DEF SignalHandlerReturns
  <2>2. CASE source = NotAvailable
    BY <1>0, <1>2, <2>2 DEF SignalHandlerReturns
  <2>3. QED
    BY <2>1, <2>2
<1>3. ASSUME NEW i \in SubscribeIds, SignalHandlerThrows(i)
      PROVE  down' \in [Sockets -> Seq(UpdateMsg)]
  <2>1. <<[type |-> "signalError", id |-> i]>> \in Seq(UpdateMsg)
    BY MessageTypes
  <2>2. QED
    BY <1>0, <1>3, <2>1, AnsweredTypes DEF SignalHandlerThrows
<1>4. CASE SourceChanges
  <2>1. ASSUME NEW s \in Sockets PROVE down'[s] \in Seq(UpdateMsg)
    <3> DEFINE msgs == SetToSeq({Update(i, source') : i \in {j \in Open : home[j] = s}})
    <3>1. msgs \in Seq(UpdateMsg) /\ down'[s] = Answered(s, msgs)[s]
      BY <1>4, SourceChangesUpdates
    <3> HIDE DEF msgs
    <3>2. Answered(s, msgs) \in [Sockets -> Seq(UpdateMsg)]
      BY <1>0, <3>1, AnsweredTypes
    <3>3. QED
      BY <3>1, <3>2
  <2>2. DOMAIN down' = Sockets /\ down' = [s \in Sockets |-> down'[s]]
    BY <1>4 DEF SourceChanges
  <2>3. QED
    BY <2>1, <2>2
<1>5. ASSUME NEW s \in Sockets, down' = [down EXCEPT ![s] = <<>>]
      PROVE  down' \in [Sockets -> Seq(UpdateMsg)]
  BY <1>0, <1>5
<1>6. QED
  BY <1>0, <1>1, <1>2, <1>3, <1>4, <1>5, DownSteps DEF ServerStep

LEMMA DisposeTypes ==
    ASSUME Types, [Next]_vars
    PROVE  dispose' \in {"no", "waiting", "released", "done"} /\ shouldRef' \in BOOLEAN
<1>0. dispose \in {"no", "waiting", "released", "done"} /\ shouldRef \in BOOLEAN
  BY DEF Types, TransportTypeOK
<1>1. CASE UNCHANGED <<dispose, shouldRef>>
  BY <1>0, <1>1
<1>2. CASE UpdateOpenCommunicationsCount
  BY <1>0, <1>2, CommunicationsChangeType DEF UpdateOpenCommunicationsCount
<1>3. CASE CommunicationsChange(openCommunicationsCount, 0)
  BY <1>0, <1>3, CommunicationsChangeType
<1>4. CASE StartDispose \/ FinishDispose
  BY <1>0, <1>4 DEF StartDispose, FinishDispose, DisposeWaits, DisposeCloses
<1>5. CASE LazySignalStep
  BY <1>1, <1>2, <1>5 DEF LazySignalStep, Subscribe, Pull, Attach, Register, Unsubscribe
<1>6. CASE ConnectStep \/ UrlStep \/ ServerStep \/ UNCHANGED vars
  BY <1>1, <1>6 DEF ConnectStep, UrlStep, ServerStep, EnsureConnectedOrStartConnection, UrlSettles,
     SourceChanges, SignalHandlerReturns, SignalHandlerThrows, vars, transportVars
<1>7. CASE NetworkStep
  <2>1. ASSUME NEW s \in Sockets, ClientReceives(s)
        PROVE  UNCHANGED <<dispose, shouldRef>> \/ UpdateOpenCommunicationsCount
    BY <2>1 DEF ClientReceives, ReceivedSignalUpdate, ReceivedSignalError
  <2>2. ASSUME NEW s \in Sockets, \/ ConnectionOpens(s) \/ ConnectionLost(s)
                                 \/ ServerReceives(s) \/ ServerConnectionLost(s)
        PROVE  \/ UNCHANGED <<dispose, shouldRef>> \/ UpdateOpenCommunicationsCount
               \/ CommunicationsChange(openCommunicationsCount, 0)
    BY <2>2 DEF ConnectionOpens, Register, ConnectionLost, ServerReceives, ServerTakeMessage,
       ServerConnectionLost, ServerSocketCloses
  <2>3. QED
    BY <1>1, <1>2, <1>3, <1>7, <2>1, <2>2 DEF NetworkStep
<1>8. QED
  BY <1>1, <1>4, <1>5, <1>6, <1>7 DEF Next

LEMMA ClientReceivesType ==
    ASSUME Types, AnswersAgree, NEW s \in Sockets, ClientReceives(s)
    PROVE  ClientTypes'
<1> DEFINE m == Head(down[s])
<1>1. m \in UpdateMsg
  BY HeadAgrees DEF ClientReceives
<1>2. m.type = "replace" => m.value \in Values
  BY <1>1 DEF UpdateMsg
<1> HIDE DEF m
<1>3. Applied(value, m) \in Int /\ Applied(value, m) >= NotAvailable
  BY <1>2, Bounds DEF Applied, Types, ClientTypes, Values, NotAvailable
<1>4. 0 \in 0..MaxPulls
  BY Bounds
<1>5. CASE ReceivedSignalUpdate(s, m)
  <2>1. recoverable' \in BOOLEAN /\ stale' \in BOOLEAN /\ upstream' \in SubscribeIds \cup {None}
        /\ UNCHANGED <<nextSubscribeId, subscribers, error, abandoned>>
    BY <1>5 DEF ReceivedSignalUpdate, LeaveUpstream, Types, ClientTypes
  <2>2. value' = Applied(value, m) /\ pulls' = 0
    BY <1>5 DEF ReceivedSignalUpdate
  <2>3. QED
    BY <1>3, <1>4, <2>1, <2>2 DEF Types, ClientTypes
<1>6. CASE ReceivedSignalError(m)
  BY <1>6 DEF ReceivedSignalError, LazySignalErrors, Types, ClientTypes
<1>7. CASE UNCHANGED clientVars
  BY <1>7 DEF clientVars, portVars, lazyVars, Types, ClientTypes
<1>8. QED
  BY <1>5, <1>6, <1>7 DEF ClientReceives, m

LEMMA ErroredType ==
    ASSUME Types, Errored
    PROVE  ClientTypes'
<1>1. {queued[k].id : k \in DOMAIN queued} \subseteq SubscribeIds
  <2>1. queued \in Seq(SubscribeMsg)
    BY DEF Types, TransportTypeOK
  <2>2. \A m \in SubscribeMsg : m.id \in SubscribeIds
    BY DEF SubscribeMsg
  <2>3. QED
    BY <2>1, <2>2
<1>2. abandoned' \subseteq SubscribeIds
  BY <1>1 DEF Errored, Types, ClientTypes
<1>3. QED
  BY <1>2 DEF Errored, LazySignalErrors, lazyVars, Types, ClientTypes

LEMMA RegisterType ==
    ASSUME Types, Register
    PROVE  nextSubscribeId' \in 0..MaxSubscribeIds /\ upstream' \in SubscribeIds \cup {None}
  BY Bounds DEF Register, Types, ClientTypes, SubscribeIds

LEMMA ClientTypesKept ==
    ASSUME Types, AnswersAgree, [Next]_vars
    PROVE  ClientTypes'
<1>1. CASE UNCHANGED clientVars
  BY <1>1 DEF clientVars, portVars, lazyVars, Types, ClientTypes
<1>2. CASE Attach /\ Subscribe
  <2>1. nextSubscribeId' \in 0..MaxSubscribeIds /\ upstream' \in SubscribeIds \cup {None}
    BY <1>2, RegisterType DEF Attach, Types, ClientTypes
  <2>2. subscribers' \in 0..MaxSubscribers
    BY <1>2, Bounds DEF Subscribe, Types, ClientTypes
  <2>3. QED
    BY <1>2, <2>1, <2>2 DEF Attach, Subscribe, Types, ClientTypes
<1>3. CASE Attach /\ Pull
  <2>1. nextSubscribeId' \in 0..MaxSubscribeIds /\ upstream' \in SubscribeIds \cup {None}
    BY <1>3, RegisterType DEF Attach, Types, ClientTypes
  <2>2. pulls' \in 0..MaxPulls
    BY <1>3, Bounds DEF Pull, Types, ClientTypes
  <2>3. QED
    BY <1>3, <2>1, <2>2 DEF Attach, Pull, Types, ClientTypes
<1>4. CASE Unsubscribe
  <2>1. subscribers' \in 0..MaxSubscribers
    BY <1>4, Bounds DEF Unsubscribe, Types, ClientTypes
  <2>2. QED
    BY <1>4, <2>1 DEF Unsubscribe, LeaveUpstream, Types, ClientTypes
<1>5. ASSUME NEW s \in Sockets, ConnectionOpens(s) PROVE ClientTypes'
  <2>1. nextSubscribeId' \in 0..MaxSubscribeIds /\ upstream' \in SubscribeIds \cup {None}
    BY <1>5, RegisterType DEF ConnectionOpens, Types, ClientTypes
  <2>2. error' \in {"none", "transport", "server"} /\ stale' \in BOOLEAN /\ recoverable' = FALSE
        /\ UNCHANGED <<abandoned, subscribers, pulls, value>>
    BY <1>5 DEF ConnectionOpens, Types, ClientTypes
  <2>3. QED
    BY <2>1, <2>2 DEF Types, ClientTypes
<1>6. CASE Errored
  BY <1>6, ErroredType
<1>7. ASSUME NEW s \in Sockets, ClientReceives(s) PROVE ClientTypes'
  BY <1>7, ClientReceivesType
<1>8. QED
  BY <1>1, <1>2, <1>3, <1>4, <1>5, <1>6, <1>7 DEF Next, LazySignalStep, Subscribe, Pull, ConnectStep,
     UrlStep, NetworkStep, ConnectionLost, ServerReceives, ServerConnectionLost, ServerStep,
     SourceChanges, SignalHandlerReturns, SignalHandlerThrows, StartDispose, FinishDispose, vars

LEMMA ServerTypesKept ==
    ASSUME Types, [Next]_vars
    PROVE  ServerTypes'
<1> USE DEF ServerTypes
<1>0. ServerTypes
  BY DEF Types
<1>1. CASE UNCHANGED serverVars
  BY <1>0, <1>1 DEF serverVars
<1>2. ASSUME NEW s \in Sockets, ServerReceives(s) PROVE ServerTypes'
  <2> DEFINE m == Head(up[s])
  <2>1. m.id \in SubscribeIds
    <3>1. up[s] \in Seq(SubscribeMsg) /\ up[s] # <<>>
      BY <1>2 DEF Types, TransportTypeOK, ServerReceives, ServerTakeMessage
    <3>2. m \in SubscribeMsg
      BY <3>1
    <3>3. QED
      BY <3>2 DEF SubscribeMsg
  <2>2. s \in 0..MaxSockets
    BY Bounds DEF Sockets
  <2> HIDE DEF m
  <2>3. ReceivedSignalSubscribe(s, m) \/ ReceivedSignalUnsubscribe(m)
    BY <1>2 DEF ServerReceives, m
  <2>4. UNCHANGED <<source, initialized>>
    BY <1>2 DEF ServerReceives
  <2>5. CASE ReceivedSignalSubscribe(s, m)
    BY <1>0, <2>1, <2>2, <2>4, <2>5 DEF ReceivedSignalSubscribe
  <2>6. CASE ReceivedSignalUnsubscribe(m)
    BY <1>0, <2>1, <2>4, <2>6 DEF ReceivedSignalUnsubscribe
  <2>7. QED
    BY <2>3, <2>5, <2>6
<1>3. ASSUME NEW i \in SubscribeIds, SignalHandlerReturns(i) PROVE ServerTypes'
  BY <1>0, <1>3 DEF SignalHandlerReturns
<1>4. ASSUME NEW i \in SubscribeIds, SignalHandlerThrows(i) PROVE ServerTypes'
  BY <1>0, <1>4 DEF SignalHandlerThrows
<1>5. CASE SourceChanges
  <2>1. source' \in Values
    BY <1>0, <1>5, Bounds DEF SourceChanges, Values, NotAvailable
  <2>2. \A i \in SubscribeIds : (initialized[i] \/ i \in Open) \in BOOLEAN
    OBVIOUS
  <2>3. initialized' \in [SubscribeIds -> BOOLEAN]
    BY <1>5, <2>2 DEF SourceChanges
  <2>4. QED
    BY <1>0, <1>5, <2>1, <2>3 DEF SourceChanges
<1>6. ASSUME NEW s \in Sockets, ServerConnectionLost(s) PROVE ServerTypes'
  BY <1>0, <1>6 DEF ServerConnectionLost
<1>7. QED
  BY <1>1, <1>2, <1>3, <1>4, <1>5, <1>6 DEF Next, LazySignalStep, Subscribe, Pull, Attach, Unsubscribe,
     ConnectStep, UrlStep, NetworkStep, ConnectionOpens, ConnectionLost, ClientReceives,
     ServerStep, StartDispose, FinishDispose, vars

LEMMA TypesKept ==
    ASSUME Types, ConnectionInv, WiresFollowSockets, LazyInv, AnswersAgree, [Next]_vars
    PROVE  Types' /\ ConnectionInv' /\ WiresFollowSockets'
<1>0. StaysDisposed /\ TransportStep
  BY NextStaysDisposed, NextIsTransportStep
<1>1. TransportTypeOK(SubscribeMsg, UpdateMsg) /\ ConnectionTypeOK
  BY DEF Types, TransportTypeOK, ConnectionTypeOK
<1>2. ConnectionTypeOK' /\ ConnectionInv'
  BY <1>0, <1>1, StepKeepsConnection
<1>3. WiresFollowSockets'
  BY <1>0, <1>1, StepKeepsWires
<1>4. server' \in [Sockets -> {"none", "open", "closed"}]
  BY <1>0, <1>1, StepKeepsServerType
<1>5. TransportTypeOK(SubscribeMsg, UpdateMsg)'
  BY <1>2, <1>4, UpTypes, DownTypes, DisposeTypes DEF TransportTypeOK, ConnectionTypeOK
<1>6. QED
  BY <1>2, <1>3, <1>5, ClientTypesKept, ServerTypesKept DEF Types

-----------------------------------------------------------------------------
(* The signal at the client.                                               *)

LEMMA CountOfOne ==
    ASSUME NEW i, UpdateOpenCommunicationsCount,
           openSignalSubscriptions' = {} \/ openSignalSubscriptions' = {i}
    PROVE  openCommunicationsCount' \in 0..1
<1>1. Cardinality({}) = 0 /\ Cardinality({i}) = 1
  BY FS_EmptySet, FS_Singleton
<1>2. QED
  BY <1>1 DEF UpdateOpenCommunicationsCount

LEMMA RegisterLazy ==
    ASSUME Types, Register, upstream = None, openSignalSubscriptions = {}
    PROVE  /\ upstream' \in Int /\ upstream' # None /\ upstream' < nextSubscribeId'
           /\ openSignalSubscriptions' = {upstream'}
           /\ openCommunicationsCount' \in 0..1
<1>1. /\ upstream' = nextSubscribeId /\ nextSubscribeId' = nextSubscribeId + 1
      /\ openSignalSubscriptions' = {nextSubscribeId} /\ UpdateOpenCommunicationsCount
  BY DEF Register
<1>2. nextSubscribeId \in Nat
  BY Bounds DEF Types, ClientTypes
<1>3. openCommunicationsCount' \in 0..1
  BY <1>1, CountOfOne
<1>4. QED
  BY <1>1, <1>2, <1>3 DEF None

LEMMA AttachLazy ==
    ASSUME Types, LazyInv, Attach, subscribers' + pulls' > 0, UNCHANGED error,
           subscribers > 0 => subscribers' > 0, pulls' = pulls \/ stale
    PROVE  LazyInv'
<1>0. error \in {"none", "transport", "server"} /\ recoverable \in BOOLEAN
  BY DEF Types, ClientTypes
<1>1. CASE upstream = None /\ ~hasError
  <2>1. /\ upstream' # None /\ upstream' < nextSubscribeId'
        /\ openSignalSubscriptions' = {upstream'} /\ openCommunicationsCount' \in 0..1
    BY <1>1, RegisterLazy DEF Attach, LazyInv
  <2>2. stale /\ stale' = stale
    BY <1>1 DEF LazyInv, Attach
  <2>3. recoverable' = recoverable
    BY DEF Attach
  <2>4. RecoveredOnConnection'
    BY <1>0, <1>1, <2>3 DEF RecoveredOnConnection, LazyInv, hasError
  <2>5. QED
    BY <1>1, <2>1, <2>2, <2>4 DEF LazyInv, hasError
<1>2. CASE ~(upstream = None /\ ~hasError)
  <2>1. UNCHANGED <<status, nextSubscribeId, openSignalSubscriptions, openCommunicationsCount,
                    upstream, recoverable, stale, error>>
    BY <1>2 DEF Attach, connectionVars
  <2>2. QED
    BY <2>1 DEF LazyInv, RecoveredOnConnection, hasError
<1>3. QED
  BY <1>1, <1>2

LEMMA LeaveLazy ==
    ASSUME Types, LazyInv, upstream # None, LeaveUpstream,
           UNCHANGED <<error, openCommunicationsCount>>
    PROVE  LazyInv'
<1>1. error = "none"
  BY DEF LazyInv, hasError
<1>2. /\ upstream' = None /\ stale' /\ openSignalSubscriptions' = {} /\ recoverable' = FALSE
  BY DEF LazyInv, LeaveUpstream
<1>3. QED
  BY <1>1, <1>2 DEF LazyInv, RecoveredOnConnection, hasError

LEMMA ErroredLazy ==
    ASSUME Types, LazyInv, Errored, status' = "Disconnected"
    PROVE  LazyInv'
<1>0. error \in {"none", "transport", "server"} /\ recoverable \in BOOLEAN
  BY DEF Types, ClientTypes
<1>1. openCommunicationsCount' = 0 /\ openSignalSubscriptions' = {}
  BY DEF Errored
<1>2. CASE openSignalSubscriptions # {}
  <2>1. recoverable' = TRUE /\ error' = "transport" /\ stale' = TRUE /\ upstream' = None
    BY <1>2 DEF Errored, LazySignalErrors
  <2>2. QED
    BY <1>1, <2>1 DEF LazyInv, RecoveredOnConnection
<1>3. CASE openSignalSubscriptions = {}
  <2>1. UNCHANGED <<recoverable, lazyVars>> /\ upstream = None
    BY <1>3 DEF Errored, LazyInv
  <2>2. QED
    BY <1>0, <1>1, <2>1 DEF LazyInv, RecoveredOnConnection, lazyVars
<1>4. QED
  BY <1>2, <1>3

LEMMA OpensLazy ==
    ASSUME Types, LazyInv, NEW s \in Sockets, ConnectionOpens(s)
    PROVE  LazyInv'
<1>0. /\ error \in {"none", "transport", "server"} /\ recoverable \in BOOLEAN
      /\ UNCHANGED <<subscribers, pulls>> /\ recoverable' = FALSE
  BY DEF Types, ClientTypes, ConnectionOpens
<1>1. recoverable = TRUE <=> error = "transport"
  BY <1>0 DEF LazyInv, RecoveredOnConnection
<1>2. CASE recoverable /\ hasError
  <2>1. error' = "none" /\ stale' = TRUE /\ upstream = None
    BY <1>2 DEF ConnectionOpens, LazyInv
  <2>2. RecoveredOnConnection' /\ ~hasError'
    BY <1>0, <2>1 DEF RecoveredOnConnection, hasError
  <2>3. CASE subscribers + pulls > 0
    <3>1. /\ upstream' # None /\ upstream' < nextSubscribeId'
          /\ openSignalSubscriptions' = {upstream'} /\ openCommunicationsCount' \in 0..1
      BY <1>2, <2>1, <2>3, RegisterLazy DEF ConnectionOpens, LazyInv
    <3>2. subscribers' + pulls' > 0
      BY <1>0, <2>3
    <3>3. QED
      BY <2>1, <2>2, <3>1, <3>2 DEF LazyInv
  <2>4. CASE ~(subscribers + pulls > 0)
    <3>1. UNCHANGED <<nextSubscribeId, openSignalSubscriptions, openCommunicationsCount, upstream>>
      BY <1>2, <2>4 DEF ConnectionOpens
    <3>2. QED
      BY <2>1, <2>2, <3>1 DEF LazyInv
  <2>5. QED
    BY <2>3, <2>4
<1>3. CASE ~(recoverable /\ hasError)
  <2>1. UNCHANGED <<nextSubscribeId, openSignalSubscriptions, openCommunicationsCount, upstream,
                    error, stale>>
    BY <1>3 DEF ConnectionOpens
  <2>2. error # "transport"
    BY <1>0, <1>1, <1>3 DEF hasError
  <2>3. RecoveredOnConnection'
    BY <1>0, <2>1, <2>2 DEF RecoveredOnConnection
  <2>4. QED
    BY <1>0, <2>1, <2>3 DEF LazyInv, hasError
<1>4. QED
  BY <1>2, <1>3

LEMMA ClientReceivesLazy ==
    ASSUME Types, LazyInv, NEW s \in Sockets, ClientReceives(s)
    PROVE  LazyInv'
<1> DEFINE m == Head(down[s])
<1>0. /\ error \in {"none", "transport", "server"} /\ recoverable \in BOOLEAN
      /\ subscribers \in Nat /\ pulls \in Nat
  BY Bounds DEF Types, ClientTypes
<1> HIDE DEF m
<1>1. CASE ReceivedSignalUpdate(s, m)
  <2>1. upstream # None /\ m.id = upstream
    BY <1>1 DEF ReceivedSignalUpdate, LazyInv
  <2>2. pulls' = 0 /\ UNCHANGED <<error, openCommunicationsCount, nextSubscribeId, subscribers>>
    BY <1>1 DEF ReceivedSignalUpdate
  <2>3. CASE stale /\ pulls > 0 /\ subscribers = 0
    BY <1>1, <2>1, <2>2, <2>3, LeaveLazy DEF ReceivedSignalUpdate
  <2>4. CASE ~(stale /\ pulls > 0 /\ subscribers = 0)
    <3>1. stale' = FALSE /\ UNCHANGED <<connectionVars, openSignalSubscriptions, recoverable, upstream>>
      BY <1>1, <2>4 DEF ReceivedSignalUpdate
    <3>2. subscribers > 0
      BY <1>0, <2>1, <2>4 DEF LazyInv
    <3>3. subscribers' > 0 /\ subscribers' + pulls' > 0
      BY <1>0, <2>2, <3>2
    <3>4. RecoveredOnConnection'
      BY <2>2, <3>1 DEF LazyInv, RecoveredOnConnection, connectionVars
    <3>5. QED
      BY <2>1, <2>2, <3>1, <3>3, <3>4 DEF LazyInv, hasError
  <2>5. QED
    BY <2>3, <2>4
<1>2. CASE ReceivedSignalError(m) /\ status = "Connected"
  <2>1. m.id = upstream
    BY <1>2 DEF ReceivedSignalError, LazyInv
  <2>2. openSignalSubscriptions' = {}
    BY <1>2, <2>1 DEF ReceivedSignalError, LazyInv
  <2>3. openCommunicationsCount' \in 0..1
    BY <1>2, <2>2, CountOfOne DEF ReceivedSignalError
  <2>4. error' = "server" /\ stale' = TRUE /\ upstream' = None /\ recoverable' = recoverable
    BY <1>2 DEF ReceivedSignalError, LazySignalErrors
  <2>5. recoverable = FALSE
    BY <1>0, <1>2 DEF LazyInv, RecoveredOnConnection
  <2>6. QED
    BY <2>2, <2>3, <2>4, <2>5 DEF LazyInv, RecoveredOnConnection
<1>3. CASE UNCHANGED <<connectionVars, clientVars>>
  BY <1>3 DEF clientVars, portVars, lazyVars, connectionVars, LazyInv, RecoveredOnConnection, hasError
<1>4. QED
  BY <1>1, <1>2, <1>3 DEF ClientReceives, m

LEMMA LazyKept ==
    ASSUME Types, LazyInv, [Next]_vars
    PROVE  LazyInv'
<1>0. subscribers \in Nat /\ pulls \in Nat
  BY Bounds DEF Types, ClientTypes
<1>1. CASE Subscribe
  BY <1>0, <1>1, AttachLazy DEF Subscribe, Attach
<1>2. CASE Pull
  BY <1>0, <1>2, AttachLazy DEF Pull, Attach
<1>3. CASE Unsubscribe
  <2>1. CASE subscribers' + pulls = 0 /\ upstream # None
    BY <1>3, <2>1, LeaveLazy DEF Unsubscribe
  <2>2. CASE ~(subscribers' + pulls = 0 /\ upstream # None)
    <3>1. UNCHANGED <<connectionVars, openSignalSubscriptions, recoverable, upstream, stale, error,
                      nextSubscribeId, openCommunicationsCount, pulls>>
          /\ subscribers' \in Nat
      BY <1>0, <1>3, <2>2 DEF Unsubscribe
    <3>2. RecoveredOnConnection'
      BY <3>1 DEF LazyInv, RecoveredOnConnection, connectionVars
    <3>3. upstream' = upstream /\ pulls' = pulls /\ subscribers' \in Nat /\ stale' = stale
      BY <3>1
    <3>4. upstream' # None => subscribers' + pulls' > 0
      <4>1. \A a, b \in Nat : a + b # 0 => a + b > 0
        OBVIOUS
      <4>2. upstream' # None => subscribers' + pulls # 0
        BY <2>2, <3>3
      <4>3. QED
        BY <1>0, <3>3, <4>1, <4>2
    <3>5. ~stale' => upstream' # None /\ pulls' = 0
      BY <3>3 DEF LazyInv
    <3>6. ~stale' => subscribers' > 0
      <4>1. \A a \in Nat : a + 0 > 0 => a > 0
        OBVIOUS
      <4>2. QED
        BY <3>3, <3>4, <3>5, <4>1
    <3>7. QED
      BY <3>1, <3>2, <3>4, <3>5, <3>6 DEF LazyInv, hasError
  <2>3. QED
    BY <2>1, <2>2
<1>4. ASSUME NEW s \in Sockets, ConnectionLost(s) PROVE LazyInv'
  <2>1. status' = "Disconnected"
    BY <1>4 DEF ConnectionLost, SocketErrors, SocketCloses, OnWsError
  <2>2. CASE UNCHANGED clientVars
    BY <2>1, <2>2 DEF clientVars, portVars, lazyVars, LazyInv, RecoveredOnConnection, hasError
  <2>3. QED
    BY <1>4, <2>1, <2>2, ErroredLazy DEF ConnectionLost
<1>5. CASE FinishDispose
  BY <1>5, ErroredLazy DEF FinishDispose, DisposeCloses
<1>6. CASE UNCHANGED clientVars /\ (status' = status \/ status' = "Connecting")
  BY <1>6 DEF clientVars, portVars, lazyVars, LazyInv, RecoveredOnConnection, hasError
<1>7. CASE ConnectStep \/ UrlStep \/ ServerStep \/ StartDispose \/ UNCHANGED vars
  BY <1>6, <1>7 DEF ConnectStep, UrlStep, EnsureConnectedOrStartConnection, Connect, UrlSettles,
     ServerStep, SourceChanges, SignalHandlerReturns, SignalHandlerThrows, StartDispose,
     DisposeWaits, vars, transportVars, connectionVars
<1>8. ASSUME NEW s \in Sockets, ServerReceives(s) \/ ServerConnectionLost(s) PROVE LazyInv'
  BY <1>6, <1>8 DEF ServerReceives, ServerTakeMessage, ServerConnectionLost, ServerSocketCloses,
     connectionVars
<1>9. QED
  BY <1>1, <1>2, <1>3, <1>4, <1>5, <1>7, <1>8, OpensLazy, ClientReceivesLazy DEF Next,
     LazySignalStep, NetworkStep

-----------------------------------------------------------------------------
(* The messages to the server.                                             *)

(* Every message is a subscribe or an unsubscribe. *)
LEMMA SubscribeMsgs ==
    ASSUME NEW m \in SubscribeMsg
    PROVE  /\ m.id \in SubscribeIds
           /\ m = Sub(m.id) \/ m = Unsub(m.id)
           /\ m.type = "signalSubscribe" <=> m = Sub(m.id)
           /\ m.type = "signalUnsubscribe" <=> m = Unsub(m.id)
  BY DEF SubscribeMsg, Sub, Unsub

LEMMA MessagesDiffer ==
    ASSUME NEW i, NEW j
    PROVE  /\ Sub(i) # Unsub(j) /\ Sub(i).id = i /\ Unsub(i).id = i
           /\ Sub(i) = Sub(j) => i = j
           /\ Unsub(i) = Unsub(j) => i = j
  BY DEF Sub, Unsub

LEMMA WireType ==
    ASSUME Types
    PROVE  /\ Wire \in [Places -> Seq(SubscribeMsg)]
           /\ Sockets \subseteq Places /\ 0 \in Places /\ 0 \notin Sockets
           /\ Places = {0} \cup Sockets
           /\ ws \in Places /\ Current \in Places
  BY WiresType DEF Types

LEMMA SendCarries ==
    ASSUME Types, ConnectionInv, NEW msg \in SubscribeMsg, SafeSend(msg)
    PROVE  /\ Current' = Current
           /\ \A l \in Places : \A x :
                /\ Carries(Wire'[l], x) => Carries(Wire[l], x) \/ (l = Current /\ x = msg)
                /\ Carries(Wire[l], x) => Carries(Wire'[l], x)
                /\ Once(Wire[l], x) /\ (x = msg => ~Carries(Wire[l], x)) => Once(Wire'[l], x)
           /\ Carries(Wire'[Current], msg) \/ (Current \in Sockets /\ server[Current] # "open")
<1>0. TransportTypeOK(SubscribeMsg, UpdateMsg) /\ (Transmit(msg) \/ TransmitThrows(msg))
  BY DEF Types, SafeSend
<1>1. /\ Current' = Current
      /\ \A l \in Places : \/ Wire'[l] = Wire[l]
                           \/ l = Current /\ Wire'[l] = Append(Wire[l], msg)
      /\ \/ Wire'[Current] = Append(Wire[Current], msg)
         \/ Current \in Sockets /\ server[Current] # "open"
  BY <1>0, SendWires
<1>2. \A l \in Places : Wire[l] \in Seq(SubscribeMsg)
  BY WireType
<1>3. \A l \in Places : \A x :
        /\ Carries(Append(Wire[l], msg), x) <=> Carries(Wire[l], x) \/ x = msg
        /\ Once(Wire[l], x) /\ (x = msg => ~Carries(Wire[l], x)) => Once(Append(Wire[l], msg), x)
  BY <1>2, CarriesAppend
<1>4. Current \in Places
  BY WireType
<1>5. Carries(Wire'[Current], msg) \/ (Current \in Sockets /\ server[Current] # "open")
  BY <1>1, <1>3, <1>4
<1>6. QED
  BY <1>1, <1>3, <1>5

LEMMA OpenCarries ==
    ASSUME Types, ConnectionInv, WiresFollowSockets, NEW s \in Sockets, OpenKind(s)
    PROVE  /\ s \in Places /\ s # 0 /\ s = ws /\ Current = 0 /\ Current' = s
           /\ server[s] = "none"
           /\ \A x : ~Carries(Wire[s], x) /\ ~Carries(Wire'[0], x)
           /\ \A l \in Places \ {0, s} : Wire'[l] = Wire[l]
           /\ \/ UNCHANGED <<nextSubscribeId, upstream>> /\ Wire'[s] = Wire[0]
              \/ /\ Registers
                 /\ \A x : /\ Carries(Wire'[s], x) <=>
                                Carries(Wire[0], x) \/ x = Sub(nextSubscribeId)
                           /\ Once(Wire[0], x)
                                /\ (x = Sub(nextSubscribeId) => ~Carries(Wire[0], x))
                              => Once(Wire'[s], x)
<1>0. TransportTypeOK(SubscribeMsg, UpdateMsg) /\ Wire[0] \in Seq(SubscribeMsg)
  BY WireType DEF Types
<1>1. ASSUME NEW msgs \in Seq(SubscribeMsg), OnWsOpen(s, msgs)
      PROVE  /\ s \in Places /\ s # 0 /\ s = ws /\ Current = 0 /\ Current' = s
             /\ Wire[s] = <<>> /\ Wire'[s] = Wire[0] \o msgs /\ Wire'[0] = <<>>
             /\ \A l \in Places \ {0, s} : Wire'[l] = Wire[l]
             /\ server[s] = "none"
             /\ \A x : ~Carries(Wire[s], x) /\ ~Carries(Wire'[0], x)
  <2>1. /\ s \in Places /\ s # 0 /\ s = ws /\ Current = 0 /\ Current' = s
        /\ Wire[s] = <<>> /\ Wire'[s] = Wire[0] \o msgs /\ Wire'[0] = <<>>
        /\ \A l \in Places \ {0, s} : Wire'[l] = Wire[l]
    BY <1>0, <1>1, OpenWires
  <2>2. server[s] = "none"
    BY <1>1, OpeningSocket DEF OnWsOpen
  <2>3. \A x : ~Carries(<<>>, x)
    BY DEF Carries
  <2>4. QED
    BY <2>1, <2>2, <2>3
<1>2. CASE OnWsOpen(s, <<>>) /\ UNCHANGED <<nextSubscribeId, upstream>>
  <2>1. <<>> \in Seq(SubscribeMsg) /\ Wire[0] \o <<>> = Wire[0]
    BY <1>0
  <2>2. /\ s \in Places /\ s # 0 /\ s = ws /\ Current = 0 /\ Current' = s
        /\ Wire'[s] = Wire[0] \o <<>>
        /\ \A l \in Places \ {0, s} : Wire'[l] = Wire[l]
        /\ server[s] = "none"
        /\ \A x : ~Carries(Wire[s], x) /\ ~Carries(Wire'[0], x)
    BY <1>1, <1>2, <2>1
  <2>3. QED
    BY <1>2, <2>1, <2>2
<1>3. CASE OnWsOpen(s, <<Sub(nextSubscribeId)>>) /\ Registers
  <2>1. Sub(nextSubscribeId) \in SubscribeMsg
    BY <1>3, MessageTypes DEF Registers
  <2>2. <<Sub(nextSubscribeId)>> \in Seq(SubscribeMsg)
    BY <2>1
  <2>3. /\ s \in Places /\ s # 0 /\ s = ws /\ Current = 0 /\ Current' = s
        /\ Wire'[s] = Wire[0] \o <<Sub(nextSubscribeId)>>
        /\ \A l \in Places \ {0, s} : Wire'[l] = Wire[l]
        /\ server[s] = "none"
        /\ \A x : ~Carries(Wire[s], x) /\ ~Carries(Wire'[0], x)
    BY <1>1, <1>3, <2>2
  <2>4. Wire[0] \o <<Sub(nextSubscribeId)>> = Append(Wire[0], Sub(nextSubscribeId))
    BY <1>0, <2>1
  <2>5. \A x : /\ Carries(Append(Wire[0], Sub(nextSubscribeId)), x) <=>
                    Carries(Wire[0], x) \/ x = Sub(nextSubscribeId)
               /\ Once(Wire[0], x) /\ (x = Sub(nextSubscribeId) => ~Carries(Wire[0], x))
                  => Once(Append(Wire[0], Sub(nextSubscribeId)), x)
    BY <1>0, <2>1, CarriesAppend
  <2>6. QED
    BY <1>3, <2>3, <2>4, <2>5
<1>4. QED
  BY <1>2, <1>3 DEF OpenKind

LEMMA TakeCarries ==
    ASSUME Types, NEW s \in Sockets, ServerReceives(s)
    PROVE  /\ s \in Places /\ Head(up[s]) \in SubscribeMsg /\ server[s] = "open"
           /\ Current' = Current
           /\ \A l \in Places \ {s} : Wire'[l] = Wire[l]
           /\ \A x : /\ Carries(Wire[s], x) <=> Carries(Wire'[s], x) \/ x = Head(up[s])
                     /\ Once(Wire[s], x) =>
                          Once(Wire'[s], x) /\ (x = Head(up[s]) => ~Carries(Wire'[s], x))
<1>0. TransportTypeOK(SubscribeMsg, UpdateMsg) /\ ServerTakeMessage(s)
  BY DEF Types, ServerReceives
<1>1. /\ s \in Places /\ Wire[s] # <<>> /\ Wire'[s] = Tail(Wire[s])
      /\ Head(up[s]) = Wire[s][1] /\ 1 \in 1..Len(Wire[s]) /\ server[s] = "open"
      /\ \A l \in Places \ {s} : Wire'[l] = Wire[l]
      /\ Current' = Current
  BY <1>0, TakeWires
<1>2. Wire[s] \in Seq(SubscribeMsg)
  BY <1>1, WireType
<1>3. Head(up[s]) = Head(Wire[s]) /\ Head(up[s]) \in SubscribeMsg
  BY <1>1, <1>2
<1>4. QED
  BY <1>1, <1>2, <1>3, CarriesTail

LEMMA CloseCarries ==
    ASSUME Types, NEW s \in Sockets, ServerConnectionLost(s)
    PROVE  /\ s \in Places /\ Current' = Current
           /\ \A l \in Places \ {s} : Wire'[l] = Wire[l]
           /\ \A x : ~Carries(Wire'[s], x) /\ Once(Wire'[s], x)
<1>0. TransportTypeOK(SubscribeMsg, UpdateMsg) /\ ServerSocketCloses(s)
  BY DEF Types, ServerConnectionLost
<1>1. /\ s \in Places /\ Wire'[s] = <<>>
      /\ \A l \in Places \ {s} : Wire'[l] = Wire[l]
      /\ Current' = Current
  BY <1>0, CloseWires
<1>2. QED
  BY <1>1 DEF Carries, Once

(* The steps that leave the messages to the server where they are. *)
WireStays ==
    \/ ErroredKind \/ ClientKind \/ ConnectKind \/ ServerStep
    \/ \E s \in Sockets : SilentLossKind(s)

LEMMA WireStaysSame ==
    ASSUME WireStays
    PROVE  Wire' = Wire /\ nextSubscribeId' = nextSubscribeId
<1>1. UNCHANGED <<queued, up, nextSubscribeId>>
  BY DEF WireStays, ErroredKind, ClientKind, ConnectKind, ConnectStep, UrlStep,
     EnsureConnectedOrStartConnection, UrlSettles, ServerStep, SourceChanges, SignalHandlerReturns,
     SignalHandlerThrows, SilentLossKind, SocketErrors, SocketCloses, OnWsError, connectionVars,
     clientVars, portVars
<1>2. QED
  BY <1>1, OtherWires

LEMMA KindsByWire ==
    ASSUME Types, LazyInv, AnswersAgree, [Next]_vars
    PROVE  \/ SubscribeKind \/ LeaveKind \/ WireStays
           \/ \E s \in Sockets : OpenKind(s) \/ ServerReceives(s) \/ ServerConnectionLost(s)
  BY StepKinds DEF WireStays

-----------------------------------------------------------------------------
(* What the server does with the subscription i.                           *)

(* The message the server takes. *)
LEMMA TakenMessage ==
    ASSUME Types, NEW s \in Sockets, ServerReceives(s)
    PROVE  /\ UNCHANGED <<clientVars, server, status, ws, down, source, initialized>>
           /\ \E j \in SubscribeIds :
                \/ /\ Head(up[s]) = Sub(j) /\ subscription[j] # "open"
                   /\ subscription' = [subscription EXCEPT ![j] = "starting"]
                   /\ home' = [home EXCEPT ![j] = s] /\ toClose' = toClose
                \/ /\ Head(up[s]) = Unsub(j) /\ home' = home
                   /\ \/ /\ subscription[j] = "open" /\ toClose' = toClose
                         /\ subscription' = [subscription EXCEPT ![j] = "closed"]
                      \/ /\ subscription[j] # "open" /\ toClose' = toClose \cup {j}
                         /\ subscription' = subscription
<1> DEFINE m == Head(up[s])
<1>1. m \in SubscribeMsg
  BY TakeCarries
<1> HIDE DEF m
<1>2. /\ m.id \in SubscribeIds
      /\ m.type = "signalSubscribe" <=> m = Sub(m.id)
      /\ m.type = "signalUnsubscribe" <=> m = Unsub(m.id)
  BY <1>1, SubscribeMsgs
<1>3. UNCHANGED <<clientVars, server, status, ws, down, source, initialized>>
  BY DEF ServerReceives, ServerTakeMessage, connectionVars
<1>4. ReceivedSignalSubscribe(s, m) \/ ReceivedSignalUnsubscribe(m)
  BY DEF ServerReceives, m
<1>5. QED
  BY <1>2, <1>3, <1>4 DEF ReceivedSignalSubscribe, ReceivedSignalUnsubscribe, m

LEMMA NoneStays ==
    ASSUME Types, NEW i \in SubscribeIds, subscription[i] = "none",
           WireStays \/ \E s \in Sockets : ServerConnectionLost(s)
    PROVE  subscription'[i] = "none"
<1>0. subscription \in [SubscribeIds -> {"none", "starting", "open", "closed", "failed"}]
  BY DEF Types, ServerTypes
<1>1. CASE UNCHANGED serverVars
  BY <1>1 DEF serverVars
<1>2. CASE ServerStep
  BY <1>0, <1>2 DEF ServerStep, SourceChanges, SignalHandlerReturns, SignalHandlerThrows
<1>3. ASSUME NEW s \in Sockets, ServerConnectionLost(s) PROVE subscription'[i] = "none"
  BY <1>0, <1>3 DEF ServerConnectionLost, Open
<1>4. QED
  BY <1>1, <1>2, <1>3 DEF WireStays, ErroredKind, ClientKind, ConnectKind, ConnectStep, UrlStep,
     SilentLossKind

LEMMA SubscribesOnceKept ==
    ASSUME Types, ConnectionInv, WiresFollowSockets, LazyInv, AnswersAgree, [Next]_vars,
           NEW i \in SubscribeIds, SubscribesOnce(i), HomeAgrees(i)
    PROVE  SubscribesOnce(i)'
<1>0. /\ i \in Nat /\ nextSubscribeId \in Nat
      /\ subscription \in [SubscribeIds -> {"none", "starting", "open", "closed", "failed"}]
  BY Bounds DEF SubscribeIds, Types, ClientTypes, ServerTypes
<1>1. /\ \A l \in Places : Once(Wire[l], Sub(i))
      /\ \A l1, l2 \in Places :
           Carries(Wire[l1], Sub(i)) /\ Carries(Wire[l2], Sub(i)) => l1 = l2
      /\ \A l \in Places :
           Carries(Wire[l], Sub(i)) => i < nextSubscribeId /\ subscription[i] = "none"
  BY DEF SubscribesOnce
<1> SUFFICES /\ \A l \in Places : Once(Wire'[l], Sub(i))
             /\ \A l1, l2 \in Places :
                  Carries(Wire'[l1], Sub(i)) /\ Carries(Wire'[l2], Sub(i)) => l1 = l2
             /\ \A l \in Places :
                  Carries(Wire'[l], Sub(i)) => i < nextSubscribeId' /\ subscription'[i] = "none"
  BY DEF SubscribesOnce, Places
<1>2. 0 \in Places /\ Current \in Places
  BY WireType
<1>3. CASE WireStays
  BY <1>1, <1>3, WireStaysSame, NoneStays
<1>4. ASSUME NEW msg \in SubscribeMsg, SafeSend(msg), UNCHANGED subscription,
             nextSubscribeId' \in Nat, nextSubscribeId' >= nextSubscribeId,
             msg = Sub(i) => nextSubscribeId = i /\ nextSubscribeId' = i + 1
      PROVE  /\ \A l \in Places : Once(Wire'[l], Sub(i))
             /\ \A l1, l2 \in Places :
                  Carries(Wire'[l1], Sub(i)) /\ Carries(Wire'[l2], Sub(i)) => l1 = l2
             /\ \A l \in Places :
                  Carries(Wire'[l], Sub(i)) => i < nextSubscribeId' /\ subscription'[i] = "none"
  <2>1. \A l \in Places :
          /\ Carries(Wire'[l], Sub(i)) => Carries(Wire[l], Sub(i)) \/ (l = Current /\ Sub(i) = msg)
          /\ Once(Wire[l], Sub(i)) /\ (Sub(i) = msg => ~Carries(Wire[l], Sub(i)))
               => Once(Wire'[l], Sub(i))
    BY <1>4, SendCarries
  <2>2. CASE msg = Sub(i)
    <3>1. nextSubscribeId = i /\ nextSubscribeId' = i + 1 /\ subscription[i] = "none"
      BY <1>0, <1>4, <2>2 DEF HomeAgrees
    <3>2. \A l \in Places : ~Carries(Wire[l], Sub(i))
      BY <1>0, <1>1, <3>1
    <3>3. QED
      BY <1>0, <1>1, <1>4, <2>1, <2>2, <3>1, <3>2
  <2>3. CASE msg # Sub(i)
    BY <1>0, <1>1, <1>4, <2>1, <2>3
  <2>4. QED
    BY <2>2, <2>3
<1>5. CASE SubscribeKind
  <2>1. nextSubscribeId \in SubscribeIds /\ nextSubscribeId' = nextSubscribeId + 1
        /\ SafeSend(Sub(nextSubscribeId)) /\ UNCHANGED subscription
    BY <1>5 DEF SubscribeKind, Registers, serverVars
  <2>2. Sub(nextSubscribeId) \in SubscribeMsg
    BY <2>1, MessageTypes
  <2>3. Sub(nextSubscribeId) = Sub(i) => nextSubscribeId = i
    BY MessagesDiffer
  <2>4. nextSubscribeId' \in Nat /\ nextSubscribeId' >= nextSubscribeId
    BY <1>0, <2>1
  <2>5. QED
    BY <1>4, <2>1, <2>2, <2>3, <2>4
<1>6. CASE LeaveKind
  <2>1. Unsub(upstream) \in SubscribeMsg
    BY <1>6, MessageTypes DEF LeaveKind, Types, ClientTypes
  <2>2. Unsub(upstream) # Sub(i)
    BY MessagesDiffer
  <2>3. SafeSend(Unsub(upstream)) /\ UNCHANGED <<subscription, nextSubscribeId>>
    BY <1>6 DEF LeaveKind, serverVars
  <2>4. nextSubscribeId' \in Nat /\ nextSubscribeId' >= nextSubscribeId
    BY <1>0, <2>3
  <2>5. QED
    BY <1>4, <2>1, <2>2, <2>3, <2>4
<1>7. ASSUME NEW s \in Sockets, OpenKind(s)
      PROVE  /\ \A l \in Places : Once(Wire'[l], Sub(i))
             /\ \A l1, l2 \in Places :
                  Carries(Wire'[l1], Sub(i)) /\ Carries(Wire'[l2], Sub(i)) => l1 = l2
             /\ \A l \in Places :
                  Carries(Wire'[l], Sub(i)) => i < nextSubscribeId' /\ subscription'[i] = "none"
  <2>1. /\ s \in Places /\ s # 0
        /\ ~Carries(Wire[s], Sub(i)) /\ ~Carries(Wire'[0], Sub(i))
        /\ \A l \in Places \ {0, s} : Wire'[l] = Wire[l]
        /\ \/ UNCHANGED <<nextSubscribeId, upstream>> /\ Wire'[s] = Wire[0]
           \/ /\ Registers
              /\ Carries(Wire'[s], Sub(i)) <=>
                   Carries(Wire[0], Sub(i)) \/ Sub(i) = Sub(nextSubscribeId)
              /\ Once(Wire[0], Sub(i))
                   /\ (Sub(i) = Sub(nextSubscribeId) => ~Carries(Wire[0], Sub(i)))
                 => Once(Wire'[s], Sub(i))
    BY <1>7, OpenCarries
  <2>2. UNCHANGED subscription
    BY <1>7 DEF OpenKind, serverVars
  <2>3. Once(Wire'[0], Sub(i))
    BY <2>1 DEF Carries, Once
  <2>4. CASE UNCHANGED <<nextSubscribeId, upstream>> /\ Wire'[s] = Wire[0]
    <3>1. \A l \in Places : Once(Wire'[l], Sub(i))
      BY <1>1, <1>2, <2>1, <2>3, <2>4
    <3>2. \A l \in Places : Carries(Wire'[l], Sub(i)) => l # 0 /\ (l = s \/ Wire'[l] = Wire[l])
      BY <2>1
    <3>3. QED
      BY <1>1, <1>2, <2>1, <2>2, <2>4, <3>1, <3>2
  <2>5. CASE /\ Registers
             /\ Carries(Wire'[s], Sub(i)) <=>
                  Carries(Wire[0], Sub(i)) \/ Sub(i) = Sub(nextSubscribeId)
             /\ Once(Wire[0], Sub(i))
                  /\ (Sub(i) = Sub(nextSubscribeId) => ~Carries(Wire[0], Sub(i)))
                => Once(Wire'[s], Sub(i))
    <3>1. nextSubscribeId' = nextSubscribeId + 1
      BY <2>5 DEF Registers
    <3>2. \A l \in Places : Carries(Wire'[l], Sub(i)) => l # 0 /\ (l = s \/ Wire'[l] = Wire[l])
      BY <2>1
    <3>3. CASE i = nextSubscribeId
      <4>1. \A l \in Places : ~Carries(Wire[l], Sub(i))
        BY <1>0, <1>1, <3>3
      <4>2. subscription[i] = "none"
        BY <1>0, <3>3 DEF HomeAgrees
      <4>3. \A l \in Places : Carries(Wire'[l], Sub(i)) => l = s
        BY <3>2, <4>1
      <4>4. \A l \in Places : Once(Wire'[l], Sub(i))
        BY <1>1, <1>2, <2>1, <2>3, <2>5, <4>1
      <4>5. QED
        BY <1>0, <2>2, <3>1, <3>3, <4>2, <4>3, <4>4
    <3>4. CASE i # nextSubscribeId
      <4>1. Sub(i) # Sub(nextSubscribeId)
        BY <3>4, MessagesDiffer
      <4>2. \A l \in Places : Once(Wire'[l], Sub(i))
        BY <1>1, <1>2, <2>1, <2>3, <2>5, <4>1
      <4>3. \A l1, l2 \in Places :
              Carries(Wire'[l1], Sub(i)) /\ Carries(Wire'[l2], Sub(i)) => l1 = l2
        BY <1>1, <1>2, <2>1, <2>5, <3>2, <4>1
      <4>4. \A l \in Places : Carries(Wire'[l], Sub(i)) => i < nextSubscribeId /\ subscription[i] = "none"
        BY <1>1, <1>2, <2>1, <2>5, <3>2, <4>1
      <4>5. QED
        BY <1>0, <2>2, <3>1, <4>2, <4>3, <4>4
    <3>5. QED
      BY <3>3, <3>4
  <2>6. QED
    BY <2>1, <2>4, <2>5
<1>8. ASSUME NEW s \in Sockets, ServerReceives(s)
      PROVE  /\ \A l \in Places : Once(Wire'[l], Sub(i))
             /\ \A l1, l2 \in Places :
                  Carries(Wire'[l1], Sub(i)) /\ Carries(Wire'[l2], Sub(i)) => l1 = l2
             /\ \A l \in Places :
                  Carries(Wire'[l], Sub(i)) => i < nextSubscribeId' /\ subscription'[i] = "none"
  <2>1. /\ s \in Places
        /\ \A l \in Places \ {s} : Wire'[l] = Wire[l]
        /\ Carries(Wire[s], Sub(i)) <=> Carries(Wire'[s], Sub(i)) \/ Sub(i) = Head(up[s])
        /\ Once(Wire[s], Sub(i)) =>
             Once(Wire'[s], Sub(i)) /\ (Sub(i) = Head(up[s]) => ~Carries(Wire'[s], Sub(i)))
    BY <1>8, TakeCarries
  <2>2. UNCHANGED nextSubscribeId
    BY <1>8, TakenMessage DEF clientVars, portVars
  <2>3. \A l \in Places : Carries(Wire'[l], Sub(i)) => Carries(Wire[l], Sub(i))
    BY <2>1
  <2>4. \A l \in Places : Carries(Wire'[l], Sub(i)) => Head(up[s]) # Sub(i)
    BY <1>1, <2>1
  <2>5. subscription[i] = "none" /\ Head(up[s]) # Sub(i) => subscription'[i] = "none"
    BY <1>0, <1>8, TakenMessage, MessagesDiffer
  <2>6. QED
    BY <1>1, <2>1, <2>2, <2>3, <2>4, <2>5
<1>9. ASSUME NEW s \in Sockets, ServerConnectionLost(s)
      PROVE  /\ \A l \in Places : Once(Wire'[l], Sub(i))
             /\ \A l1, l2 \in Places :
                  Carries(Wire'[l1], Sub(i)) /\ Carries(Wire'[l2], Sub(i)) => l1 = l2
             /\ \A l \in Places :
                  Carries(Wire'[l], Sub(i)) => i < nextSubscribeId' /\ subscription'[i] = "none"
  <2>1. /\ s \in Places
        /\ \A l \in Places \ {s} : Wire'[l] = Wire[l]
        /\ ~Carries(Wire'[s], Sub(i)) /\ Once(Wire'[s], Sub(i))
    BY <1>9, CloseCarries
  <2>2. UNCHANGED nextSubscribeId
    BY <1>9 DEF ServerConnectionLost, clientVars, portVars
  <2>3. subscription[i] = "none" => subscription'[i] = "none"
    BY <1>9, NoneStays
  <2>4. QED
    BY <1>1, <2>1, <2>2, <2>3
<1>10. QED
  BY <1>3, <1>5, <1>6, <1>7, <1>8, <1>9, KindsByWire

LEMMA NextIds ==
    ASSUME Types, LazyInv, AnswersAgree, [Next]_vars
    PROVE  nextSubscribeId' = nextSubscribeId \/ Registers
<1>1. ASSUME NEW s \in Sockets, ServerReceives(s) \/ ServerConnectionLost(s) \/ SilentLossKind(s)
      PROVE  nextSubscribeId' = nextSubscribeId
  BY <1>1 DEF ServerReceives, ServerConnectionLost, SilentLossKind, clientVars, portVars
<1>2. CASE ServerStep \/ ConnectKind
  BY <1>2 DEF ServerStep, SourceChanges, SignalHandlerReturns, SignalHandlerThrows, ConnectKind,
     ConnectStep, UrlStep, clientVars, portVars
<1>3. ASSUME NEW s \in Sockets, OpenKind(s) PROVE nextSubscribeId' = nextSubscribeId \/ Registers
  BY <1>3 DEF OpenKind
<1>4. QED
  BY <1>1, <1>2, <1>3, StepKinds DEF SubscribeKind, LeaveKind, ErroredKind, ClientKind

LEMMA HomeAgreesKept ==
    ASSUME Types, ConnectionInv, WiresFollowSockets, LazyInv, AnswersAgree, [Next]_vars,
           NEW i \in SubscribeIds, SubscribesOnce(i), HomeAgrees(i)
    PROVE  HomeAgrees(i)'
<1>0. /\ i \in Nat /\ nextSubscribeId \in Nat
      /\ subscription \in [SubscribeIds -> {"none", "starting", "open", "closed", "failed"}]
      /\ home \in [SubscribeIds -> 0..MaxSockets] /\ initialized \in [SubscribeIds -> BOOLEAN]
      /\ source \in Values \cup {NotAvailable} /\ MaxSockets \in Nat
  BY Bounds DEF SubscribeIds, Types, ClientTypes, ServerTypes
<1>01. server \in [Sockets -> {"none", "open", "closed"}]
  BY DEF Types, TransportTypeOK
<1>1. \A s \in Sockets : server[s] # "none" => server'[s] # "none"
  BY <1>01, NextIsTransportStep DEF TransportStep, Quiet, Sends, EnsureConnectedOrStartConnection,
     UrlSettles, DisposeCloses, SocketStep, OnWsOpen, SocketErrors, SocketCloses, OnWsError,
     ServerTakeMessage, ServerSocketCloses
<1>2. home[i] # 0 => home[i] \in Sockets
  BY <1>0 DEF Sockets
<1>3. nextSubscribeId' \in Nat /\ nextSubscribeId' >= nextSubscribeId
  <2>1. nextSubscribeId' = nextSubscribeId \/ nextSubscribeId' = nextSubscribeId + 1
    BY NextIds DEF Registers
  <2>2. QED
    BY <1>0, <2>1
<1>4. CASE UNCHANGED serverVars
  BY <1>0, <1>1, <1>2, <1>3, <1>4 DEF HomeAgrees, serverVars
<1>5. ASSUME NEW s \in Sockets, ServerReceives(s) PROVE HomeAgrees(i)'
  <2>1. UNCHANGED <<server, source, initialized, nextSubscribeId>>
    BY <1>5, TakenMessage DEF clientVars, portVars
  <2>2. CASE Head(up[s]) = Sub(i)
    <3>1. Carries(Wire[s], Sub(i)) /\ s \in Places /\ server[s] = "open" /\ s # 0
      BY <1>5, <2>2, TakeCarries DEF Sockets
    <3>2. i < nextSubscribeId /\ subscription[i] = "none"
      BY <3>1 DEF SubscribesOnce
    <3>3. ~initialized[i]
      BY <3>2 DEF HomeAgrees
    <3>4. subscription'[i] = "starting" /\ home'[i] = s
      BY <1>0, <1>5, <2>2, TakenMessage, MessagesDiffer
    <3>5. QED
      BY <1>0, <2>1, <3>1, <3>2, <3>3, <3>4 DEF HomeAgrees
  <2>3. CASE Head(up[s]) # Sub(i)
    <3>1. home'[i] = home[i] /\ (\/ subscription'[i] = subscription[i]
                                 \/ subscription[i] = "open" /\ subscription'[i] = "closed")
      BY <1>0, <1>5, <2>3, TakenMessage, MessagesDiffer
    <3>2. QED
      BY <2>1, <3>1 DEF HomeAgrees
  <2>4. QED
    BY <2>2, <2>3
<1>6. ASSUME NEW j \in SubscribeIds, SignalHandlerReturns(j) PROVE HomeAgrees(i)'
  <2>1. UNCHANGED <<server, source, home, nextSubscribeId>>
    BY <1>6 DEF SignalHandlerReturns, clientVars, portVars
  <2>2. CASE i = j
    BY <1>0, <1>6, <2>1, <2>2 DEF SignalHandlerReturns, HomeAgrees
  <2>3. CASE i # j
    BY <1>0, <1>6, <2>1, <2>3 DEF SignalHandlerReturns, HomeAgrees
  <2>4. QED
    BY <2>2, <2>3
<1>7. ASSUME NEW j \in SubscribeIds, SignalHandlerThrows(j) PROVE HomeAgrees(i)'
  BY <1>0, <1>7 DEF SignalHandlerThrows, HomeAgrees, clientVars, portVars
<1>8. CASE SourceChanges
  <2>1. source' # NotAvailable
    BY <1>0, <1>8, Bounds DEF SourceChanges, Values, NotAvailable
  <2>2. UNCHANGED <<server, subscription, home, nextSubscribeId>>
    BY <1>8 DEF SourceChanges, clientVars, portVars
  <2>3. initialized'[i] => initialized[i] \/ subscription[i] = "open"
    BY <1>8 DEF SourceChanges, Open
  <2>4. QED
    BY <2>1, <2>2, <2>3 DEF HomeAgrees
<1>9. ASSUME NEW s \in Sockets, ServerConnectionLost(s) PROVE HomeAgrees(i)'
  <2>1. UNCHANGED <<source, initialized, home, nextSubscribeId>>
    BY <1>9 DEF ServerConnectionLost, clientVars, portVars
  <2>2. \/ subscription'[i] = subscription[i]
        \/ subscription[i] = "open" /\ subscription'[i] = "closed"
    BY <1>0, <1>9 DEF ServerConnectionLost, Open
  <2>3. QED
    BY <1>1, <1>2, <2>1, <2>2 DEF HomeAgrees
<1>10. QED
  BY <1>4, <1>5, <1>6, <1>7, <1>8, <1>9, StepKinds DEF SubscribeKind, LeaveKind, ErroredKind,
     ClientKind, ConnectKind, ConnectStep, UrlStep, ServerStep, OpenKind, SilentLossKind

-----------------------------------------------------------------------------
(* The messages to the client.                                             *)

LEMMA AnsweredWhere ==
    ASSUME Types, NEW s \in Sockets, NEW t, NEW msgs \in Seq(UpdateMsg)
    PROVE  Answered(t, msgs)[s] =
             IF s = t /\ server[s] = "open" /\ client[s] \in {"open", "closing"}
             THEN down[s] \o msgs ELSE down[s]
  BY DEF Answered, Types, TransportTypeOK

LEMMA ConcatAt ==
    ASSUME NEW S, NEW q \in Seq(S), NEW r \in Seq(S), NEW k \in 1..Len(q \o r)
    PROVE  \/ k \in 1..Len(q) /\ (q \o r)[k] = q[k]
           \/ k - Len(q) \in 1..Len(r) /\ (q \o r)[k] = r[k - Len(q)]
  BY ConcatPoints

(* What the server sends in a step on the socket s: updates of the         *)
(* subscriptions that came on s, each of the value there is by then.       *)
SendsTo(s, r) ==
    /\ \A k \in 1..Len(r) : r[k].id \in SubscribeIds /\ home[r[k].id] = s
    /\ \/ /\ SourceChanges
          /\ \A k \in 1..Len(r) :
               r[k].id \in Open /\ r[k] = Update(r[k].id, source')
       \/ /\ source' = source
          /\ \E i \in SubscribeIds :
               /\ Len(r) <= 1 /\ \A k \in 1..Len(r) : r[k].id = i
               /\ \/ /\ SignalHandlerReturns(i) /\ source # NotAvailable /\ i \notin toClose
                     /\ \A k \in 1..Len(r) : r[k] = Update(i, source)
                  \/ /\ SignalHandlerThrows(i)
                     /\ \A k \in 1..Len(r) : r[k] = [type |-> "signalError", id |-> i]

LEMMA UpdateId ==
    ASSUME NEW i, NEW v
    PROVE  /\ Update(i, v).id = i
           /\ Update(i, v).type = IF initialized[i] THEN "patch" ELSE "replace"
           /\ ~initialized[i] => Update(i, v).value = v
  BY DEF Update

LEMMA ReturnSends ==
    ASSUME Types, NEW s \in Sockets, NEW i \in SubscribeIds, SignalHandlerReturns(i),
           down'[s] # down[s]
    PROVE  \E r \in Seq(UpdateMsg) : down'[s] = down[s] \o r /\ SendsTo(s, r)
<1>1. source # NotAvailable /\ i \notin toClose /\ down' = Answered(home[i], <<Update(i, source)>>)
  BY DEF SignalHandlerReturns
<1>2. Update(i, source) \in UpdateMsg
  BY <1>1, MessageTypes DEF Types, ServerTypes
<1> DEFINE r == <<Update(i, source)>>
<1>3. r \in Seq(UpdateMsg) /\ Len(r) = 1 /\ r[1] = Update(i, source)
  BY <1>2
<1> HIDE DEF r
<1>4. down' = Answered(home[i], r)
  BY <1>1 DEF r
<1>5. s = home[i] /\ down'[s] = down[s] \o r
  BY <1>3, <1>4, AnsweredWhere
<1>6. \A k \in 1..Len(r) : r[k] = Update(i, source) /\ r[k].id = i
  BY <1>3, UpdateId
<1>7. source' = source
  BY DEF SignalHandlerReturns
<1>8. SendsTo(s, r)
  BY <1>1, <1>3, <1>5, <1>6, <1>7 DEF SendsTo
<1>9. QED
  BY <1>3, <1>5, <1>8

LEMMA ThrowSends ==
    ASSUME Types, NEW s \in Sockets, NEW i \in SubscribeIds, SignalHandlerThrows(i),
           down'[s] # down[s]
    PROVE  \E r \in Seq(UpdateMsg) : down'[s] = down[s] \o r /\ SendsTo(s, r)
<1> DEFINE e == [type |-> "signalError", id |-> i]
           r == <<e>>
<1>1. e \in UpdateMsg
  BY MessageTypes
<1>2. r \in Seq(UpdateMsg) /\ Len(r) = 1 /\ r[1] = e /\ e.id = i
  BY <1>1
<1>3. down' = Answered(home[i], r) /\ source' = source
  BY DEF SignalHandlerThrows
<1> HIDE DEF e, r
<1>4. s = home[i] /\ down'[s] = down[s] \o r
  BY <1>2, <1>3, AnsweredWhere
<1>5. \A k \in 1..Len(r) : r[k] = e /\ r[k].id = i
  BY <1>2
<1>6. SendsTo(s, r)
  BY <1>2, <1>3, <1>4, <1>5 DEF SendsTo, e
<1>7. QED
  BY <1>2, <1>4, <1>6

LEMMA ChangeSends ==
    ASSUME Types, NEW s \in Sockets, SourceChanges
    PROVE  \E r \in Seq(UpdateMsg) :
             /\ down'[s] = IF server[s] = "open" /\ client[s] \in {"open", "closing"}
                           THEN down[s] \o r ELSE down[s]
             /\ SendsTo(s, r)
             /\ \A i \in Open : home[i] = s => \E k \in 1..Len(r) : r[k].id = i
             /\ \A j, k \in 1..Len(r) : r[j].id = r[k].id => j = k
<1> DEFINE told == {i \in Open : home[i] = s}
           msgs == {Update(i, source') : i \in told}
           r == SetToSeq(msgs)
<1>1. /\ IsFiniteSet(msgs) /\ msgs \subseteq UpdateMsg /\ r \in Seq(UpdateMsg)
      /\ down'[s] = Answered(s, r)[s]
  BY SourceChangesUpdates
<1>2. /\ r \in Seq(msgs)
      /\ \A x \in msgs : \E k \in 1..Len(r) : r[k] = x
      /\ \A j, k \in 1..Len(r) : r[j] = r[k] => j = k
  BY <1>1, SetToSeqPoints
<1> HIDE DEF r
<1>3. \A k \in 1..Len(r) : r[k] \in msgs
  BY <1>2
<1>4. \A x \in msgs : x.id \in told /\ x = Update(x.id, source')
  BY UpdateId
<1>5. told \subseteq SubscribeIds
  BY DEF Open
<1>6. down'[s] = IF server[s] = "open" /\ client[s] \in {"open", "closing"}
                THEN down[s] \o r ELSE down[s]
  BY <1>1, AnsweredWhere
<1>7. SendsTo(s, r)
  BY <1>3, <1>4, <1>5 DEF SendsTo
<1>8. \A i \in Open : home[i] = s => \E k \in 1..Len(r) : r[k].id = i
  <2> SUFFICES ASSUME NEW i \in Open, home[i] = s PROVE \E k \in 1..Len(r) : r[k].id = i
    OBVIOUS
  <2>1. PICK k \in 1..Len(r) : r[k] = Update(i, source')
    BY <1>2
  <2>2. QED
    BY <2>1, UpdateId
<1>9. \A j, k \in 1..Len(r) : r[j].id = r[k].id => j = k
  BY <1>2, <1>3, <1>4
<1>10. QED
  BY <1>1, <1>6, <1>7, <1>8, <1>9

LEMMA ServerSends ==
    ASSUME Types, NEW s \in Sockets, ServerStep, down'[s] # down[s]
    PROVE  \E r \in Seq(UpdateMsg) : down'[s] = down[s] \o r /\ SendsTo(s, r)
  BY ReturnSends, ThrowSends, ChangeSends DEF ServerStep

(* A subscription is answered once its handler is done, and what it is by  *)
(* then changes no more, but that it ends.                                 *)
LEMMA AnsweredStays ==
    ASSUME Types, [Next]_vars, NEW i \in SubscribeIds, SubscribesOnce(i),
           subscription[i] \in {"open", "closed", "failed"}
    PROVE  /\ home'[i] = home[i] /\ subscription'[i] \in {"open", "closed", "failed"}
           /\ subscription[i] = "failed" => subscription'[i] = "failed"
<1>0. /\ subscription \in [SubscribeIds -> {"none", "starting", "open", "closed", "failed"}]
      /\ home \in [SubscribeIds -> 0..MaxSockets]
  BY DEF Types, ServerTypes
<1>1. CASE UNCHANGED <<subscription, home>>
  BY <1>1
<1>2. ASSUME NEW j \in SubscribeIds, SignalHandlerReturns(j) \/ SignalHandlerThrows(j)
      PROVE  UNCHANGED home /\ subscription'[i] = subscription[i]
  BY <1>0, <1>2 DEF SignalHandlerReturns, SignalHandlerThrows
<1>3. ASSUME NEW s \in Sockets, ServerConnectionLost(s)
      PROVE  /\ home' = home /\ subscription'[i] \in {"open", "closed", "failed"}
             /\ subscription[i] = "failed" => subscription'[i] = "failed"
  BY <1>0, <1>3 DEF ServerConnectionLost, Open
<1>4. ASSUME NEW s \in Sockets, ServerReceives(s)
      PROVE  /\ home'[i] = home[i] /\ subscription'[i] \in {"open", "closed", "failed"}
             /\ subscription[i] = "failed" => subscription'[i] = "failed"
  <2>1. Head(up[s]) # Sub(i)
    <3>1. Head(up[s]) = Sub(i) => Carries(Wire[s], Sub(i)) /\ s \in Places
      BY <1>4, TakeCarries
    <3>2. QED
      BY <3>1 DEF SubscribesOnce
  <2>2. QED
    BY <1>0, <1>4, <2>1, TakenMessage
<1>5. QED
  BY <1>1, <1>2, <1>3, <1>4 DEF Next, LazySignalStep, Subscribe, Pull, Attach, Unsubscribe, ConnectStep,
     UrlStep, NetworkStep, ConnectionOpens, ConnectionLost, ClientReceives, ServerStep,
     SourceChanges, StartDispose, FinishDispose, vars, serverVars

LEMMA AnswersAgreeKept ==
    ASSUME Types, AnswersAgree, [Next]_vars, \A i \in SubscribeIds : SubscribesOnce(i)
    PROVE  AnswersAgree'
<1> DEFINE Fits(s, m) == /\ home'[m.id] = s /\ subscription'[m.id] \in {"open", "closed", "failed"}
                         /\ m.type = "signalError" => subscription'[m.id] = "failed"
<1>0. /\ down \in [Sockets -> Seq(UpdateMsg)]
      /\ subscription \in [SubscribeIds -> {"none", "starting", "open", "closed", "failed"}]
  BY DEF Types, ServerTypes, TransportTypeOK
<1> SUFFICES ASSUME NEW s \in Sockets
             PROVE  \A k \in 1..Len(down'[s]) : Fits(s, down'[s][k])
  BY DEF AnswersAgree, AnswerAgrees
<1>1. down[s] \in Seq(UpdateMsg)
  BY <1>0
<1>2. \A k \in 1..Len(down[s]) : Fits(s, down[s][k])
  <2> SUFFICES ASSUME NEW k \in 1..Len(down[s]) PROVE Fits(s, down[s][k])
    OBVIOUS
  <2> DEFINE m == down[s][k]
  <2>1. m \in UpdateMsg
    BY <1>1
  <2>2. m.id \in SubscribeIds
    BY <2>1 DEF UpdateMsg
  <2>3. AnswerAgrees(s, m)
    BY DEF AnswersAgree
  <2> HIDE DEF m
  <2>4. Fits(s, m)
    BY <2>2, <2>3, AnsweredStays DEF AnswerAgrees
  <2>5. QED
    BY <2>4 DEF m
<1> HIDE DEF Fits
<1>3. CASE down'[s] = down[s]
  BY <1>2, <1>3
<1>4. CASE down'[s] = <<>>
  BY <1>4
<1>5. CASE down[s] # <<>> /\ down'[s] = Tail(down[s])
  BY <1>1, <1>2, <1>5, TailPoints
<1>6. CASE ServerStep /\ down'[s] # down[s]
  <2>1. PICK r \in Seq(UpdateMsg) : down'[s] = down[s] \o r /\ SendsTo(s, r)
    BY <1>6, ServerSends
  <2>2. \A k \in 1..Len(r) : Fits(s, r[k])
    <3> SUFFICES ASSUME NEW k \in 1..Len(r) PROVE Fits(s, r[k])
      OBVIOUS
    <3>1. r[k].id \in SubscribeIds /\ home[r[k].id] = s
      BY <2>1 DEF SendsTo
    <3>2. CASE SourceChanges /\ r[k].id \in Open /\ r[k] = Update(r[k].id, source')
      <4>1. r[k].type # "signalError"
        BY <3>2, UpdateId
      <4>2. home' = home /\ subscription' = subscription /\ subscription[r[k].id] = "open"
        BY <3>2 DEF SourceChanges, Open
      <4>3. QED
        BY <3>1, <4>1, <4>2 DEF Fits
    <3>3. ASSUME NEW i \in SubscribeIds, SignalHandlerReturns(i), i \notin toClose,
                 r[k].id = i, r[k] = Update(i, source)
          PROVE  Fits(s, r[k])
      <4>1. r[k].type # "signalError"
        BY <3>3, UpdateId
      <4>2. home' = home /\ subscription'[i] = "open"
        BY <1>0, <3>3 DEF SignalHandlerReturns
      <4>3. QED
        BY <3>1, <3>3, <4>1, <4>2 DEF Fits
    <3>4. ASSUME NEW i \in SubscribeIds, SignalHandlerThrows(i), r[k].id = i
          PROVE  Fits(s, r[k])
      <4>1. home' = home /\ subscription'[i] = "failed"
        BY <1>0, <3>4 DEF SignalHandlerThrows
      <4>2. QED
        BY <3>1, <3>4, <4>1 DEF Fits
    <3>5. QED
      BY <2>1, <3>2, <3>3, <3>4 DEF SendsTo
  <2>3. QED
    BY <1>1, <1>2, <2>1, <2>2, ConcatAt
<1>7. ASSUME NEW t \in Sockets, ClientReceives(t)
      PROVE  down'[s] = down[s] \/ (down[s] # <<>> /\ down'[s] = Tail(down[s]))
  BY <1>0, <1>7 DEF ClientReceives
<1>8. ASSUME NEW t \in Sockets, down' = [down EXCEPT ![t] = <<>>]
      PROVE  down'[s] = down[s] \/ down'[s] = <<>>
  BY <1>0, <1>8
<1>9. QED
  BY <1>3, <1>4, <1>5, <1>6, <1>7, <1>8, DownSteps

-----------------------------------------------------------------------------
(* The subscription the signal has, and those it left.                     *)

(* An open connection leaves nothing for the url to open. *)
LEMMA ConnectedSettled ==
    ASSUME Types, ConnectionInv, status = "Connected"
    PROVE  /\ url = "settled" /\ ws \in Sockets /\ client[ws] = "open" /\ Current = ws
           /\ \A s \in Sockets : client[s] # "opening"
<1>1. ws \in Sockets /\ client[ws] = "open"
  BY DEF ConnectionInv, SingleConnection
<1>2. ws <= created
  BY <1>1 DEF ConnectionInv
<1>3. ws \in Nat /\ ws > 0 /\ created \in Nat
  BY <1>1, Bounds DEF Sockets, Types, TransportTypeOK
<1>4. created # 0
  BY <1>2, <1>3
<1>5. url = "settled"
  BY <1>4 DEF ConnectionInv
<1>6. \A s \in Sockets : client[s] # "opening"
  BY <1>1 DEF ConnectionInv, SingleConnection, Live
<1>7. QED
  BY <1>1, <1>5, <1>6 DEF Current

LEMMA ConnectKindSame ==
    ASSUME Types, ConnectionInv, ConnectKind
    PROVE  /\ Current' = Current /\ Wire' = Wire
           /\ UNCHANGED <<clientVars, serverVars, server, down>>
           /\ status = "Connected" => ws' = ws
           /\ status' = "Connected" => status = "Connected"
<1>1. Wire' = Wire /\ UNCHANGED <<clientVars, serverVars, server, down>>
  BY OtherWires DEF ConnectKind, ConnectStep, UrlStep, EnsureConnectedOrStartConnection, UrlSettles
<1>2. CASE ConnectStep
  BY <1>1, <1>2 DEF ConnectStep, EnsureConnectedOrStartConnection, Connect, Current
<1>3. CASE UrlStep
  <2>1. status' = status /\ (status = "Connected" => ws' = ws)
    BY <1>3, ConnectedSettled DEF UrlStep, UrlSettles
  <2>2. QED
    BY <1>1, <2>1 DEF Current
<1>4. QED
  BY <1>2, <1>3 DEF ConnectKind

(* A number that is free is free everywhere. *)
LEMMA FreeNumber ==
    ASSUME Types, NEW i \in SubscribeIds, i = nextSubscribeId, SubscribesOnce(i), HomeAgrees(i)
    PROVE  /\ \A l \in Places : ~Carries(Wire[l], Sub(i))
           /\ home[i] = 0 /\ subscription[i] = "none"
<1>1. i \in Nat
  BY Bounds DEF SubscribeIds
<1>2. QED
  BY <1>1 DEF SubscribesOnce, HomeAgrees

(* Losing the connection of a transport that is disposed of is for good. *)
LEMMA SilentLossDeaf ==
    ASSUME Types, ConnectionInv, NEW s \in Sockets, SilentLossKind(s)
    PROVE  /\ Current' = 0 /\ Wire' = Wire
           /\ UNCHANGED <<clientVars, serverVars, server>>
           /\ Current # 0 => Deaf' /\ (WiresFollowSockets => queued = <<>>)
<1>1. /\ status' = "Disconnected" /\ UNCHANGED <<url, queued, up, dispose, clientVars, serverVars, server>>
      /\ client' = [t \in Sockets |->
                      IF t = s THEN client'[s] ELSE client[t]]
      /\ client'[s] \in {"failed", "closed"}
  BY DEF SilentLossKind, SocketErrors, SocketCloses, OnWsError, Types, TransportTypeOK
<1>2. ASSUME Current # 0 PROVE Deaf' /\ (WiresFollowSockets => queued = <<>>)
  <2>1. status = "Connected"
    BY <1>2 DEF Current
  <2>2. disposed'
    BY <1>1, <2>1 DEF SilentLossKind, ReportsError, disposed
  <2>3. \A t \in Sockets : client'[t] # "opening"
    BY <1>1, <2>1, ConnectedSettled
  <2>4. Deaf'
    BY <1>1, <2>1, <2>2, <2>3, ConnectedSettled DEF Deaf
  <2>5. QED
    BY <2>1, <2>4 DEF WiresFollowSockets
<1>3. QED
  BY <1>1, <1>2, OtherWires DEF Current

LEMMA UpstreamFollowedKept ==
    ASSUME Types, ConnectionInv, WiresFollowSockets, LazyInv, AnswersAgree, [Next]_vars,
           UpstreamFollowed, \A i \in SubscribeIds : SubscribesOnce(i) /\ HomeAgrees(i)
    PROVE  UpstreamFollowed'
<1> SUFFICES ASSUME upstream' # None, ~Deaf
             PROVE  \/ Deaf'
                    \/ /\ \A l \in Places : Carries(Wire'[l], Sub(upstream')) => l = Current'
                       /\ home'[upstream'] # 0 => home'[upstream'] = Current'
  <2>1. Deaf => Deaf'
    BY DeafStays, NextStaysDisposed, NextIsTransportStep
  <2>2. QED
    BY <2>1 DEF UpstreamFollowed, Followed, Places
<1>0. /\ 0 \in Places /\ Current \in Places
      /\ upstream \in SubscribeIds \cup {None}
      /\ home \in [SubscribeIds -> 0..MaxSockets]
  BY WireType DEF Types, ClientTypes, ServerTypes
<1>1. upstream # None =>
        /\ \A l \in Places : Carries(Wire[l], Sub(upstream)) => l = Current
        /\ home[upstream] # 0 => home[upstream] = Current
  BY DEF UpstreamFollowed, Followed
<1>2. CASE upstream' = upstream /\ home' = home /\ Current' = Current
           /\ \A l \in Places : Carries(Wire'[l], Sub(upstream)) => Carries(Wire[l], Sub(upstream))
  BY <1>1, <1>2
<1>3. CASE SubscribeKind
  <2>1. /\ nextSubscribeId \in SubscribeIds /\ upstream' = nextSubscribeId
        /\ SafeSend(Sub(nextSubscribeId)) /\ home' = home
    BY <1>3 DEF SubscribeKind, Registers, serverVars
  <2>2. Sub(nextSubscribeId) \in SubscribeMsg
    BY <2>1, MessageTypes
  <2>3. /\ Current' = Current
        /\ \A l \in Places : Carries(Wire'[l], Sub(upstream')) =>
             Carries(Wire[l], Sub(upstream')) \/ l = Current
    BY <2>1, <2>2, SendCarries
  <2>4. (\A l \in Places : ~Carries(Wire[l], Sub(upstream'))) /\ home[upstream'] = 0
    BY <2>1, FreeNumber
  <2>5. QED
    BY <2>1, <2>3, <2>4
<1>4. CASE LeaveKind \/ ErroredKind
  BY <1>4 DEF LeaveKind, ErroredKind
<1>5. CASE ClientKind
  BY <1>2, <1>5, OtherWires DEF ClientKind, connectionVars, serverVars, Current
<1>6. CASE ConnectKind
  BY <1>2, <1>6, ConnectKindSame DEF clientVars, lazyVars, serverVars
<1>7. CASE ServerStep
  BY <1>2, <1>7, OtherWires DEF ServerStep, SourceChanges, SignalHandlerReturns, SignalHandlerThrows,
     connectionVars, clientVars, lazyVars, Current
<1>8. ASSUME NEW s \in Sockets, OpenKind(s)
      PROVE  /\ \A l \in Places : Carries(Wire'[l], Sub(upstream')) => l = Current'
             /\ home'[upstream'] # 0 => home'[upstream'] = Current'
  <2>1. /\ s \in Places /\ s # 0 /\ Current = 0 /\ Current' = s
        /\ ~Carries(Wire'[0], Sub(upstream'))
        /\ \A l \in Places \ {0, s} : Wire'[l] = Wire[l]
        /\ UNCHANGED <<nextSubscribeId, upstream>> \/ Registers
    BY <1>8, OpenCarries
  <2>2. home' = home
    BY <1>8 DEF OpenKind, serverVars
  <2>3. CASE upstream' = upstream
    BY <1>1, <2>1, <2>2, <2>3
  <2>4. CASE Registers
    <3>1. nextSubscribeId \in SubscribeIds /\ upstream' = nextSubscribeId
      BY <2>4 DEF Registers
    <3>2. (\A l \in Places : ~Carries(Wire[l], Sub(upstream'))) /\ home[upstream'] = 0
      BY <3>1, FreeNumber
    <3>3. QED
      BY <2>1, <2>2, <3>2
  <2>5. QED
    BY <2>1, <2>3, <2>4
<1>9. ASSUME NEW s \in Sockets, SilentLossKind(s)
      PROVE  \/ Deaf'
             \/ /\ \A l \in Places : Carries(Wire'[l], Sub(upstream')) => l = Current'
                /\ home'[upstream'] # 0 => home'[upstream'] = Current'
  <2>1. /\ Current' = 0 /\ Wire' = Wire /\ upstream' = upstream /\ home' = home
        /\ Current # 0 => Deaf'
    BY <1>9, SilentLossDeaf DEF clientVars, lazyVars, serverVars
  <2>2. QED
    BY <1>1, <2>1
<1>10. ASSUME NEW s \in Sockets, ServerReceives(s)
       PROVE  /\ \A l \in Places : Carries(Wire'[l], Sub(upstream')) => l = Current'
              /\ home'[upstream'] # 0 => home'[upstream'] = Current'
  <2>1. upstream' = upstream /\ upstream \in SubscribeIds
    BY <1>0, <1>10, TakenMessage DEF clientVars, lazyVars
  <2>2. /\ s \in Places /\ Current' = Current
        /\ \A l \in Places : Carries(Wire'[l], Sub(upstream)) => Carries(Wire[l], Sub(upstream))
        /\ Head(up[s]) = Sub(upstream) => Carries(Wire[s], Sub(upstream))
    BY <1>10, TakeCarries
  <2>3. home'[upstream] = home[upstream] \/ (Head(up[s]) = Sub(upstream) /\ home'[upstream] = s)
    BY <1>0, <1>10, <2>1, TakenMessage
  <2>4. QED
    BY <1>1, <2>1, <2>2, <2>3
<1>11. ASSUME NEW s \in Sockets, ServerConnectionLost(s)
       PROVE  /\ \A l \in Places : Carries(Wire'[l], Sub(upstream')) => l = Current'
              /\ home'[upstream'] # 0 => home'[upstream'] = Current'
  <2>1. upstream' = upstream /\ home' = home
    BY <1>11 DEF ServerConnectionLost, clientVars, lazyVars
  <2>2. /\ Current' = Current
        /\ \A l \in Places : Carries(Wire'[l], Sub(upstream)) => Carries(Wire[l], Sub(upstream))
    BY <1>11, CloseCarries
  <2>3. QED
    BY <1>1, <2>1, <2>2
<1>12. QED
  BY <1>3, <1>4, <1>5, <1>6, <1>7, <1>8, <1>9, <1>10, <1>11, StepKinds

(* Nothing of this matters to a subscription that stays as it is, while    *)
(* its unsubscribe does.                                                   *)
LEMMA LeavingStays ==
    ASSUME NEW i \in SubscribeIds, Leaving(i), Current' = Current, server' = server,
           subscription'[i] = subscription[i], home'[i] = home[i],
           i \in toClose => i \in toClose',
           Carries(Wire'[Current], Sub(i)) => Carries(Wire[Current], Sub(i)),
           Carries(Wire[Current], Unsub(i)) => Carries(Wire'[Current], Unsub(i))
    PROVE  Leaving(i)'
  BY DEF Leaving

LEMMA LeftOnSubscribe ==
    ASSUME Types, ConnectionInv, SubscribeKind, NEW i \in SubscribeIds, Left(i)
    PROVE  Left(i)'
<1>1. /\ nextSubscribeId \in SubscribeIds /\ upstream = None /\ upstream' = nextSubscribeId
      /\ SafeSend(Sub(nextSubscribeId)) /\ UNCHANGED <<server, serverVars, abandoned>>
  BY DEF SubscribeKind, Registers
<1>2. Sub(nextSubscribeId) \in SubscribeMsg /\ Current \in Places /\ i # None
  <2>1. i # None
    BY DEF SubscribeIds, None
  <2>2. QED
    BY <1>1, <2>1, MessageTypes, WireType
<1>3. /\ Current' = Current
      /\ Carries(Wire'[Current], Sub(i)) => Carries(Wire[Current], Sub(i)) \/ Sub(i) = Sub(nextSubscribeId)
      /\ Carries(Wire[Current], Unsub(i)) => Carries(Wire'[Current], Unsub(i))
  BY <1>1, <1>2, SendCarries
<1>4. ASSUME i # upstream', i \notin abandoned' PROVE Leaving(i)'
  <2>1. Leaving(i)
    BY <1>1, <1>2, <1>4 DEF Left
  <2>2. Sub(i) # Sub(nextSubscribeId)
    BY <1>1, <1>4, MessagesDiffer
  <2>3. QED
    BY <1>1, <1>3, <2>1, <2>2, LeavingStays DEF serverVars
<1>5. QED
  BY <1>4 DEF Left

LEMMA LeftOnLeave ==
    ASSUME Types, ConnectionInv, WiresFollowSockets', LeaveKind, NEW i \in SubscribeIds, Left(i)
    PROVE  Left(i)'
<1>1. /\ upstream \in SubscribeIds /\ SafeSend(Unsub(upstream))
      /\ UNCHANGED <<server, serverVars, abandoned>>
  BY DEF LeaveKind, Types, ClientTypes
<1>2. Unsub(upstream) \in SubscribeMsg /\ Current \in Places
  BY <1>1, MessageTypes, WireType
<1>3. /\ Current' = Current
      /\ Carries(Wire'[Current], Sub(i)) => Carries(Wire[Current], Sub(i)) \/ Sub(i) = Unsub(upstream)
      /\ Carries(Wire[Current], Unsub(i)) => Carries(Wire'[Current], Unsub(i))
      /\ Carries(Wire'[Current], Unsub(upstream)) \/ (Current \in Sockets /\ server[Current] # "open")
  BY <1>1, <1>2, SendCarries
<1>4. Sub(i) # Unsub(upstream)
  BY MessagesDiffer
<1>5. ASSUME i # upstream, i \notin abandoned PROVE Leaving(i)'
  <2>1. Leaving(i)
    BY <1>5 DEF Left
  <2>2. QED
    BY <1>1, <1>3, <1>4, <2>1, LeavingStays DEF serverVars
<1>6. CASE i = upstream /\ Carries(Wire'[Current], Unsub(upstream))
  BY <1>3, <1>6 DEF Left, Leaving
<1>7. CASE Current \in Sockets /\ server[Current] # "open"
  <2>1. up'[Current] = <<>>
    BY <1>1, <1>7 DEF WiresFollowSockets
  <2>2. Wire'[Current] = <<>>
    BY <1>2, <1>7, <2>1 DEF Wire, Sockets, Places
  <2>3. ~Carries(Wire'[Current], Sub(i))
    BY <2>2 DEF Carries
  <2>4. QED
    BY <1>1, <1>3, <1>7, <2>3 DEF Left, Leaving
<1>8. QED
  BY <1>1, <1>3, <1>5, <1>6, <1>7 DEF Left

LEMMA LeftOnErrored ==
    ASSUME Types, ErroredKind, NEW i \in SubscribeIds
    PROVE  Left(i)'
<1>1. /\ queued \in Seq(SubscribeMsg) /\ queued' = queued /\ Current' = 0
      /\ abandoned' = abandoned \cup {queued[k].id : k \in DOMAIN queued}
  BY DEF ErroredKind, Types, TransportTypeOK, Current
<1>2. Wire'[0] = queued
  BY <1>1, Bounds DEF Wire, Places
<1>3. ASSUME Carries(queued, Sub(i)) PROVE i \in abandoned'
  <2>1. PICK k \in 1..Len(queued) : queued[k] = Sub(i)
    BY <1>3 DEF Carries
  <2>2. k \in DOMAIN queued /\ queued[k].id = i
    BY <1>1, <2>1, MessagesDiffer
  <2>3. QED
    BY <1>1, <2>2
<1>4. QED
  BY <1>1, <1>2, <1>3 DEF Left, Leaving

(* The steps that leave the server and the messages to it alone. *)
LEMMA LeftAlone ==
    ASSUME Types, LazyInv, NEW i \in SubscribeIds, Left(i), SubscribesOnce(i),
           Wire' = Wire, Current' = Current,
           UNCHANGED <<server, subscription, home, toClose, abandoned>>,
           \/ upstream' = upstream
           \/ upstream # None /\ upstream' = None /\ subscription[upstream] = "failed"
    PROVE  Left(i)'
<1>0. Current \in Places
  BY WireType
<1>1. CASE i = upstream /\ subscription[i] = "failed"
  <2>1. ~Carries(Wire[Current], Sub(i))
    BY <1>0, <1>1 DEF SubscribesOnce
  <2>2. QED
    BY <1>1, <2>1 DEF Left, Leaving
<1>2. ASSUME i # upstream, i \notin abandoned PROVE Leaving(i)'
  <2>1. Leaving(i)
    BY <1>2 DEF Left
  <2>2. QED
    BY <2>1, LeavingStays
<1>3. QED
  BY <1>1, <1>2 DEF Left

LEMMA LeftOnOpen ==
    ASSUME Types, ConnectionInv, WiresFollowSockets, NEW s \in Sockets, OpenKind(s),
           NEW i \in SubscribeIds, Left(i), HomeAgrees(i)
    PROVE  Left(i)'
<1>1. /\ s # 0 /\ Current = 0 /\ Current' = s /\ server[s] = "none"
      /\ \/ UNCHANGED <<nextSubscribeId, upstream>> /\ Wire'[s] = Wire[0]
         \/ /\ Registers
            /\ Carries(Wire'[s], Sub(i)) <=> Carries(Wire[0], Sub(i)) \/ Sub(i) = Sub(nextSubscribeId)
            /\ Carries(Wire[0], Unsub(i)) => Carries(Wire'[s], Unsub(i))
  BY OpenCarries
<1>2. UNCHANGED <<home, toClose, abandoned>>
  BY DEF OpenKind, serverVars
<1>3. home[i] # s
  BY <1>1 DEF HomeAgrees
<1>4. i # None
  BY DEF SubscribeIds, None
<1>5. ASSUME i # upstream', i \notin abandoned'
      PROVE  /\ i # upstream
             /\ Carries(Wire'[s], Sub(i)) => Carries(Wire[0], Sub(i))
             /\ Carries(Wire[0], Unsub(i)) => Carries(Wire'[s], Unsub(i))
  <2>1. Registers => Sub(i) # Sub(nextSubscribeId)
    BY <1>5, MessagesDiffer DEF Registers
  <2>2. Registers => upstream = None
    BY DEF Registers
  <2>3. QED
    BY <1>1, <1>4, <1>5, <2>1, <2>2
<1>6. QED
  BY <1>1, <1>2, <1>3, <1>5 DEF Left, Leaving

LEMMA LeftOnSilentLoss ==
    ASSUME Types, ConnectionInv, WiresFollowSockets, NEW s \in Sockets, SilentLossKind(s),
           NEW i \in SubscribeIds, Left(i)
    PROVE  Left(i)'
<1>1. /\ Current' = 0 /\ Wire' = Wire /\ UNCHANGED <<clientVars, serverVars, server>>
      /\ Current # 0 => queued = <<>>
  BY SilentLossDeaf
<1>2. CASE Current = 0
  BY <1>1, <1>2 DEF Left, Leaving, clientVars, portVars, lazyVars, serverVars
<1>3. CASE Current # 0
  <2>1. Wire'[0] = <<>>
    BY <1>1, <1>3, Bounds DEF Wire, Places
  <2>2. ~Carries(Wire'[0], Sub(i))
    BY <2>1 DEF Carries
  <2>3. QED
    BY <1>1, <2>2 DEF Left, Leaving
<1>4. QED
  BY <1>2, <1>3

LEMMA LeftOnReceive ==
    ASSUME Types, NEW s \in Sockets, ServerReceives(s),
           NEW i \in SubscribeIds, Left(i), SubscribesOnce(i)
    PROVE  Left(i)'
<1>0. /\ subscription \in [SubscribeIds -> {"none", "starting", "open", "closed", "failed"}]
      /\ home \in [SubscribeIds -> 0..MaxSockets] /\ Current \in Places /\ s \in Places
  BY WireType DEF Types, ServerTypes
<1>1. UNCHANGED <<upstream, abandoned, server>>
  BY TakenMessage DEF clientVars, lazyVars, portVars
<1>2. /\ Current' = Current
      /\ \A l \in Places \ {s} : Wire'[l] = Wire[l]
      /\ Carries(Wire[s], Sub(i)) <=> Carries(Wire'[s], Sub(i)) \/ Sub(i) = Head(up[s])
      /\ Carries(Wire[s], Unsub(i)) <=> Carries(Wire'[s], Unsub(i)) \/ Unsub(i) = Head(up[s])
  BY TakeCarries
<1>3. Carries(Wire[s], Sub(i)) => subscription[i] = "none"
  BY <1>0 DEF SubscribesOnce
<1>4. /\ i \in toClose => i \in toClose'
      /\ \/ /\ Head(up[s]) = Sub(i) /\ subscription'[i] = "starting" /\ home'[i] = s
         \/ /\ Head(up[s]) = Unsub(i) /\ home'[i] = home[i]
            /\ \/ subscription[i] = "open" /\ subscription'[i] = "closed"
               \/ subscription'[i] = subscription[i] /\ subscription[i] # "open" /\ i \in toClose'
         \/ /\ Head(up[s]) # Sub(i) /\ Head(up[s]) # Unsub(i)
            /\ home'[i] = home[i] /\ subscription'[i] = subscription[i]
  <2>1. PICK j \in SubscribeIds :
                \/ /\ Head(up[s]) = Sub(j) /\ subscription[j] # "open"
                   /\ subscription' = [subscription EXCEPT ![j] = "starting"]
                   /\ home' = [home EXCEPT ![j] = s] /\ toClose' = toClose
                \/ /\ Head(up[s]) = Unsub(j) /\ home' = home
                   /\ \/ /\ subscription[j] = "open" /\ toClose' = toClose
                         /\ subscription' = [subscription EXCEPT ![j] = "closed"]
                      \/ /\ subscription[j] # "open" /\ toClose' = toClose \cup {j}
                         /\ subscription' = subscription
    BY TakenMessage
  <2>2. CASE i = j
    BY <1>0, <2>1, <2>2
  <2>3. CASE i # j
    <3>1. Sub(j) # Sub(i) /\ Sub(j) # Unsub(i) /\ Unsub(j) # Sub(i) /\ Unsub(j) # Unsub(i)
      BY <2>3, MessagesDiffer
    <3>2. QED
      BY <1>0, <2>1, <2>3, <3>1
  <2>4. QED
    BY <2>2, <2>3
<1>5. Sub(i) # Unsub(i)
  BY MessagesDiffer
<1> SUFFICES ASSUME i # upstream, i \notin abandoned PROVE Leaving(i)'
  BY <1>1 DEF Left
<1>6. Leaving(i)
  BY DEF Left
<1>7. CASE s # Current
  <2>1. Wire'[Current] = Wire[Current]
    BY <1>0, <1>2, <1>7
  <2>2. QED
    BY <1>1, <1>2, <1>4, <1>6, <1>7, <2>1 DEF Leaving
<1>8. CASE s = Current
  BY <1>1, <1>2, <1>3, <1>4, <1>5, <1>6, <1>8 DEF Leaving
<1>9. QED
  BY <1>7, <1>8

LEMMA LeftOnServerStep ==
    ASSUME Types, ServerStep, NEW i \in SubscribeIds, Left(i), SubscribesOnce(i)
    PROVE  Left(i)'
<1>0. /\ subscription \in [SubscribeIds -> {"none", "starting", "open", "closed", "failed"}]
      /\ Current \in Places
  BY WireType DEF Types, ServerTypes
<1>1. /\ UNCHANGED <<upstream, abandoned, server, home>> /\ Wire' = Wire /\ Current' = Current
  BY OtherWires DEF ServerStep, SourceChanges, SignalHandlerReturns, SignalHandlerThrows,
     connectionVars, clientVars, portVars, lazyVars, Current
<1>2. Carries(Wire[Current], Sub(i)) => subscription[i] = "none"
  BY <1>0 DEF SubscribesOnce
<1> SUFFICES ASSUME i # upstream, i \notin abandoned PROVE Leaving(i)'
  BY <1>1 DEF Left
<1>3. Leaving(i)
  BY DEF Left
<1>4. CASE subscription'[i] = subscription[i] /\ (i \in toClose => i \in toClose')
  BY <1>1, <1>3, <1>4, LeavingStays
<1>5. CASE SourceChanges
  BY <1>4, <1>5 DEF SourceChanges
<1>6. ASSUME NEW j \in SubscribeIds, SignalHandlerReturns(j), i # j PROVE Leaving(i)'
  BY <1>0, <1>4, <1>6 DEF SignalHandlerReturns
<1>7. ASSUME NEW j \in SubscribeIds, SignalHandlerThrows(j), i # j PROVE Leaving(i)'
  BY <1>0, <1>4, <1>7 DEF SignalHandlerThrows
<1>8. CASE SignalHandlerReturns(i)
  <2>1. subscription[i] = "starting" /\ (subscription'[i] = "closed"
                                         \/ (subscription'[i] = "open" /\ i \notin toClose))
    <3>1. CASE i \in toClose
      BY <1>0, <1>8, <3>1 DEF SignalHandlerReturns
    <3>2. CASE i \notin toClose
      BY <1>0, <1>8, <3>2 DEF SignalHandlerReturns
    <3>3. QED
      BY <3>1, <3>2
  <2>2. QED
    BY <1>1, <1>2, <1>3, <2>1 DEF Leaving
<1>9. CASE SignalHandlerThrows(i)
  <2>1. subscription[i] = "starting" /\ subscription'[i] = "failed"
    BY <1>0, <1>9 DEF SignalHandlerThrows
  <2>2. QED
    BY <1>1, <1>2, <2>1 DEF Leaving
<1>10. QED
  BY <1>5, <1>6, <1>7, <1>8, <1>9 DEF ServerStep

LEMMA LeftOnServerLoss ==
    ASSUME Types, NEW s \in Sockets, ServerConnectionLost(s), NEW i \in SubscribeIds, Left(i)
    PROVE  Left(i)'
<1>0. /\ subscription \in [SubscribeIds -> {"none", "starting", "open", "closed", "failed"}]
      /\ server \in [Sockets -> {"none", "open", "closed"}] /\ Current \in Places
  BY WireType DEF Types, ServerTypes, TransportTypeOK
<1>1. /\ UNCHANGED <<upstream, abandoned, home, toClose>>
      /\ server' = [server EXCEPT ![s] = "closed"]
      /\ subscription'[i] \in {"starting", "open"} => subscription[i] = subscription'[i]
  BY <1>0 DEF ServerConnectionLost, ServerSocketCloses, clientVars, portVars, lazyVars
<1>2. /\ Current' = Current
      /\ \A l \in Places \ {s} : Wire'[l] = Wire[l]
      /\ ~Carries(Wire'[s], Sub(i))
  BY CloseCarries
<1>3. CASE Current = s
  BY <1>0, <1>1, <1>2, <1>3 DEF Left, Leaving
<1>4. CASE Current # s
  <2>1. Wire'[Current] = Wire[Current] /\ (Current # 0 => server'[Current] = server[Current])
    BY <1>0, <1>1, <1>2, <1>4 DEF Places, Sockets
  <2>2. QED
    BY <1>1, <1>2, <2>1 DEF Left, Leaving
<1>5. QED
  BY <1>3, <1>4

LEMMA LeftKept ==
    ASSUME Types, ConnectionInv, WiresFollowSockets, WiresFollowSockets', LazyInv, AnswersAgree,
           [Next]_vars, NEW i \in SubscribeIds, Left(i), SubscribesOnce(i), HomeAgrees(i)
    PROVE  Left(i)'
<1>1. CASE ClientKind
  BY <1>1, LeftAlone, OtherWires DEF ClientKind, connectionVars, serverVars, Current
<1>2. CASE ConnectKind
  BY <1>2, LeftAlone, ConnectKindSame DEF clientVars, portVars, lazyVars, serverVars
<1>3. QED
  BY <1>1, <1>2, StepKinds, LeftOnSubscribe, LeftOnLeave, LeftOnErrored, LeftOnOpen, LeftOnSilentLoss,
     LeftOnReceive, LeftOnServerStep, LeftOnServerLoss

-----------------------------------------------------------------------------
(* What a reader of the signal will have.                                  *)

LEMMA SoundFresh ==
    ASSUME NEW q \in Seq(UpdateMsg), NEW i, NEW top \in Int, NEW v \in NotAvailable..top,
           \A k \in 1..Len(q) : q[k].id # i
    PROVE  Sound(q, i, v, top, FALSE)
<1> DEFINE f == [k \in 0..Len(q) |-> v]
<1>1. Len(q) \in Nat /\ v \in Int
  BY DEF NotAvailable
<1>2. f \in [0..Len(q) -> NotAvailable..top]
  OBVIOUS
<1>3. f[0] = v
  BY <1>1
<1>4. \A k \in 1..Len(q) : k \in 0..Len(q) /\ k - 1 \in 0..Len(q)
  BY <1>1
<1>5. \A k \in 1..Len(q) : f[k] = v /\ f[k - 1] = v
  BY <1>4
<1> HIDE DEF f
<1>6. Reads(f, v, q, i)
  BY <1>3, <1>5 DEF Reads
<1>7. \A k \in 1..Len(q) : f[k - 1] <= f[k]
  BY <1>1, <1>5
<1>8. QED
  BY <1>2, <1>6, <1>7 DEF Sound

LEMMA SoundSame ==
    ASSUME NEW q \in Seq(UpdateMsg), NEW i, NEW v, NEW top \in Int, NEW exact, Sound(q, i, v, top, exact),
           NEW top2 \in Int, top <= top2, NEW exact2, exact2 => exact /\ top2 = top
    PROVE  Sound(q, i, v, top2, exact2)
<1>1. PICK f \in [0..Len(q) -> NotAvailable..top] :
             /\ Reads(f, v, q, i)
             /\ \A k \in 1..Len(q) : f[k - 1] <= f[k]
             /\ exact => f[Len(q)] = top
  BY DEF Sound
<1>2. NotAvailable..top \subseteq NotAvailable..top2
  BY DEF NotAvailable
<1>3. f \in [0..Len(q) -> NotAvailable..top2]
  BY <1>1, <1>2
<1>4. QED
  BY <1>1, <1>3 DEF Sound

(* The next message arrives. *)
LEMMA SoundNext ==
    ASSUME NEW q \in Seq(UpdateMsg), q # <<>>, NEW i, NEW v, NEW top \in Int, NEW exact,
           Sound(q, i, v, top, exact)
    PROVE  LET w == IF Head(q).id = i THEN Applied(v, Head(q)) ELSE v
           IN  w \in NotAvailable..top /\ v <= w /\ Sound(Tail(q), i, w, top, exact)
<1> DEFINE w == IF Head(q).id = i THEN Applied(v, Head(q)) ELSE v
           t == Tail(q)
           n == Len(t)
<1>1. PICK f \in [0..Len(q) -> NotAvailable..top] :
             /\ Reads(f, v, q, i)
             /\ \A k \in 1..Len(q) : f[k - 1] <= f[k]
             /\ exact => f[Len(q)] = top
  BY DEF Sound
<1>2. /\ t \in Seq(UpdateMsg) /\ Len(q) \in Nat /\ Len(q) >= 1 /\ n = Len(q) - 1
      /\ \A k \in 1..n : k + 1 \in 1..Len(q) /\ t[k] = q[k + 1]
      /\ Head(q) = q[1] /\ 1 \in 1..Len(q)
  BY TailPoints
<1> HIDE DEF t
<1>3. \A k \in 0..n : k + 1 \in 0..Len(q)
  BY <1>2
<1> DEFINE g == [k \in 0..n |-> f[k + 1]]
<1>4. g \in [0..n -> NotAvailable..top]
  BY <1>3
<1>5. 0 \in 0..n /\ 0 + 1 = 1 /\ 1 - 1 = 0
  BY <1>2
<1>6. f[1] = w /\ f[0] = v
  <2>1. f[0] = v /\ f[1] = IF q[1].id = i THEN Applied(f[1 - 1], q[1]) ELSE f[1 - 1]
    BY <1>1, <1>2 DEF Reads
  <2>2. QED
    BY <1>2, <1>5, <2>1
<1>7. g[0] = w
  BY <1>5, <1>6
<1>8. \A k \in 1..n : g[k] = f[k + 1] /\ g[k - 1] = f[k] /\ (k + 1) - 1 = k
  <2> SUFFICES ASSUME NEW k \in 1..n
               PROVE  g[k] = f[k + 1] /\ g[k - 1] = f[k] /\ (k + 1) - 1 = k
    OBVIOUS
  <2>1. k \in 0..n /\ k - 1 \in 0..n /\ (k - 1) + 1 = k /\ (k + 1) - 1 = k
    BY <1>2
  <2>2. QED
    BY <2>1
<1>9. n \in 0..n /\ n + 1 = Len(q)
  BY <1>2
<1>10. g[n] = f[Len(q)]
  BY <1>9
<1>11. w \in NotAvailable..top /\ v <= w
  <2>1. f[1 - 1] <= f[1]
    BY <1>1, <1>2
  <2>2. f[1] \in NotAvailable..top
    BY <1>1, <1>3, <1>5
  <2>3. QED
    BY <1>5, <1>6, <2>1, <2>2
<1> HIDE DEF w, g
<1>12. Reads(g, w, t, i)
  <2>1. \A k \in 1..n : g[k] = IF t[k].id = i THEN Applied(g[k - 1], t[k]) ELSE g[k - 1]
    <3> SUFFICES ASSUME NEW k \in 1..n
                 PROVE  g[k] = IF t[k].id = i THEN Applied(g[k - 1], t[k]) ELSE g[k - 1]
      OBVIOUS
    <3>1. k + 1 \in 1..Len(q) /\ t[k] = q[k + 1] /\ g[k] = f[k + 1] /\ g[k - 1] = f[k]
          /\ (k + 1) - 1 = k
      BY <1>2, <1>8
    <3>2. f[k + 1] = IF q[k + 1].id = i THEN Applied(f[(k + 1) - 1], q[k + 1]) ELSE f[(k + 1) - 1]
      BY <1>1, <3>1 DEF Reads
    <3>3. QED
      BY <3>1, <3>2
  <2>2. QED
    BY <1>7, <2>1 DEF Reads
<1>13. \A k \in 1..n : g[k - 1] <= g[k]
  <2> SUFFICES ASSUME NEW k \in 1..n PROVE g[k - 1] <= g[k]
    OBVIOUS
  <2>1. k + 1 \in 1..Len(q) /\ g[k] = f[k + 1] /\ g[k - 1] = f[k] /\ (k + 1) - 1 = k
    BY <1>2, <1>8
  <2>2. f[(k + 1) - 1] <= f[k + 1]
    BY <1>1, <2>1
  <2>3. QED
    BY <2>1, <2>2
<1>14. Sound(t, i, w, top, exact)
  BY <1>1, <1>4, <1>10, <1>12, <1>13 DEF Sound
<1>15. QED
  BY <1>11, <1>14 DEF w, t

(* More messages are sent, of which the reader heeds the one at k0, if it  *)
(* is one of them.                                                         *)
LEMMA SoundMore ==
    ASSUME NEW q \in Seq(UpdateMsg), NEW r \in Seq(UpdateMsg), NEW i, NEW v,
           NEW top \in Int, NEW top2 \in Int, top <= top2, NEW exact2,
           NEW f \in [0..Len(q) -> NotAvailable..top], Reads(f, v, q, i),
           \A k \in 1..Len(q) : f[k - 1] <= f[k],
           NEW k0 \in Nat, k0 >= 1, NEW w \in NotAvailable..top2, f[Len(q)] <= w,
           \A k \in 1..Len(r) : k # k0 => r[k].id # i,
           k0 <= Len(r) => r[k0].id = i /\ w = Applied(f[Len(q)], r[k0]),
           exact2 => w = top2 /\ (k0 > Len(r) => f[Len(q)] = top2)
    PROVE  Sound(q \o r, i, v, top2, exact2)
<1> DEFINE n == Len(q)
           c == q \o r
<1>1. /\ c \in Seq(UpdateMsg) /\ n \in Nat /\ Len(r) \in Nat /\ Len(c) = n + Len(r)
      /\ \A k \in 1..n : c[k] = q[k]
      /\ \A k \in (n + 1)..(n + Len(r)) : c[k] = r[k - n]
  BY ConcatPoints
<1> HIDE DEF n, c
<1> DEFINE g == [k \in 0..Len(c) |-> IF k <= n THEN f[k] ELSE IF k < n + k0 THEN f[n] ELSE w]
<1>2. \A k \in 0..n : f[k] \in NotAvailable..top2 /\ f[k] \in Int
  <2>1. \A x \in NotAvailable..top : x \in NotAvailable..top2 /\ x \in Int
    BY DEF NotAvailable
  <2>2. \A k \in 0..n : f[k] \in NotAvailable..top
    BY DEF n
  <2>3. QED
    BY <2>1, <2>2
<1>3. n \in 0..n /\ w \in Int
  BY <1>1 DEF NotAvailable
<1>4. g \in [0..Len(c) -> NotAvailable..top2]
  <2>1. \A k \in 0..Len(c) : k <= n => k \in 0..n
    BY <1>1
  <2>2. \A k \in 0..Len(c) :
          (IF k <= n THEN f[k] ELSE IF k < n + k0 THEN f[n] ELSE w) \in NotAvailable..top2
    BY <1>2, <1>3, <2>1
  <2>3. QED
    BY <2>2
<1>5. \A k \in 1..n : k \in 0..Len(c) /\ k - 1 \in 0..Len(c) /\ k <= n /\ k - 1 <= n
  BY <1>1
<1>6. \A k \in 1..n : g[k] = f[k] /\ g[k - 1] = f[k - 1]
  BY <1>5
<1>7. \A j \in 1..Len(r) : /\ g[n + j] = (IF j < k0 THEN f[n] ELSE w)
                           /\ g[(n + j) - 1] = (IF j <= k0 THEN f[n] ELSE w)
  <2> SUFFICES ASSUME NEW j \in 1..Len(r)
               PROVE  /\ g[n + j] = (IF j < k0 THEN f[n] ELSE w)
                      /\ g[(n + j) - 1] = (IF j <= k0 THEN f[n] ELSE w)
    OBVIOUS
  <2>1. n + j \in 0..Len(c) /\ ~(n + j <= n) /\ (n + j < n + k0 <=> j < k0)
    BY <1>1
  <2>2. g[n + j] = (IF j < k0 THEN f[n] ELSE w)
    BY <2>1
  <2>3. CASE j = 1
    <3>1. (n + j) - 1 = n /\ n \in 0..Len(c) /\ n <= n /\ j <= k0
      BY <1>1, <2>3
    <3>2. QED
      BY <2>2, <3>1
  <2>4. CASE j # 1
    <3>1. /\ (n + j) - 1 \in 0..Len(c) /\ ~((n + j) - 1 <= n)
          /\ (n + j) - 1 < n + k0 <=> j <= k0
      BY <1>1, <2>4
    <3>2. QED
      BY <2>2, <3>1
  <2>5. QED
    BY <2>3, <2>4
<1>8. g[0] = f[0]
  <2>1. 0 \in 0..Len(c) /\ 0 <= n
    BY <1>1
  <2>2. QED
    BY <2>1
<1>9. g[Len(c)] = IF Len(r) < k0 THEN f[n] ELSE w
  <2>1. CASE Len(r) = 0
    <3>1. Len(c) = n /\ n \in 0..Len(c) /\ n <= n /\ Len(r) < k0
      BY <1>1, <2>1
    <3>2. QED
      BY <3>1
  <2>2. CASE Len(r) # 0
    <3>1. Len(r) \in 1..Len(r) /\ Len(c) = n + Len(r)
      BY <1>1, <2>2
    <3>2. QED
      BY <1>7, <3>1
  <2>3. QED
    BY <2>1, <2>2
<1> HIDE DEF g
<1>10. \A k \in 1..Len(c) : \/ k \in 1..n
                            \/ k - n \in 1..Len(r) /\ n + (k - n) = k /\ k \in (n + 1)..(n + Len(r))
  BY <1>1
<1>11. Reads(g, v, c, i)
  <2>1. g[0] = v
    BY <1>8 DEF Reads
  <2>2. \A k \in 1..n : g[k] = IF c[k].id = i THEN Applied(g[k - 1], c[k]) ELSE g[k - 1]
    BY <1>1, <1>6 DEF Reads, n
  <2>3. ASSUME NEW j \in 1..Len(r)
        PROVE  g[n + j] = IF r[j].id = i THEN Applied(g[(n + j) - 1], r[j]) ELSE g[(n + j) - 1]
    <3>1. CASE j < k0
      <4>1. j # k0 /\ j <= k0
        BY <1>1, <3>1
      <4>2. QED
        BY <1>7, <3>1, <4>1
    <3>2. CASE j = k0
      <4>1. k0 <= Len(r) /\ j <= k0 /\ ~(j < k0)
        BY <1>1, <3>2
      <4>2. QED
        BY <1>7, <3>2, <4>1 DEF n
    <3>3. CASE j > k0
      <4>1. j # k0 /\ ~(j <= k0) /\ ~(j < k0)
        BY <1>1, <3>3
      <4>2. QED
        BY <1>7, <4>1
    <3>4. QED
      BY <1>1, <3>1, <3>2, <3>3
  <2>4. ASSUME NEW k \in 1..Len(c), k \notin 1..n
        PROVE  g[k] = IF c[k].id = i THEN Applied(g[k - 1], c[k]) ELSE g[k - 1]
    <3> DEFINE j == k - n
    <3>1. j \in 1..Len(r) /\ n + j = k /\ k \in (n + 1)..(n + Len(r))
      BY <1>10, <2>4
    <3>2. c[k] = r[j]
      BY <1>1, <3>1
    <3> HIDE DEF j
    <3>3. g[n + j] = IF r[j].id = i THEN Applied(g[(n + j) - 1], r[j]) ELSE g[(n + j) - 1]
      BY <2>3, <3>1
    <3>4. QED
      BY <3>1, <3>2, <3>3
  <2>5. QED
    BY <2>1, <2>2, <2>4 DEF Reads
<1>12. \A k \in 1..Len(c) : g[k - 1] <= g[k]
  <2>1. \A k \in 1..n : g[k - 1] <= g[k]
    BY <1>6 DEF n
  <2>2. f[n] \in Int /\ f[n] <= w /\ f[n] <= f[n] /\ w <= w
    BY <1>2, <1>3 DEF n
  <2>3. ASSUME NEW j \in 1..Len(r) PROVE g[(n + j) - 1] <= g[n + j]
    <3>1. j < k0 => j <= k0
      BY <1>1
    <3>2. QED
      BY <1>7, <2>2, <3>1
  <2>4. ASSUME NEW k \in 1..Len(c), k \notin 1..n PROVE g[k - 1] <= g[k]
    <3> DEFINE j == k - n
    <3>1. j \in 1..Len(r) /\ n + j = k
      BY <1>10, <2>4
    <3> HIDE DEF j
    <3>2. g[(n + j) - 1] <= g[n + j]
      BY <2>3, <3>1
    <3>3. QED
      BY <3>1, <3>2
  <2>5. QED
    BY <2>1, <2>4
<1>13. exact2 => g[Len(c)] = top2
  <2>1. Len(r) < k0 <=> k0 > Len(r)
    BY <1>1
  <2>2. QED
    BY <1>9, <2>1 DEF n
<1>14. QED
  BY <1>4, <1>11, <1>12, <1>13 DEF Sound, c

LEMMA SoundOthers ==
    ASSUME NEW q \in Seq(UpdateMsg), NEW r \in Seq(UpdateMsg), NEW i, NEW v,
           NEW top \in Int, NEW exact, NEW exact2, Sound(q, i, v, top, exact),
           \A k \in 1..Len(r) : r[k].id # i, exact2 => exact
    PROVE  Sound(q \o r, i, v, top, exact2)
<1>1. PICK f \in [0..Len(q) -> NotAvailable..top] :
             /\ Reads(f, v, q, i)
             /\ \A k \in 1..Len(q) : f[k - 1] <= f[k]
             /\ exact => f[Len(q)] = top
  BY DEF Sound
<1> DEFINE k0 == Len(r) + 1
           w == f[Len(q)]
<1>2. k0 \in Nat /\ k0 >= 1 /\ ~(k0 <= Len(r)) /\ top <= top /\ Len(q) \in 0..Len(q)
  OBVIOUS
<1>3. w \in NotAvailable..top /\ w <= w
  BY <1>1, <1>2 DEF NotAvailable
<1> HIDE DEF k0, w
<1>4. exact2 => w = top /\ (k0 > Len(r) => f[Len(q)] = top)
  BY <1>1 DEF w
<1>5. f[Len(q)] <= w /\ \A k \in 1..Len(r) : k # k0 => r[k].id # i
  BY <1>3 DEF w
<1>6. QED
  BY <1>1, <1>2, <1>3, <1>4, <1>5, SoundMore

(* One message for i that takes the reader to the top, or is an error. *)
LEMMA SoundOne ==
    ASSUME NEW q \in Seq(UpdateMsg), NEW r \in Seq(UpdateMsg), NEW i, NEW v,
           NEW top \in Int, NEW top2 \in Int, top <= top2, NEW exact, Sound(q, i, v, top, exact),
           NEW k0 \in 1..Len(r), r[k0].id = i,
           \A k \in 1..Len(r) : r[k].id = i => k = k0,
           NEW exact2,
           \/ r[k0].type = "replace" /\ r[k0].value = top2
           \/ r[k0].type = "patch" /\ exact /\ top # NotAvailable /\ top2 = top + 1
           \/ r[k0].type = "signalError" /\ ~exact2
    PROVE  Sound(q \o r, i, v, top2, exact2)
<1>1. PICK f \in [0..Len(q) -> NotAvailable..top] :
             /\ Reads(f, v, q, i)
             /\ \A k \in 1..Len(q) : f[k - 1] <= f[k]
             /\ exact => f[Len(q)] = top
  BY DEF Sound
<1> DEFINE last == f[Len(q)]
           w == Applied(last, r[k0])
<1>2. k0 \in Nat /\ k0 >= 1 /\ ~(k0 > Len(r)) /\ Len(q) \in 0..Len(q)
  OBVIOUS
<1>3. last \in NotAvailable..top /\ last \in Int /\ NotAvailable <= last /\ last <= top
  BY <1>1, <1>2 DEF NotAvailable
<1> HIDE DEF last
<1>4. w \in NotAvailable..top2 /\ last <= w /\ (exact2 => w = top2)
  <2>1. CASE r[k0].type = "replace" /\ r[k0].value = top2
    <3>1. w = top2
      BY <2>1 DEF Applied
    <3>2. QED
      BY <1>3, <3>1 DEF NotAvailable
  <2>2. CASE r[k0].type = "patch" /\ exact /\ top # NotAvailable /\ top2 = top + 1
    <3>1. last = top
      BY <1>1, <2>2 DEF last
    <3>2. w = top2
      BY <2>2, <3>1 DEF Applied
    <3>3. QED
      BY <1>3, <2>2, <3>2 DEF NotAvailable
  <2>3. CASE r[k0].type = "signalError" /\ ~exact2
    <3>1. w = last
      BY <2>3 DEF Applied
    <3>2. QED
      BY <1>3, <2>3, <3>1 DEF NotAvailable
  <2>4. QED
    BY <2>1, <2>2, <2>3
<1>5. \A k \in 1..Len(r) : k # k0 => r[k].id # i
  OBVIOUS
<1>6. k0 <= Len(r) => r[k0].id = i /\ w = Applied(f[Len(q)], r[k0])
  BY DEF last
<1>7. f[Len(q)] <= w /\ (exact2 => w = top2 /\ (k0 > Len(r) => f[Len(q)] = top2))
  BY <1>2, <1>4 DEF last
<1> HIDE DEF w
<1>8. QED
  BY <1>1, <1>2, <1>4, <1>5, <1>6, <1>7, SoundMore

(* What the reader's proofs use of the invariant. *)
LEMMA Reader ==
    ASSUME Types, SignalInv, upstream # None, status = "Connected"
    PROVE  /\ upstream \in SubscribeIds /\ ws \in Sockets /\ client[ws] = "open"
           /\ down[ws] \in Seq(UpdateMsg) /\ source \in Int /\ value \in Int
           /\ home[upstream] # 0 => home[upstream] = ws
           /\ subscription[upstream] # "none" => home[upstream] = ws
           /\ Sound(down[ws], upstream, value, source, UpToDate)
<1>1. upstream \in SubscribeIds /\ ws \in Sockets /\ client[ws] = "open" /\ Current = ws
  BY ConnectedSettled DEF Types, ClientTypes, SignalInv
<1>2. down[ws] \in Seq(UpdateMsg)
  BY <1>1 DEF Types, TransportTypeOK
<1>3. source \in Int /\ value \in Int
  BY Bounds DEF Types, ServerTypes, ClientTypes, Values, NotAvailable
<1>4. ~Deaf
  BY DEF Deaf
<1>5. home[upstream] # 0 => home[upstream] = ws
  BY <1>1, <1>4 DEF SignalInv, UpstreamFollowed, Followed
<1>6. subscription[upstream] # "none" => home[upstream] # 0
  BY <1>1 DEF SignalInv, HomeAgrees
<1>7. QED
  BY <1>1, <1>2, <1>3, <1>5, <1>6 DEF SignalInv, ReadingSound

(* The reader takes a message: what it has next is what it was to have.    *)
LEMMA ClientReads ==
    ASSUME Types, SignalInv, NEW s \in Sockets, ClientReceives(s)
    PROVE  /\ source' = source /\ value' >= value /\ value' <= source
           /\ value' # value \/ (stale /\ ~stale') => value' \in 0..source
           /\ ReadingSound'
<1> DEFINE m == Head(down[s])
           ignores == UNCHANGED <<connectionVars, up, dispose, shouldRef, clientVars>>
<1>0. /\ source' = source /\ server' = server /\ source \in Int /\ value \in Int /\ value <= source
      /\ UNCHANGED <<subscription, initialized, home>>
      /\ m \in UpdateMsg /\ m.id \in SubscribeIds /\ AnswerAgrees(s, m)
  BY HeadAgrees, Bounds DEF ClientReceives, serverVars, Types, ServerTypes, ClientTypes, Values, NotAvailable,
     SignalInv
<1>1. down[s] # <<>> /\ down' = [down EXCEPT ![s] = Tail(@)] /\ down \in [Sockets -> Seq(UpdateMsg)]
  BY DEF ClientReceives, Types, TransportTypeOK
<1>2. \/ ignores /\ (status # "Connected" \/ Ignored(m))
      \/ status = "Connected" /\ ReceivedSignalUpdate(s, m)
      \/ status = "Connected" /\ ReceivedSignalError(m)
  BY DEF ClientReceives
<1>3. upstream # None => openSignalSubscriptions = {upstream}
  BY DEF SignalInv, LazyInv
<1>4. upstream = None => openSignalSubscriptions = {}
  BY DEF SignalInv, LazyInv
<1> HIDE DEF m
<1>5. CASE ignores /\ (status # "Connected" \/ Ignored(m))
  <2>1. UNCHANGED <<value, stale, upstream, status, ws>>
    BY <1>5 DEF connectionVars, clientVars, lazyVars
  <2>2. value' >= value /\ value' <= source
    BY <1>0, <2>1
  <2>3. ASSUME upstream # None, status = "Connected"
        PROVE  Sound(down'[ws], upstream, value, source, UpToDate)
    <3>1. Sound(down[ws], upstream, value, source, UpToDate) /\ ws \in Sockets
      BY <2>3, Reader
    <3>2. CASE s # ws
      BY <1>1, <3>1, <3>2
    <3>3. CASE s = ws
      <4>1. down'[ws] = Tail(down[ws]) /\ down[ws] \in Seq(UpdateMsg) /\ down[ws] # <<>>
        BY <1>1, <3>1, <3>3
      <4>2. m = Head(down[ws])
        BY <3>3 DEF m
      <4>3. (IF m.id = upstream THEN Applied(value, m) ELSE value) = value
        BY <1>3, <1>5, <2>3 DEF Ignored, Applied
      <4>4. Sound(Tail(down[ws]), upstream, value, source, UpToDate)
        BY <1>0, <3>1, <4>1, <4>2, <4>3, SoundNext
      <4>5. QED
        BY <4>1, <4>4
    <3>4. QED
      BY <3>2, <3>3
  <2>4. UpToDate' = UpToDate
    BY <1>0, <2>1 DEF UpToDate, Open
  <2>5. ReadingSound'
    BY <1>0, <2>1, <2>3, <2>4 DEF ReadingSound
  <2>6. QED
    BY <1>0, <2>1, <2>2, <2>5
<1>6. CASE status = "Connected" /\ ReceivedSignalUpdate(s, m)
  <2>1. /\ m.id = upstream /\ upstream # None /\ value' = Applied(value, m)
        /\ m.type = "replace" \/ (m.type = "patch" /\ value # NotAvailable)
    BY <1>3, <1>4, <1>6 DEF ReceivedSignalUpdate
  <2>2. /\ Sound(down[ws], upstream, value, source, UpToDate) /\ ws \in Sockets
        /\ subscription[upstream] # "none" => home[upstream] = ws
    BY <1>6, <2>1, Reader
  <2>3. s = ws
    BY <1>0, <2>1, <2>2 DEF AnswerAgrees
  <2>4. down'[ws] = Tail(down[ws]) /\ down[ws] \in Seq(UpdateMsg) /\ down[ws] # <<>>
    BY <1>1, <2>2, <2>3
  <2>5. m = Head(down[ws])
    BY <2>3 DEF m
  <2>6. /\ value' \in NotAvailable..source /\ value <= value'
        /\ Sound(Tail(down[ws]), upstream, value', source, UpToDate)
    BY <1>0, <2>1, <2>2, <2>4, <2>5, SoundNext
  <2>7. value' >= 0
    <3>1. CASE m.type = "replace"
      <4>1. m.value \in Values
        BY <1>0, <3>1 DEF UpdateMsg
      <4>2. value' = m.value
        BY <2>1, <3>1 DEF Applied
      <4>3. QED
        BY <4>1, <4>2, Bounds DEF Values
    <3>2. CASE m.type = "patch" /\ value # NotAvailable
      <4>1. value' = value + 1
        BY <2>1, <3>2 DEF Applied
      <4>2. value >= NotAvailable
        BY DEF Types, ClientTypes
      <4>3. QED
        BY <1>0, <3>2, <4>1, <4>2 DEF NotAvailable
    <3>3. QED
      BY <2>1, <3>1, <3>2
  <2>8. ReadingSound'
    <3>1. CASE LeaveUpstream
      BY <3>1 DEF LeaveUpstream, ReadingSound
    <3>2. CASE UNCHANGED <<connectionVars, upstream>>
      <4>1. ws' = ws /\ upstream' = upstream
        BY <3>2 DEF connectionVars
      <4>2. UpToDate' = UpToDate
        BY <1>0, <4>1 DEF UpToDate, Open
      <4>3. QED
        BY <1>0, <2>4, <2>6, <4>1, <4>2 DEF ReadingSound
    <3>3. QED
      BY <1>6, <3>1, <3>2 DEF ReceivedSignalUpdate
  <2>9. QED
    BY <1>0, <2>6, <2>7, <2>8 DEF NotAvailable
<1>7. CASE status = "Connected" /\ ReceivedSignalError(m)
  <2>1. value' = value /\ stale' /\ upstream' = None
    BY <1>7 DEF ReceivedSignalError, LazySignalErrors
  <2>2. QED
    BY <1>0, <2>1 DEF ReadingSound
<1>8. QED
  BY <1>2, <1>5, <1>6, <1>7

(* The server's steps send the reader what it is to have. *)
LEMMA ChangeReads ==
    ASSUME Types, SignalInv, SourceChanges, upstream # None, status = "Connected"
    PROVE  Sound(down'[ws], upstream, value, source', UpToDate')
<1>0. /\ upstream \in SubscribeIds /\ ws \in Sockets /\ client[ws] = "open"
      /\ down[ws] \in Seq(UpdateMsg) /\ source \in Int
      /\ subscription[upstream] # "none" => home[upstream] = ws
      /\ Sound(down[ws], upstream, value, source, UpToDate)
  BY Reader
<1>1. source' = source + 1 /\ UNCHANGED <<server, subscription, ws, upstream>>
  BY DEF SourceChanges, connectionVars, clientVars, lazyVars
<1>2. source' \in Int /\ source <= source'
  BY <1>0, <1>1
<1>3. PICK r \in Seq(UpdateMsg) :
             /\ down'[ws] = IF server[ws] = "open" /\ client[ws] \in {"open", "closing"}
                            THEN down[ws] \o r ELSE down[ws]
             /\ SendsTo(ws, r)
             /\ \A i \in Open : home[i] = ws => \E k \in 1..Len(r) : r[k].id = i
             /\ \A j, k \in 1..Len(r) : r[j].id = r[k].id => j = k
  BY <1>0, ChangeSends
<1>4. UpToDate' => server[ws] = "open" /\ upstream \in Open
  BY <1>1 DEF UpToDate, Open
<1>5. CASE server[ws] # "open"
  <2>1. down'[ws] = down[ws] /\ ~UpToDate'
    BY <1>3, <1>4, <1>5
  <2>2. QED
    BY <1>0, <1>2, <2>1, SoundSame
<1>6. CASE server[ws] = "open"
  <2>1. down'[ws] = down[ws] \o r
    BY <1>0, <1>3, <1>6
  <2>2. CASE \E k \in 1..Len(r) : r[k].id = upstream
    <3>1. PICK k \in 1..Len(r) : r[k].id = upstream
      BY <2>2
    <3>2. upstream \in Open /\ r[k] = Update(upstream, source')
      <4>1. r[k].id \in Open /\ r[k] = Update(r[k].id, source')
        BY <1>1, <1>3, <1>0 DEF SendsTo
      <4>2. QED
        BY <3>1, <4>1
    <3>3. \/ r[k].type = "replace" /\ r[k].value = source'
          \/ r[k].type = "patch" /\ UpToDate /\ source # NotAvailable /\ source' = source + 1
      <4>1. CASE initialized[upstream]
        <5>1. UpToDate /\ source # NotAvailable
          BY <1>0, <1>6, <3>2, <4>1 DEF UpToDate, SignalInv, HomeAgrees
        <5>2. QED
          BY <1>1, <3>2, <4>1, <5>1, UpdateId
      <4>2. CASE ~initialized[upstream]
        BY <3>2, <4>2, UpdateId
      <4>3. QED
        BY <4>1, <4>2
    <3>4. \A j \in 1..Len(r) : r[j].id = upstream => j = k
      BY <1>3, <3>1
    <3>5. QED
      BY <1>0, <1>2, <2>1, <3>1, <3>3, <3>4, SoundOne
  <2>3. CASE \A k \in 1..Len(r) : r[k].id # upstream
    <3>1. ~UpToDate'
      <4>1. upstream \notin Open
        BY <1>0, <1>3, <2>3 DEF Open
      <4>2. QED
        BY <1>4, <4>1
    <3>2. Sound(down[ws] \o r, upstream, value, source, UpToDate')
      BY <1>0, <2>3, <3>1, SoundOthers
    <3>3. down[ws] \o r \in Seq(UpdateMsg)
      BY <1>0
    <3>4. QED
      BY <1>0, <1>2, <2>1, <3>1, <3>2, <3>3, SoundSame
  <2>4. QED
    BY <2>2, <2>3
<1>7. QED
  BY <1>5, <1>6

LEMMA HandlerReads ==
    ASSUME Types, SignalInv, NEW j \in SubscribeIds, SignalHandlerReturns(j) \/ SignalHandlerThrows(j),
           upstream # None, status = "Connected"
    PROVE  Sound(down'[ws], upstream, value, source, UpToDate')
<1>0. /\ upstream \in SubscribeIds /\ ws \in Sockets /\ client[ws] = "open"
      /\ down[ws] \in Seq(UpdateMsg) /\ source \in Int /\ source <= source
      /\ subscription[upstream] # "none" => home[upstream] = ws
      /\ Sound(down[ws], upstream, value, source, UpToDate)
  BY Reader
<1>00. /\ subscription \in [SubscribeIds -> {"none", "starting", "open", "closed", "failed"}]
       /\ initialized \in [SubscribeIds -> BOOLEAN]
       /\ source \in Values \cup {NotAvailable}
  BY DEF Types, ServerTypes
<1>1. UNCHANGED <<server, ws, upstream>> /\ subscription[j] = "starting"
  BY DEF SignalHandlerReturns, SignalHandlerThrows, connectionVars, clientVars, lazyVars
<1>2. ASSUME NEW m \in UpdateMsg, m.id = j, down' = Answered(home[j], <<m>>),
             j # upstream
      PROVE  Sound(down'[ws], upstream, value, source, UpToDate')
  <2>1. UpToDate' => UpToDate
    BY <1>0, <1>00, <1>1, <1>2 DEF UpToDate, Open, SignalHandlerReturns, SignalHandlerThrows
  <2>2. <<m>> \in Seq(UpdateMsg) /\ Len(<<m>>) = 1 /\ <<m>>[1] = m
    OBVIOUS
  <2>3. \A k \in 1..Len(<<m>>) : <<m>>[k].id # upstream
    BY <1>2, <2>2
  <2>4. down'[ws] = down[ws] \/ down'[ws] = down[ws] \o <<m>>
    BY <1>0, <1>2, <2>2, AnsweredWhere
  <2>5. Sound(down[ws] \o <<m>>, upstream, value, source, UpToDate')
    BY <1>0, <2>1, <2>2, <2>3, SoundOthers
  <2>6. Sound(down[ws], upstream, value, source, UpToDate')
    BY <1>0, <2>1, SoundSame
  <2>7. QED
    BY <2>4, <2>5, <2>6
<1>3. ASSUME NEW m \in UpdateMsg, m.id = upstream, down' = Answered(home[upstream], <<m>>),
             j = upstream,
             \/ m.type = "replace" /\ m.value = source
             \/ m.type = "signalError" /\ subscription'[upstream] = "failed"
      PROVE  Sound(down'[ws], upstream, value, source, UpToDate')
  <2> DEFINE r == <<m>>
  <2>1. r \in Seq(UpdateMsg) /\ Len(r) = 1 /\ r[1] = m
    OBVIOUS
  <2> HIDE DEF r
  <2>2. home[upstream] = ws
    BY <1>0, <1>1, <1>3
  <2>3. down'[ws] = IF server[ws] = "open" THEN down[ws] \o r ELSE down[ws]
    <3>1. down' = Answered(ws, r)
      BY <1>3, <2>2 DEF r
    <3>2. QED
      BY <1>0, <2>1, <3>1, AnsweredWhere
  <2>4. m.type = "signalError" => ~UpToDate'
    BY <1>0, <1>1, <1>3 DEF UpToDate, Open
  <2>5. CASE server[ws] = "open"
    <3>1. /\ 1 \in 1..Len(r) /\ r[1].id = upstream
          /\ \A k \in 1..Len(r) : r[k].id = upstream => k = 1
      BY <1>3, <2>1
    <3>2. \/ r[1].type = "replace" /\ r[1].value = source
          \/ r[1].type = "signalError" /\ ~UpToDate'
      BY <1>3, <2>1, <2>4
    <3>3. QED
      BY <1>0, <2>1, <2>3, <2>5, <3>1, <3>2, SoundOne
  <2>6. CASE server[ws] # "open"
    <3>1. ~UpToDate'
      BY <1>1, <2>6 DEF UpToDate
    <3>2. QED
      BY <1>0, <2>3, <2>6, <3>1, SoundSame
  <2>7. QED
    BY <2>5, <2>6
<1>4. CASE SignalHandlerThrows(j)
  <2> DEFINE m == [type |-> "signalError", id |-> j]
  <2>1. m \in UpdateMsg /\ m.id = j /\ m.type = "signalError"
    BY MessageTypes
  <2>2. down' = Answered(home[j], <<m>>) /\ subscription'[j] = "failed"
    BY <1>00, <1>4 DEF SignalHandlerThrows
  <2> HIDE DEF m
  <2>3. QED
    BY <1>2, <1>3, <2>1, <2>2
<1>5. CASE SignalHandlerReturns(j)
  <2>1. CASE source # NotAvailable /\ j \notin toClose
    <3> DEFINE m == Update(j, source)
    <3>1. m \in UpdateMsg
      BY <1>00, <2>1, MessageTypes
    <3>2. ~initialized[j]
      BY <1>1 DEF SignalInv, HomeAgrees
    <3>3. m.id = j /\ m.type = "replace" /\ m.value = source
      BY <3>2, UpdateId
    <3>4. down' = Answered(home[j], <<m>>)
      BY <1>5, <2>1 DEF SignalHandlerReturns
    <3> HIDE DEF m
    <3>5. QED
      BY <1>2, <1>3, <3>1, <3>3, <3>4
  <2>2. CASE ~(source # NotAvailable /\ j \notin toClose)
    <3>1. down' = down
      BY <1>5, <2>2 DEF SignalHandlerReturns
    <3>2. UpToDate' => UpToDate
      <4>1. CASE j # upstream
        BY <1>0, <1>00, <1>1, <1>5, <4>1 DEF UpToDate, Open, SignalHandlerReturns
      <4>2. CASE j = upstream
        <5>1. CASE j \in toClose
          BY <1>0, <1>00, <1>1, <1>5, <4>2, <5>1 DEF UpToDate, Open, SignalHandlerReturns
        <5>2. CASE j \notin toClose
          BY <1>0, <1>00, <1>1, <1>5, <2>2, <4>2, <5>2 DEF UpToDate, Open, SignalHandlerReturns
        <5>3. QED
          BY <5>1, <5>2
      <4>3. QED
        BY <4>1, <4>2
    <3>3. QED
      BY <1>0, <3>1, <3>2, SoundSame
  <2>3. QED
    BY <2>1, <2>2
<1>6. QED
  BY <1>4, <1>5

(* The signal changes at the client when a message arrives, only.          *)
LEMMA ValueSteps ==
    ASSUME [Next]_vars
    PROVE  \/ /\ value' = value /\ (stale' = stale \/ stale' = TRUE)
              /\ down' = down \/ ServerStep \/ status' = "Disconnected"
           \/ \E s \in Sockets : ClientReceives(s)
<1>1. ASSUME Errored PROVE value' = value /\ (stale' = stale \/ stale' = TRUE)
  BY <1>1 DEF Errored, LazySignalErrors, lazyVars
<1>2. ASSUME NEW s \in Sockets, ConnectionLost(s)
      PROVE  value' = value /\ (stale' = stale \/ stale' = TRUE) /\ status' = "Disconnected"
  BY <1>1, <1>2 DEF ConnectionLost, SocketErrors, SocketCloses, OnWsError, clientVars, lazyVars,
     Errored, LazySignalErrors
<1>3. CASE FinishDispose
  BY <1>1, <1>3 DEF FinishDispose, DisposeCloses, Errored, LazySignalErrors, lazyVars
<1>4. CASE LazySignalStep
  BY <1>4 DEF LazySignalStep, Subscribe, Pull, Attach, Unsubscribe, LeaveUpstream
<1>5. CASE ConnectStep \/ UrlStep \/ StartDispose \/ UNCHANGED vars
  BY <1>5 DEF ConnectStep, UrlStep, EnsureConnectedOrStartConnection, UrlSettles, StartDispose,
     DisposeWaits, vars, transportVars, clientVars, lazyVars
<1>6. CASE ServerStep
  BY <1>6 DEF ServerStep, SourceChanges, SignalHandlerReturns, SignalHandlerThrows, clientVars, lazyVars
<1>7. ASSUME NEW s \in Sockets, ConnectionOpens(s) \/ ServerReceives(s) \/ ServerConnectionLost(s)
      PROVE  value' = value /\ (stale' = stale \/ stale' = TRUE) /\ down' = down
  BY <1>7 DEF ConnectionOpens, OnWsOpen, ServerReceives, ServerConnectionLost, ServerSocketCloses,
     clientVars, lazyVars
<1>8. QED
  BY <1>2, <1>3, <1>4, <1>5, <1>6, <1>7 DEF Next, NetworkStep

LEMMA SourceSteps ==
    ASSUME Types, [Next]_vars
    PROVE  /\ source \in Int /\ source' \in Int /\ source <= source'
           /\ source' = source \/ SourceChanges
<1>1. source \in Int
  BY Bounds DEF Types, ServerTypes, Values, NotAvailable
<1>2. source' = source \/ (SourceChanges /\ source' = source + 1)
  BY DEF Next, LazySignalStep, Subscribe, Pull, Attach, Unsubscribe, ConnectStep, UrlStep,
     NetworkStep, ConnectionOpens, ConnectionLost, ClientReceives, ServerReceives,
     ServerConnectionLost, ServerStep, SourceChanges, SignalHandlerReturns, SignalHandlerThrows,
     StartDispose, FinishDispose, vars, serverVars
<1>3. QED
  BY <1>1, <1>2

(* The value follows the source, which goes up. *)
LEMMA ValueFollows ==
    ASSUME Types, SignalInv, [Next]_vars
    PROVE  /\ value' <= source' /\ value' >= value
           /\ value' # value \/ (stale /\ ~stale') => value' \in 0..source /\ source' = source
<1>1. value \in Int /\ value <= source
  BY DEF Types, ClientTypes, SignalInv
<1>2. source \in Int /\ source' \in Int /\ source <= source'
  BY SourceSteps
<1>3. CASE value' = value /\ (stale' = stale \/ stale' = TRUE)
  BY <1>1, <1>2, <1>3
<1>4. ASSUME NEW s \in Sockets, ClientReceives(s)
      PROVE  /\ value' <= source' /\ value' >= value
             /\ value' # value \/ (stale /\ ~stale') => value' \in 0..source /\ source' = source
  BY <1>4, ClientReads
<1>5. QED
  BY <1>3, <1>4, ValueSteps

(* No message is for a subscription the server does not know. *)
LEMMA NothingForUnknown ==
    ASSUME Types, AnswersAgree, NEW i \in SubscribeIds, subscription[i] = "none", NEW s \in Sockets
    PROVE  \A k \in 1..Len(down[s]) : down[s][k].id # i
<1>1. \A k \in 1..Len(down[s]) : AnswerAgrees(s, down[s][k])
  BY DEF AnswersAgree
<1>2. QED
  BY <1>1 DEF AnswerAgrees

(* A subscription that is new to the server has the value it had. *)
LEMMA UnknownReads ==
    ASSUME Types, SignalInv, NEW i \in SubscribeIds, subscription[i] = "none", NEW s \in Sockets,
           ~UpToDate'
    PROVE  Sound(down[s], i, value, source, UpToDate')
<1>1. value \in Int /\ value >= NotAvailable /\ value <= source
  BY DEF Types, ClientTypes, SignalInv
<1>2. source \in Int /\ value \in NotAvailable..source
  BY <1>1, Bounds DEF Types, ServerTypes, Values, NotAvailable
<1>3. down[s] \in Seq(UpdateMsg)
  BY DEF Types, TransportTypeOK
<1>4. \A k \in 1..Len(down[s]) : down[s][k].id # i
  BY NothingForUnknown DEF SignalInv
<1>5. Sound(down[s], i, value, source, FALSE)
  BY <1>2, <1>3, <1>4, SoundFresh
<1>6. source <= source
  BY <1>2
<1>7. QED
  BY <1>2, <1>3, <1>5, <1>6, SoundSame

LEMMA ReadingSoundKept ==
    ASSUME Types, SignalInv, [Next]_vars
    PROVE  ReadingSound'
<1>0. Types /\ LazyInv /\ AnswersAgree /\ ConnectionInv /\ WiresFollowSockets
  BY DEF SignalInv
<1>00. source \in Int /\ source <= source
  BY SourceSteps
<1>1. CASE upstream' = None \/ status' # "Connected"
  BY <1>1 DEF ReadingSound
<1>2. ASSUME NEW s \in Sockets, ClientReceives(s) PROVE ReadingSound'
  BY <1>2, ClientReads
<1>3. CASE ServerStep
  <2>1. UNCHANGED <<value, upstream, status, ws>>
    BY <1>3 DEF ServerStep, SourceChanges, SignalHandlerReturns, SignalHandlerThrows, connectionVars,
       clientVars, lazyVars
  <2>2. ASSUME upstream # None, status = "Connected"
        PROVE  Sound(down'[ws], upstream, value, source', UpToDate')
    <3>1. CASE SourceChanges
      BY <2>2, <3>1, ChangeReads
    <3>2. ASSUME NEW j \in SubscribeIds, SignalHandlerReturns(j) \/ SignalHandlerThrows(j)
          PROVE  Sound(down'[ws], upstream, value, source', UpToDate')
      <4>1. source' = source
        BY <3>2 DEF SignalHandlerReturns, SignalHandlerThrows
      <4>2. Sound(down'[ws], upstream, value, source, UpToDate')
        BY <2>2, <3>2, HandlerReads
      <4>3. QED
        BY <4>1, <4>2
    <3>3. QED
      BY <1>3, <3>1, <3>2 DEF ServerStep
  <2>3. QED
    BY <2>1, <2>2 DEF ReadingSound
<1>4. CASE /\ UNCHANGED <<value, down, source, upstream, ws>>
           /\ status' = "Connected" => status = "Connected"
           /\ UpToDate' => UpToDate
  <2>1. ASSUME upstream # None, status = "Connected"
        PROVE  Sound(down[ws], upstream, value, source, UpToDate')
    BY <1>00, <1>4, <2>1, Reader, SoundSame
  <2>2. QED
    BY <1>4, <2>1 DEF ReadingSound
<1> SUFFICES ASSUME upstream' # None, status' = "Connected", value' = value, down' = down, ~ServerStep
             PROVE  ReadingSound'
  BY <1>1, <1>2, <1>3, ValueSteps
<1>5. CASE SubscribeKind
  <2>1. /\ nextSubscribeId \in SubscribeIds /\ upstream' = nextSubscribeId
        /\ UNCHANGED <<source, subscription, initialized>>
        /\ SafeSend(Sub(nextSubscribeId))
    BY <1>5 DEF SubscribeKind, Registers, serverVars
  <2>2. status = "Connected" /\ ws' = ws
    BY <2>1 DEF SafeSend, Transmit, TransmitThrows, Connect, connectionVars
  <2>3. ws \in Sockets
    BY <1>0, <2>2, ConnectedSettled
  <2>4. subscription[upstream'] = "none"
    BY <2>1, FreeNumber DEF SignalInv
  <2>5. ~UpToDate'
    BY <2>1, <2>4 DEF UpToDate, Open
  <2>6. Sound(down[ws], upstream', value, source, UpToDate')
    BY <2>1, <2>3, <2>4, <2>5, UnknownReads
  <2>7. QED
    BY <2>1, <2>2, <2>6 DEF ReadingSound
<1>6. CASE LeaveKind \/ ErroredKind
  BY <1>6 DEF LeaveKind, ErroredKind
<1>7. CASE ClientKind
  BY <1>4, <1>7 DEF ClientKind, connectionVars, serverVars, UpToDate, Open
<1>8. CASE ConnectKind
  <2>1. /\ UNCHANGED <<clientVars, serverVars, server, down>>
        /\ status = "Connected" => ws' = ws
        /\ status' = "Connected" => status = "Connected"
    BY <1>0, <1>8, ConnectKindSame
  <2>2. UNCHANGED <<upstream, ws, subscription, initialized, source>>
    BY <2>1 DEF clientVars, lazyVars, serverVars
  <2>3. UpToDate' = UpToDate
    BY <2>1, <2>2 DEF UpToDate, Open
  <2>4. QED
    BY <1>4, <2>1, <2>2, <2>3
<1>9. ASSUME NEW s \in Sockets, OpenKind(s) PROVE ReadingSound'
  <2>1. s # 0 /\ s = ws /\ Current = 0 /\ Current' = s
    BY <1>0, <1>9, OpenCarries
  <2>2. ws' = s /\ status # "Connected"
    BY <2>1 DEF Current, OpenKind
  <2>3. UNCHANGED <<source, subscription, initialized>>
        /\ (upstream' = upstream \/ (Registers /\ upstream' = nextSubscribeId))
    BY <1>9 DEF OpenKind, serverVars, Registers
  <2>4. upstream' \in SubscribeIds /\ subscription[upstream'] = "none"
    <3>1. CASE upstream' = upstream
      <4>1. upstream \in SubscribeIds
        BY <3>1 DEF Types, ClientTypes
      <4>2. ~Deaf
        BY <1>9 DEF OpenKind, OnWsOpen, Deaf
      <4>3. home[upstream] = 0
        BY <2>1, <3>1, <4>2 DEF SignalInv, UpstreamFollowed, Followed
      <4>4. QED
        BY <3>1, <4>1, <4>3 DEF SignalInv, HomeAgrees
    <3>2. CASE Registers /\ upstream' = nextSubscribeId
      BY <3>2, FreeNumber DEF Registers, SignalInv
    <3>3. QED
      BY <2>3, <3>1, <3>2
  <2>5. ~UpToDate'
    BY <2>3, <2>4 DEF UpToDate, Open
  <2>6. Sound(down[s], upstream', value, source, UpToDate')
    BY <2>4, <2>5, UnknownReads
  <2>7. QED
    BY <2>2, <2>3, <2>6 DEF ReadingSound
<1>10. ASSUME NEW s \in Sockets, SilentLossKind(s) PROVE ReadingSound'
  BY <1>1, <1>10 DEF SilentLossKind, SocketErrors, SocketCloses, OnWsError
<1>11. ASSUME NEW s \in Sockets, ServerReceives(s) PROVE ReadingSound'
  <2>1. UNCHANGED <<clientVars, server, status, ws, source, initialized>>
    BY <1>11, TakenMessage
  <2>2. \A i \in SubscribeIds : subscription'[i] = "open" => subscription[i] = "open"
    BY <1>11, TakenMessage DEF Types, ServerTypes
  <2>3. UpToDate' => UpToDate
    BY <2>1, <2>2 DEF UpToDate, Open, clientVars, lazyVars
  <2>4. QED
    BY <1>4, <2>1, <2>3 DEF clientVars, lazyVars
<1>12. ASSUME NEW s \in Sockets, ServerConnectionLost(s) PROVE ReadingSound'
  <2>1. UNCHANGED <<clientVars, connectionVars, source, initialized>>
    BY <1>12 DEF ServerConnectionLost, ServerSocketCloses
  <2>2. \A i \in SubscribeIds : subscription'[i] = "open" => subscription[i] = "open"
    BY <1>12 DEF ServerConnectionLost
  <2>3. server'[ws] = "open" => server[ws] = "open"
    BY <1>12 DEF ServerConnectionLost, ServerSocketCloses, Types, TransportTypeOK
  <2>4. UpToDate' => UpToDate
    BY <2>1, <2>2, <2>3 DEF UpToDate, Open, clientVars, lazyVars, connectionVars
  <2>5. QED
    BY <1>4, <2>1, <2>4 DEF clientVars, lazyVars, connectionVars
<1>13. QED
  BY <1>0, <1>5, <1>6, <1>7, <1>8, <1>9, <1>10, <1>11, <1>12, StepKinds

-----------------------------------------------------------------------------
(* The invariant, and what follows from it.                                *)

LEMMA InitInv ==
    ASSUME Init
    PROVE  Types /\ SignalInv
<1>0. MaxSockets \in Nat /\ MaxSubscribeIds \in Nat /\ MaxSubscribers \in Nat /\ MaxPulls \in Nat
      /\ MaxValue \in Nat
  BY Bounds
<1>1. TransportInit
  BY DEF Init
<1>2. TransportTypeOK(SubscribeMsg, UpdateMsg) /\ ConnectionInv /\ WiresFollowSockets
  BY <1>1, TransportInitTypes
<1>3. ClientTypes
  <2>1. 0 \in 0..MaxSubscribeIds /\ 0 \in 0..MaxSubscribers /\ 0 \in 0..MaxPulls
    BY <1>0
  <2>2. NotAvailable \in Int /\ NotAvailable >= NotAvailable
    BY DEF NotAvailable
  <2>3. /\ nextSubscribeId = 0 /\ recoverable = FALSE /\ subscribers = 0 /\ pulls = 0
        /\ upstream = None /\ value = NotAvailable /\ stale = TRUE /\ error = "none"
        /\ abandoned = {}
    BY DEF Init
  <2>4. QED
    BY <2>1, <2>2, <2>3 DEF ClientTypes
<1>4. ServerTypes
  BY <1>0 DEF Init, ServerTypes, Values
<1>5. Types
  BY <1>2, <1>3, <1>4 DEF Types
<1>6. LazyInv /\ value <= source
  BY DEF Init, TransportInit, LazyInv, RecoveredOnConnection, hasError, NotAvailable
<1>7. \A l \in Places : Wire[l] = <<>>
  BY <1>1 DEF TransportInit, Wire, Places, Sockets
<1>8. \A l \in Places : \A x : ~Carries(Wire[l], x) /\ Once(Wire[l], x)
  BY <1>7 DEF Carries, Once
<1>9. ASSUME NEW i \in SubscribeIds PROVE SubscribesOnce(i) /\ HomeAgrees(i) /\ Left(i)
  <2>1. SubscribesOnce(i)
    BY <1>8 DEF SubscribesOnce
  <2>2. HomeAgrees(i)
    BY DEF Init, HomeAgrees
  <2>3. Left(i)
    <3>1. Current \in Places
      BY <1>5, WireType
    <3>2. subscription[i] = "none"
      BY DEF Init
    <3>3. QED
      BY <1>8, <3>1, <3>2 DEF Left, Leaving
  <2>4. QED
    BY <2>1, <2>2, <2>3
<1>10. AnswersAgree
  BY <1>1 DEF TransportInit, AnswersAgree
<1>11. UpstreamFollowed /\ ReadingSound
  BY DEF Init, UpstreamFollowed, ReadingSound
<1>12. QED
  BY <1>2, <1>5, <1>6, <1>9, <1>10, <1>11 DEF SignalInv

LEMMA InvKept ==
    ASSUME Types, SignalInv, [Next]_vars
    PROVE  Types' /\ SignalInv'
<1>0. /\ ConnectionInv /\ WiresFollowSockets /\ LazyInv /\ AnswersAgree /\ UpstreamFollowed
      /\ \A i \in SubscribeIds : SubscribesOnce(i) /\ HomeAgrees(i) /\ Left(i)
  BY DEF SignalInv
<1>1. Types' /\ ConnectionInv' /\ WiresFollowSockets'
  BY <1>0, TypesKept
<1>2. LazyInv'
  BY <1>0, LazyKept
<1>3. value' <= source'
  BY ValueFollows
<1>4. ASSUME NEW i \in SubscribeIds PROVE SubscribesOnce(i)' /\ HomeAgrees(i)' /\ Left(i)'
  <2>1. SubscribesOnce(i) /\ HomeAgrees(i) /\ Left(i)
    BY <1>0
  <2>2. SubscribesOnce(i)'
    BY <1>0, <2>1, SubscribesOnceKept
  <2>3. HomeAgrees(i)'
    BY <1>0, <2>1, HomeAgreesKept
  <2>4. Left(i)'
    BY <1>0, <1>1, <2>1, LeftKept
  <2>5. QED
    BY <2>2, <2>3, <2>4
<1>5. AnswersAgree'
  BY <1>0, AnswersAgreeKept
<1>6. UpstreamFollowed'
  BY <1>0, UpstreamFollowedKept
<1>7. ReadingSound'
  BY ReadingSoundKept
<1>8. (\A i \in SubscribeIds : SubscribesOnce(i) /\ HomeAgrees(i) /\ Left(i))'
  BY <1>4 DEF SubscribeIds
<1>9. QED
  BY <1>1, <1>2, <1>3, <1>5, <1>6, <1>7, <1>8 DEF SignalInv

(* Every reachable state satisfies the invariant, whatever the readers,    *)
(* the server and the connections do: subscriptions, errors and updates    *)
(* agree on both sides (LazySignal, ClientPort, ServerPort).               *)
THEOREM InvHolds == Spec => [](Types /\ SignalInv)
<1>1. Init => Types /\ SignalInv
  BY InitInv
<1>2. (Types /\ SignalInv) /\ [Next]_vars => (Types /\ SignalInv)'
  BY InvKept
<1>3. QED
  BY <1>1, <1>2, PTL DEF Spec

(* Every variable of the two ports, the signal and the transport keeps its *)
(* type and its bounds: no subscription is counted twice, and the signal   *)
(* never has a value beyond the server's (PortSignals.TypeOK).             *)
THEOREM TypeOKHolds == Spec => []TypeOK
<1>1. Types /\ SignalInv => TypeOK
  <2> SUFFICES ASSUME Types, SignalInv PROVE TypeOK
    OBVIOUS
  <2>1. TransportTypeOK(SubscribeMsg, UpdateMsg) /\ ClientTypes /\ ServerTypes
    BY DEF Types
  <2>2. openSignalSubscriptions \subseteq SubscribeIds
    BY <2>1 DEF SignalInv, LazyInv, ClientTypes
  <2>3. openCommunicationsCount \in 0..1
    BY DEF SignalInv, LazyInv
  <2>4. value \in Values \cup {NotAvailable}
    <3>1. value \in Int /\ value >= NotAvailable /\ value <= source
      BY <2>1 DEF SignalInv, ClientTypes
    <3>2. source \in Int /\ source <= MaxValue
      BY <2>1, Bounds DEF ServerTypes, Values, NotAvailable
    <3>3. value <= MaxValue
      BY <3>1, <3>2, Bounds
    <3>4. QED
      BY <3>1, <3>3, Bounds DEF Values, NotAvailable
  <2>5. QED
    BY <2>1, <2>2, <2>3, <2>4 DEF TypeOK, ClientTypes, ServerTypes
<1>2. QED
  BY <1>1, InvHolds, PTL

(* A client that is subscribed will have the server's value once all that  *)
(* is coming has arrived: no update is lost, repeated or applied to the    *)
(* wrong value, across unsubscribes, refusals and reconnections            *)
(* (receivedSignalSubscribe, receivedSignalUpdate, onConnected).           *)
THEOREM InSyncHolds == Spec => []InSync
<1>1. Types /\ SignalInv => InSync
  <2> SUFFICES ASSUME Types, SignalInv PROVE InSync
    OBVIOUS
  <2> SUFFICES ASSUME status = "Connected", server[ws] = "open", upstream \in Open, initialized[upstream]
               PROVE  \E f \in [0..Len(down[ws]) -> Values \cup {NotAvailable}] :
                        Reads(f, value, down[ws], upstream) /\ f[Len(down[ws])] = source
    BY DEF InSync
  <2>1. upstream # None /\ UpToDate
    BY DEF Open, SubscribeIds, None, UpToDate
  <2>2. Sound(down[ws], upstream, value, source, UpToDate)
    BY <2>1, Reader
  <2>3. PICK f \in [0..Len(down[ws]) -> NotAvailable..source] :
               Reads(f, value, down[ws], upstream) /\ (UpToDate => f[Len(down[ws])] = source)
    BY <2>2 DEF Sound
  <2>4. source \in Int /\ source <= MaxValue
    BY Bounds DEF Types, ServerTypes, Values, NotAvailable
  <2>5. NotAvailable..source \subseteq Values \cup {NotAvailable}
    BY <2>4, Bounds DEF Values, NotAvailable
  <2>6. f \in [0..Len(down[ws]) -> Values \cup {NotAvailable}]
    BY <2>3, <2>5
  <2>7. QED
    BY <2>1, <2>3, <2>6
<1>2. QED
  BY <1>1, InvHolds, PTL

(* What passes for fresh is subscribed to, a connection that opened has    *)
(* recovered the signal unless the server refused it, and the server keeps *)
(* no subscription the client left without telling it so, but those that   *)
(* were queued when a connection attempt failed (LazySignal.isStale,       *)
(* ClientPort.recoverableSignals, ServerPort.receivedSignalUnsubscribe).   *)
THEOREM SubscriptionsAgreeHolds == Spec => []SubscriptionsAgree
<1>1. Types /\ SignalInv => SubscriptionsAgree
  <2> SUFFICES ASSUME Types, SignalInv PROVE SubscriptionsAgree
    OBVIOUS
  <2>1. FreshOnlyWhileSubscribed /\ RecoveredOnConnection
    BY DEF SignalInv, LazyInv, FreshOnlyWhileSubscribed
  <2>2. ASSUME NEW i \in Open, status = "Connected", server[ws] = "open", home[i] = ws,
               i # upstream, i \notin abandoned
        PROVE  [type |-> "signalUnsubscribe", id |-> i] \in ToSet(up[ws])
    <3>1. ws \in Sockets /\ Current = ws /\ ws # 0
      BY <2>2, ConnectedSettled DEF SignalInv, Sockets
    <3>2. i \in SubscribeIds /\ subscription[i] = "open"
      BY DEF Open
    <3>3. Leaving(i)
      BY <2>2, <3>2 DEF SignalInv, Left
    <3>4. Carries(Wire[ws], Unsub(i))
      BY <2>2, <3>1, <3>2, <3>3 DEF Leaving
    <3>5. Wire[ws] = up[ws] /\ up[ws] \in Seq(SubscribeMsg)
      BY <3>1 DEF Wire, Places, Sockets, Types, TransportTypeOK
    <3>6. QED
      BY <3>4, <3>5 DEF Carries, Unsub, ToSet
  <2>3. NoOtherLeftover
    BY <2>2 DEF NoOtherLeftover
  <2>4. QED
    BY <2>1, <2>3 DEF SubscriptionsAgree
<1>2. QED
  BY <1>1, InvHolds, PTL

(* What a reader of the signal sees implements SignalContract: the values  *)
(* it gets are the server's, in their order, and none beyond the newest    *)
(* (LazySignal over receivedSignalUpdate).                                 *)
THEOREM KeepsContractHolds == Spec => KeepsContract
<1>1. Init => Contract!Init
  BY DEF Init, Contract!Init, NotAvailable, Contract!NotAvailable
<1>2. Types /\ SignalInv /\ Types' /\ [Next]_vars => [Contract!Next]_<<source, value, stale>>
  <2> SUFFICES ASSUME Types, SignalInv, Types', [Next]_vars
               PROVE  [Contract!Next]_<<source, value, stale>>
    OBVIOUS
  <2>1. stale \in BOOLEAN /\ stale' \in BOOLEAN
    BY DEF Types, ClientTypes
  <2>2. /\ value' >= value
        /\ value' # value \/ (stale /\ ~stale') => value' \in 0..source /\ source' = source
    BY ValueFollows
  <2>3. CASE value' # value \/ (stale /\ ~stale')
    <3>1. Contract!Deliver
      BY <2>1, <2>2, <2>3 DEF Contract!Deliver
    <3>2. QED
      BY <3>1 DEF Contract!Next
  <2>4. CASE SourceChanges
    <3>1. source' = source + 1 /\ UNCHANGED <<value, stale>>
      BY <2>4 DEF SourceChanges, clientVars, lazyVars
    <3>2. QED
      BY <3>1 DEF Contract!Next, Contract!Change
  <2>5. CASE value' = value /\ source' = source /\ ~(stale /\ ~stale')
    <3>1. stale' = stale \/ stale' = TRUE
      BY <2>1, <2>5
    <3>2. QED
      BY <2>5, <3>1 DEF Contract!Next, Contract!BecomeStale
  <2>6. QED
    BY <2>3, <2>4, <2>5, SourceSteps
<1>3. QED
  BY <1>1, <1>2, InvHolds, PTL DEF Spec, KeepsContract, Contract!Spec

=============================================================================
