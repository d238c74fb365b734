-------------------------- MODULE PortCallsProofs --------------------------
(***************************************************************************)
(* Proofs about PortCalls, for every number of sockets, calls and packets: *)
(* its type invariant, that the transport never has two live sockets, that *)
(* no call is left waiting on a transport that is down, and, of the        *)
(* client, that the count of open communications is that of its calls;     *)
(* then that the ports implement CallContract, and that each side of a     *)
(* channel receives a prefix of what the other side sent, over every loss  *)
(* of the connection, reconnection and disposal.                           *)
(***************************************************************************)
EXTENDS PortCalls, WsClientTransportProofs

(* Each step of the ports is, for the transport, one of its own. *)

LEMMA NextStaysDisposed ==
    ASSUME [Next]_vars
    PROVE  StaysDisposed
<1>1. CASE UNCHANGED vars
  BY <1>1 DEF vars, transportVars, StaysDisposed, disposed
<1>2. CASE ClientCallStep
  <2>1. CASE CallRpc
    BY <2>1, CommunicationsChangeKeepsDisposed DEF CallRpc, UpdateOpenCommunicationsCount
  <2>2. CASE CreateChannel
    <3>1. CASE UpdateOpenCommunicationsCount
      BY <3>1, CommunicationsChangeKeepsDisposed DEF UpdateOpenCommunicationsCount
    <3>2. CASE UNCHANGED dispose
      BY <3>2 DEF StaysDisposed, disposed
    <3>3. QED
      BY <2>2, <3>1, <3>2 DEF CreateChannel
  <2>3. ASSUME NEW c \in Calls, ChannelSend(c) PROVE StaysDisposed
    BY <2>3 DEF ChannelSend, StaysDisposed, disposed
  <2>4. CASE EnsureConnectedOrStartConnection
    BY <2>4 DEF EnsureConnectedOrStartConnection, StaysDisposed, disposed
  <2>5. QED
    BY <1>2, <2>1, <2>2, <2>3, <2>4 DEF ClientCallStep
<1>3. CASE DisposeStep
  BY <1>3 DEF DisposeStep, StartDispose, FinishDispose, DisposeWaits, DisposeCloses,
     StaysDisposed, disposed
<1>4. CASE NetworkStep
  <2>1. CASE UrlSettles
    BY <2>1 DEF UrlSettles, StaysDisposed, disposed
  <2>2. ASSUME NEW s \in Sockets, ConnectionOpens(s) PROVE StaysDisposed
    BY <2>2 DEF ConnectionOpens, StaysDisposed, disposed
  <2>3. ASSUME NEW s \in Sockets, ConnectionLost(s) PROVE StaysDisposed
    <3>1. CASE CommunicationsChange(openCommunicationsCount, 0)
      BY <3>1, CommunicationsChangeKeepsDisposed
    <3>2. CASE UNCHANGED dispose
      BY <3>2 DEF StaysDisposed, disposed
    <3>3. QED
      BY <2>3, <3>1, <3>2 DEF ConnectionLost
  <2>4. ASSUME NEW s \in Sockets, ClientReceives(s) PROVE StaysDisposed
    <3>1. CASE UpdateOpenCommunicationsCount
      BY <3>1, CommunicationsChangeKeepsDisposed DEF UpdateOpenCommunicationsCount
    <3>2. CASE UNCHANGED dispose
      BY <3>2 DEF StaysDisposed, disposed
    <3>3. QED
      BY <2>4, <3>1, <3>2 DEF ClientReceives, ReceivedRpcResult, ReceivedChannelSend,
         ReceivedChannelEnd
  <2>5. ASSUME NEW s \in Sockets, ServerReceives(s) \/ ServerConnectionLost(s)
        PROVE StaysDisposed
    BY <2>5 DEF ServerReceives, ServerTakeMessage, ServerConnectionLost, ServerSocketCloses,
       StaysDisposed, disposed
  <2>6. QED
    BY <1>4, <2>1, <2>2, <2>3, <2>4, <2>5 DEF NetworkStep
<1>5. CASE HandlerStep
  BY <1>5 DEF HandlerStep, RpcHandlerSettles, ServerChannelSend, ChannelHandlerReturns,
     ChannelHandlerThrows, StaysDisposed, disposed
<1>6. QED
  BY <1>1, <1>2, <1>3, <1>4, <1>5 DEF Next

LEMMA NextIsTransportStep ==
    ASSUME [Next]_vars
    PROVE  TransportStep
<1>1. CASE Quiet
  BY <1>1 DEF TransportStep
<1>2. CASE Sends
  BY <1>2 DEF TransportStep
<1>3. CASE EnsureConnectedOrStartConnection \/ UrlSettles \/ DisposeCloses
  BY <1>3 DEF TransportStep
<1>4. CASE \E s \in Sockets : SocketStep(s)
  BY <1>4 DEF TransportStep
<1>5. CASE ClientCallStep
  BY <1>2, <1>3, <1>5 DEF ClientCallStep, CallRpc, CreateChannel, ChannelSend, Sends
<1>6. CASE NetworkStep
  <2>1. ASSUME NEW s \in Sockets, ClientReceives(s) PROVE TransportStep
    BY <1>1, <2>1 DEF ClientReceives, TakeMessage, Quiet, connectionVars
  <2>2. ASSUME NEW s \in Sockets, \/ ConnectionOpens(s) \/ ConnectionLost(s)
                                 \/ ServerReceives(s) \/ ServerConnectionLost(s)
        PROVE  TransportStep
    BY <1>4, <2>2 DEF ConnectionOpens, ConnectionLost, ServerReceives, ServerConnectionLost,
       SocketStep
  <2>3. QED
    BY <1>3, <1>6, <2>1, <2>2 DEF NetworkStep
<1>7. CASE DisposeStep
  BY <1>1, <1>3, <1>7 DEF DisposeStep, StartDispose, DisposeWaits, FinishDispose, Quiet,
     connectionVars
<1>8. CASE HandlerStep \/ UNCHANGED vars
  BY <1>1, <1>8 DEF HandlerStep, RpcHandlerSettles, ServerChannelSend, ChannelHandlerReturns,
     ChannelHandlerThrows, vars, transportVars, connectionVars, Quiet
<1>9. QED
  BY <1>5, <1>6, <1>7, <1>8 DEF Next

LEMMA NextKeepsConnection ==
    ASSUME ConnectionTypeOK, ConnectionInv, [Next]_vars
    PROVE  ConnectionTypeOK' /\ ConnectionInv'
  BY NextStaysDisposed, NextIsTransportStep, StepKeepsConnection

(* The transport never has two live sockets, and its status is that of the *)
(* one it has, over every interleaving of opening, failing, reconnecting   *)
(* and disposing (WsClientTransport.connect, onWsOpen, onWsError).         *)
THEOREM SingleConnectionHolds == Spec => []SingleConnection
<1>1. Init => ConnectionTypeOK /\ ConnectionInv
  BY TransportAssumption DEF Init, TransportInit, ConnectionTypeOK, ConnectionInv,
     SingleConnection, Sockets, Live, disposed
<1>2. ConnectionTypeOK /\ ConnectionInv /\ [Next]_vars => ConnectionTypeOK' /\ ConnectionInv'
  BY NextKeepsConnection
<1>3. ConnectionInv => SingleConnection
  BY DEF ConnectionInv
<1>4. QED
  BY <1>1, <1>2, <1>3, PTL DEF Spec

-----------------------------------------------------------------------------
(* No call is stranded.                                                    *)

(* A message that the transport takes leaves it connected or connecting.   *)
LEMMA TransmitConnects ==
    ASSUME NEW msg, Transmit(msg)
    PROVE  status' # "Disconnected"
  BY DEF Transmit, Connect, connectionVars

(* NoCallStranded survives a step that adds no call and does not leave the *)
(* transport down, or one after which it is disposed of.                   *)
LEMMA NoNewCallKeeps ==
    ASSUME NoCallStranded, StaysDisposed,
           ongoingRpcs' \subseteq ongoingRpcs, openChannels' \subseteq openChannels,
           status' = "Disconnected" => status = "Disconnected"
    PROVE  NoCallStranded'
  BY DEF NoCallStranded, StaysDisposed, disposed

LEMMA SendingKeepsCalls ==
    ASSUME NoCallStranded, StaysDisposed, NEW msg, Transmit(msg) \/ TransmitThrows(msg)
    PROVE  NoCallStranded'
<1>1. CASE Transmit(msg)
  BY <1>1, TransmitConnects DEF NoCallStranded
<1>2. CASE TransmitThrows(msg)
  BY <1>2 DEF TransmitThrows, NoCallStranded, StaysDisposed
<1>3. QED
  BY <1>1, <1>2

LEMMA LossKeepsCalls ==
    ASSUME NoCallStranded, StaysDisposed, NEW s \in Sockets, ConnectionLost(s)
    PROVE  NoCallStranded'
<1>1. CASE ReportsError
  BY <1>1 DEF ConnectionLost, Errored, NoCallStranded
<1>2. CASE ~ReportsError
  BY <1>2 DEF ConnectionLost, clientVars, ReportsError, NoCallStranded, StaysDisposed
<1>3. QED
  BY <1>1, <1>2

LEMMA NextKeepsCalls ==
    ASSUME NoCallStranded, [Next]_vars
    PROVE  NoCallStranded'
<1>0. StaysDisposed
  BY NextStaysDisposed
<1>1. CASE UNCHANGED vars
  BY <1>0, <1>1, NoNewCallKeeps DEF vars, transportVars, connectionVars, clientVars
<1>2. CASE ClientCallStep
  <2>1. CASE CallRpc
    BY <1>0, <2>1, SendingKeepsCalls DEF CallRpc
  <2>2. CASE CreateChannel
    BY <1>0, <2>2, SendingKeepsCalls DEF CreateChannel
  <2>3. ASSUME NEW c \in Calls, ChannelSend(c) PROVE NoCallStranded'
    BY <1>0, <2>3, SendingKeepsCalls DEF ChannelSend
  <2>4. CASE EnsureConnectedOrStartConnection /\ UNCHANGED <<clientVars, serverVars>>
    BY <1>0, <2>4, NoNewCallKeeps DEF EnsureConnectedOrStartConnection, Connect, clientVars
  <2>5. QED
    BY <1>2, <2>1, <2>2, <2>3, <2>4 DEF ClientCallStep
<1>3. CASE StartDispose
  BY <1>0, <1>3, NoNewCallKeeps DEF StartDispose, DisposeWaits, connectionVars, clientVars
<1>4. CASE FinishDispose
  BY <1>4 DEF FinishDispose, Errored, NoCallStranded
<1>5. CASE NetworkStep
  <2>1. CASE UrlSettles /\ UNCHANGED <<clientVars, serverVars>>
    BY <1>0, <2>1, NoNewCallKeeps DEF UrlSettles, clientVars
  <2>2. ASSUME NEW s \in Sockets, ConnectionOpens(s) PROVE NoCallStranded'
    BY <2>2 DEF ConnectionOpens, OnWsOpen, NoCallStranded
  <2>3. ASSUME NEW s \in Sockets, ConnectionLost(s) PROVE NoCallStranded'
    BY <1>0, <2>3, LossKeepsCalls
  <2>4. ASSUME NEW s \in Sockets, ClientReceives(s) PROVE NoCallStranded'
    <3>1. /\ ongoingRpcs' \subseteq ongoingRpcs
          /\ openChannels' \subseteq openChannels
      BY <2>4 DEF ClientReceives, ReceivedRpcResult, ReceivedChannelSend, ReceivedChannelEnd,
         clientVars
    <3>2. status' = status
      BY <2>4 DEF ClientReceives, TakeMessage, connectionVars
    <3>3. QED
      BY <1>0, <3>1, <3>2, NoNewCallKeeps
  <2>5. ASSUME NEW s \in Sockets, ServerReceives(s) \/ ServerConnectionLost(s)
        PROVE  NoCallStranded'
    BY <1>0, <2>5, NoNewCallKeeps DEF ServerReceives, ServerTakeMessage, ServerConnectionLost,
       ServerSocketCloses, connectionVars, clientVars
  <2>6. QED
    BY <1>5, <2>1, <2>2, <2>3, <2>4, <2>5 DEF NetworkStep
<1>6. CASE HandlerStep
  BY <1>0, <1>6, NoNewCallKeeps DEF HandlerStep, RpcHandlerSettles, ServerChannelSend,
     ChannelHandlerReturns, ChannelHandlerThrows, connectionVars, clientVars
<1>7. QED
  BY <1>1, <1>2, <1>3, <1>4, <1>5, <1>6 DEF Next, DisposeStep

(* A transport that is down and not disposed of has no call waiting: every *)
(* way the connection can be lost tells every call (ClientPort.errored).   *)
THEOREM NoCallStrandedHolds == Spec => []NoCallStranded
<1>1. Init => NoCallStranded
  BY DEF Init, NoCallStranded
<1>2. NoCallStranded /\ [Next]_vars => NoCallStranded'
  BY NextKeepsCalls
<1>3. QED
  BY <1>1, <1>2, PTL DEF Spec

-----------------------------------------------------------------------------
(* Types.                                                                  *)

LEMMA UpdateCountType ==
    ASSUME ongoingRpcs' \subseteq Calls, openChannels' \subseteq Calls,
           UpdateOpenCommunicationsCount
    PROVE  openCommunicationsCount' \in Nat
<1>1. IsFiniteSet(Calls)
  BY PortCallsAssumption, FS_Interval DEF Calls
<1>2. IsFiniteSet(ongoingRpcs') /\ IsFiniteSet(openChannels')
  BY <1>1, FS_Subset
<1>3. Cardinality(ongoingRpcs') \in Nat /\ Cardinality(openChannels') \in Nat
  BY <1>2, FS_CardinalityType
<1>4. QED
  BY <1>3 DEF UpdateOpenCommunicationsCount

(* The wires carry messages, whatever is sent. *)
LEMMA SendType ==
    ASSUME TransportTypeOK(UpMsg, DownMsg), NEW msg \in UpMsg,
           Transmit(msg) \/ TransmitThrows(msg)
    PROVE  queued' \in Seq(UpMsg) /\ up' \in [Sockets -> Seq(UpMsg)]
  BY SendTypes

LEMMA AnsweredType ==
    ASSUME TransportTypeOK(UpMsg, DownMsg), NEW msg \in DownMsg, NEW s
    PROVE  Answered(s, <<msg>>) \in [Sockets -> Seq(DownMsg)]
<1>1. <<msg>> \in Seq(DownMsg)
  OBVIOUS
<1>2. QED
  BY <1>1, AnsweredTypes

(* What the client receives leaves the types of its state alone. *)
LEMMA ClientReceivesType ==
    ASSUME TypeOK, NEW s \in Sockets, ClientReceives(s)
    PROVE  TransportTypeOK(UpMsg, DownMsg)' /\ ClientTypeOK'
<1> DEFINE m == Head(down[s])
<1>1. m \in DownMsg /\ down' \in [Sockets -> Seq(DownMsg)]
  BY DEF ClientReceives, TakeMessage, TypeOK, TransportTypeOK
<1>2. m.id \in Calls /\ (m.type = "channelSend" => m.packet \in Packets)
  BY <1>1 DEF DownMsg, EndMsg, PacketMsg
<1> HIDE DEF m
<1>3. ClientTypeOK' /\ shouldRef' \in BOOLEAN /\ dispose' \in {"no", "waiting", "released", "done"}
  <2>1. CASE ReceivedRpcResult(m)
    <3>1. ongoingRpcs' \subseteq Calls /\ openChannels' \subseteq Calls
      BY <2>1 DEF ReceivedRpcResult, TypeOK, ClientTypeOK
    <3>2. QED
      BY <1>2, <2>1, <3>1, UpdateCountType, CommunicationsChangeType
         DEF ReceivedRpcResult, UpdateOpenCommunicationsCount, TypeOK, ClientTypeOK,
             TransportTypeOK
  <2>2. CASE ReceivedChannelSend(m)
    <3>1. received' \in [Calls -> Seq(Packets)]
      BY <1>2, <2>2 DEF ReceivedChannelSend, TypeOK, ClientTypeOK
    <3>2. QED
      BY <2>2, <3>1 DEF ReceivedChannelSend, TypeOK, ClientTypeOK, TransportTypeOK
  <2>3. CASE ReceivedChannelEnd(m)
    <3>1. ongoingRpcs' \subseteq Calls /\ openChannels' \subseteq Calls
      BY <2>3 DEF ReceivedChannelEnd, TypeOK, ClientTypeOK
    <3>2. openCommunicationsCount' \in Nat
      BY <2>3, <3>1, UpdateCountType DEF ReceivedChannelEnd
    <3>3. shouldRef' \in BOOLEAN /\ dispose' \in {"no", "waiting", "released", "done"}
      BY <2>3, CommunicationsChangeType DEF ReceivedChannelEnd, UpdateOpenCommunicationsCount,
         TypeOK, TransportTypeOK
    <3>4. channel' \in [Calls -> ChannelStatus] /\ events' \in [Calls -> Seq({"error", "close"})]
      <4>1. \A c \in Calls, e \in {"error", "close"} :
              Append(events[c], e) \in Seq({"error", "close"})
        BY DEF TypeOK, ClientTypeOK
      <4>2. QED
        BY <1>2, <2>3, <4>1 DEF ReceivedChannelEnd, TypeOK, ClientTypeOK, ChannelStatus
    <3>5. QED
      BY <2>3, <3>1, <3>2, <3>3, <3>4 DEF ReceivedChannelEnd, TypeOK, ClientTypeOK
  <2>4. CASE UNCHANGED <<clientVars, dispose, shouldRef>>
    BY <2>4 DEF clientVars, TypeOK, ClientTypeOK, TransportTypeOK
  <2>5. QED
    BY <2>1, <2>2, <2>3, <2>4 DEF ClientReceives, m
<1>4. QED
  BY <1>1, <1>3 DEF ClientReceives, TakeMessage, connectionVars, TypeOK, TransportTypeOK

(* The rest of TransportTypeOK, beside ConnectionTypeOK. *)
WireTypeOK ==
    /\ server \in [Sockets -> {"none", "open", "closed"}]
    /\ queued \in Seq(UpMsg)
    /\ up \in [Sockets -> Seq(UpMsg)]
    /\ down \in [Sockets -> Seq(DownMsg)]
    /\ dispose \in {"no", "waiting", "released", "done"}
    /\ shouldRef \in BOOLEAN

LEMMA TransportTypeParts ==
    TransportTypeOK(UpMsg, DownMsg) <=> ConnectionTypeOK /\ WireTypeOK
  BY DEF TransportTypeOK, ConnectionTypeOK, WireTypeOK

LEMMA CallRpcType ==
    ASSUME TypeOK, CallRpc
    PROVE  WireTypeOK' /\ ClientTypeOK' /\ ServerTypeOK'
<1>1. nextChannelId \in Calls /\ nextChannelId' \in 0..MaxCalls
  BY PortCallsAssumption DEF CallRpc, TypeOK, ClientTypeOK, Calls
<1>2. [type |-> "rpcCall", id |-> nextChannelId] \in UpMsg
  BY <1>1 DEF UpMsg, CallMsg
<1>3. queued' \in Seq(UpMsg) /\ up' \in [Sockets -> Seq(UpMsg)]
  BY <1>2, SendType DEF CallRpc, TypeOK
<1>4. ongoingRpcs' \subseteq Calls /\ openChannels' \subseteq Calls
  BY <1>1 DEF CallRpc, TypeOK, ClientTypeOK
<1>5. openCommunicationsCount' \in Nat
  BY <1>4, UpdateCountType DEF CallRpc
<1>6. shouldRef' \in BOOLEAN /\ dispose' \in {"no", "waiting", "released", "done"}
  BY CommunicationsChangeType DEF CallRpc, UpdateOpenCommunicationsCount, TypeOK,
     TransportTypeOK
<1>7. WireTypeOK'
  BY <1>3, <1>6 DEF CallRpc, TypeOK, TransportTypeOK, WireTypeOK
<1>8. ClientTypeOK'
  BY <1>1, <1>4, <1>5 DEF CallRpc, TypeOK, ClientTypeOK
<1>9. QED
  BY <1>7, <1>8 DEF CallRpc, serverVars, TypeOK, ServerTypeOK

LEMMA CreateChannelType ==
    ASSUME TypeOK, CreateChannel
    PROVE  WireTypeOK' /\ ClientTypeOK' /\ ServerTypeOK'
<1>1. nextChannelId \in Calls /\ nextChannelId' \in 0..MaxCalls
  BY PortCallsAssumption DEF CreateChannel, TypeOK, ClientTypeOK, Calls
<1>2. [type |-> "channelCreate", id |-> nextChannelId] \in UpMsg
  BY <1>1 DEF UpMsg, CallMsg
<1>3. queued' \in Seq(UpMsg) /\ up' \in [Sockets -> Seq(UpMsg)]
  BY <1>2, SendType DEF CreateChannel, TypeOK
<1>4. ongoingRpcs' \subseteq Calls /\ openChannels' \subseteq Calls
  BY <1>1 DEF CreateChannel, TypeOK, ClientTypeOK
<1>5. openCommunicationsCount' \in Nat
  BY <1>4, UpdateCountType DEF CreateChannel, TypeOK, ClientTypeOK
<1>6. shouldRef' \in BOOLEAN /\ dispose' \in {"no", "waiting", "released", "done"}
  BY CommunicationsChangeType DEF CreateChannel, UpdateOpenCommunicationsCount, TypeOK,
     TransportTypeOK
<1>7. WireTypeOK'
  BY <1>3, <1>6 DEF CreateChannel, TypeOK, TransportTypeOK, WireTypeOK
<1>8. channel' \in [Calls -> ChannelStatus]
  BY DEF CreateChannel, TypeOK, ClientTypeOK, ChannelStatus
<1>9. ClientTypeOK'
  BY <1>1, <1>4, <1>5, <1>8 DEF CreateChannel, TypeOK, ClientTypeOK
<1>10. QED
  BY <1>7, <1>9 DEF CreateChannel, serverVars, TypeOK, ServerTypeOK

LEMMA ChannelSendType ==
    ASSUME TypeOK, NEW c \in Calls, ChannelSend(c)
    PROVE  WireTypeOK' /\ ClientTypeOK' /\ ServerTypeOK'
<1>1. sent[c] \in Packets /\ sent[c] + 1 \in 0..MaxSends
  BY PortCallsAssumption DEF ChannelSend, TypeOK, ClientTypeOK, Packets
<1>2. [type |-> "channelSend", id |-> c, packet |-> sent[c]] \in UpMsg
  BY <1>1 DEF UpMsg, PacketMsg
<1>3. queued' \in Seq(UpMsg) /\ up' \in [Sockets -> Seq(UpMsg)]
  BY <1>2, SendType DEF ChannelSend, TypeOK
<1>4. WireTypeOK'
  BY <1>3 DEF ChannelSend, TypeOK, TransportTypeOK, WireTypeOK
<1>5. ClientTypeOK'
  BY <1>1 DEF ChannelSend, TypeOK, ClientTypeOK
<1>6. QED
  BY <1>4, <1>5 DEF ChannelSend, serverVars, TypeOK, ServerTypeOK

LEMMA ErroredType ==
    ASSUME TypeOK, Errored
    PROVE  ClientTypeOK'
<1>1. \A c \in Calls : Append(events[c], "error") \in Seq({"error", "close"})
  BY DEF TypeOK, ClientTypeOK
<1>2. QED
  BY <1>1 DEF Errored, TypeOK, ClientTypeOK, ChannelStatus

LEMMA ConnectionLostType ==
    ASSUME TypeOK, NEW s \in Sockets, ConnectionLost(s)
    PROVE  WireTypeOK' /\ ClientTypeOK' /\ ServerTypeOK'
<1>1. server' = server /\ queued' = queued /\ up' = up /\ down' = [down EXCEPT ![s] = <<>>]
  BY DEF ConnectionLost, SocketErrors, SocketCloses, OnWsError
<1>2. shouldRef' \in BOOLEAN /\ dispose' \in {"no", "waiting", "released", "done"}
  BY CommunicationsChangeType DEF ConnectionLost, TypeOK, TransportTypeOK
<1>3. WireTypeOK'
  BY <1>1, <1>2 DEF TypeOK, TransportTypeOK, WireTypeOK
<1>4. ClientTypeOK'
  BY ErroredType DEF ConnectionLost, clientVars, TypeOK, ClientTypeOK
<1>5. QED
  BY <1>3, <1>4 DEF ConnectionLost, serverVars, TypeOK, ServerTypeOK

LEMMA ConnectionOpensType ==
    ASSUME TypeOK, NEW s \in Sockets, ConnectionOpens(s)
    PROVE  WireTypeOK' /\ ClientTypeOK' /\ ServerTypeOK'
<1>1. \A q \in Seq(UpMsg) : q \o queued \o <<>> \in Seq(UpMsg)
  BY DEF TypeOK, TransportTypeOK
<1>2. WireTypeOK'
  <2>1. up' \in [Sockets -> Seq(UpMsg)]
    BY <1>1 DEF ConnectionOpens, OnWsOpen, TypeOK, TransportTypeOK
  <2>2. server' \in [Sockets -> {"none", "open", "closed"}]
    BY DEF ConnectionOpens, OnWsOpen, TypeOK, TransportTypeOK
  <2>3. queued' \in Seq(UpMsg)
    BY DEF ConnectionOpens, OnWsOpen
  <2>4. QED
    BY <2>1, <2>2, <2>3 DEF ConnectionOpens, OnWsOpen, TypeOK, TransportTypeOK, WireTypeOK
<1>3. QED
  BY <1>2 DEF ConnectionOpens, clientVars, serverVars, TypeOK, ClientTypeOK, ServerTypeOK

LEMMA ServerReceivesType ==
    ASSUME TypeOK, NEW s \in Sockets, ServerReceives(s)
    PROVE  WireTypeOK' /\ ClientTypeOK' /\ ServerTypeOK'
<1> DEFINE m == Head(up[s])
<1>1. m \in UpMsg /\ up' \in [Sockets -> Seq(UpMsg)]
  BY DEF ServerReceives, ServerTakeMessage, TypeOK, TransportTypeOK
<1>2. m.id \in Calls /\ (m.type = "channelSend" => m.packet \in Packets)
  BY <1>1 DEF UpMsg, CallMsg, PacketMsg
<1>3. s \in 0..MaxSockets
  BY TransportAssumption DEF Sockets
<1> HIDE DEF m
<1>4. ServerTypeOK'
  <2>1. CASE ReceivedRpcCall(s, m)
    BY <1>2, <1>3, <2>1 DEF ReceivedRpcCall, TypeOK, ServerTypeOK
  <2>2. CASE ReceivedChannelCreate(s, m)
    BY <1>2, <1>3, <2>2 DEF ReceivedChannelCreate, TypeOK, ServerTypeOK, ChannelStatus
  <2>3. CASE ServerReceivedChannelSend(s, m)
    <3>1. \A c \in Calls : Append(serverReceived[c], m.packet) \in Seq(Packets)
      BY <1>2, <2>3 DEF ServerReceivedChannelSend, TypeOK, ServerTypeOK
    <3>2. QED
      BY <1>2, <2>3, <3>1 DEF ServerReceivedChannelSend, TypeOK, ServerTypeOK
  <2>4. QED
    BY <2>1, <2>2, <2>3 DEF ServerReceives, m
<1>5. QED
  BY <1>1, <1>4 DEF ServerReceives, ServerTakeMessage, connectionVars, clientVars, TypeOK,
     ClientTypeOK, TransportTypeOK, WireTypeOK

LEMMA ServerConnectionLostType ==
    ASSUME TypeOK, NEW s \in Sockets, ServerConnectionLost(s)
    PROVE  WireTypeOK' /\ ClientTypeOK' /\ ServerTypeOK'
<1>1. WireTypeOK'
  BY DEF ServerConnectionLost, ServerSocketCloses, connectionVars, TypeOK, TransportTypeOK,
     WireTypeOK
<1>2. \A c \in Calls : Append(serverEvents[c], "error") \in Seq({"error", "close"})
  BY DEF TypeOK, ServerTypeOK
<1>3. ServerTypeOK'
  BY <1>2 DEF ServerConnectionLost, TypeOK, ServerTypeOK, ChannelStatus
<1>4. QED
  BY <1>1, <1>3 DEF ServerConnectionLost, clientVars, TypeOK, ClientTypeOK

LEMMA HandlerStepType ==
    ASSUME TypeOK, HandlerStep
    PROVE  WireTypeOK' /\ ClientTypeOK' /\ ServerTypeOK'
<1>1. PICK c \in Calls : \/ RpcHandlerSettles(c) \/ ServerChannelSend(c)
                         \/ ChannelHandlerReturns(c) \/ ChannelHandlerThrows(c)
  BY DEF HandlerStep
<1>2. /\ server' = server /\ queued' = queued /\ up' = up
      /\ dispose' = dispose /\ shouldRef' = shouldRef /\ UNCHANGED clientVars
  BY <1>1 DEF RpcHandlerSettles, ServerChannelSend, ChannelHandlerReturns,
     ChannelHandlerThrows, connectionVars
<1>3. \A e \in {"error", "close"} : Append(serverEvents[c], e) \in Seq({"error", "close"})
  BY DEF TypeOK, ServerTypeOK
<1>4. down' \in [Sockets -> Seq(DownMsg)] /\ ServerTypeOK'
  <2>1. CASE RpcHandlerSettles(c)
    <3>1. PICK type \in {"rpcResult", "rpcError", "rpcInvalidResult"} :
            /\ handler' = [handler EXCEPT ![c] = IF type = "rpcError" THEN "threw"
                                                 ELSE "returned"]
            /\ down' = Answered(home[c], <<[type |-> type, id |-> c]>>)
      BY <2>1 DEF RpcHandlerSettles
    <3>2. [type |-> type, id |-> c] \in DownMsg
      BY DEF DownMsg, EndMsg
    <3>3. down' \in [Sockets -> Seq(DownMsg)]
      BY <3>1, <3>2, AnsweredType DEF TypeOK
    <3>4. QED
      BY <2>1, <3>1, <3>3 DEF RpcHandlerSettles, TypeOK, ServerTypeOK
  <2>2. CASE ServerChannelSend(c)
    <3>1. serverSent[c] \in Packets /\ serverSent[c] + 1 \in 0..MaxSends
      BY <2>2, PortCallsAssumption DEF ServerChannelSend, TypeOK, ServerTypeOK, Packets
    <3>2. [type |-> "channelSend", id |-> c, packet |-> serverSent[c]] \in DownMsg
      BY <3>1 DEF DownMsg, PacketMsg
    <3>3. down' \in [Sockets -> Seq(DownMsg)]
      BY <2>2, <3>2, AnsweredType DEF ServerChannelSend, TypeOK
    <3>4. QED
      BY <2>2, <3>1, <3>3 DEF ServerChannelSend, TypeOK, ServerTypeOK
  <2>3. CASE ChannelHandlerReturns(c)
    <3>1. [type |-> "channelClose", id |-> c] \in DownMsg
      BY DEF DownMsg, EndMsg
    <3>2. down' \in [Sockets -> Seq(DownMsg)]
      BY <2>3, <3>1, AnsweredType DEF ChannelHandlerReturns, TypeOK
    <3>3. QED
      BY <1>3, <2>3, <3>2 DEF ChannelHandlerReturns, TypeOK, ServerTypeOK, ChannelStatus
  <2>4. CASE ChannelHandlerThrows(c)
    <3>1. [type |-> "channelError", id |-> c] \in DownMsg
      BY DEF DownMsg, EndMsg
    <3>2. down' \in [Sockets -> Seq(DownMsg)]
      BY <2>4, <3>1, AnsweredType DEF ChannelHandlerThrows, TypeOK
    <3>3. QED
      BY <1>3, <2>4, <3>2 DEF ChannelHandlerThrows, TypeOK, ServerTypeOK, ChannelStatus
  <2>5. QED
    BY <1>1, <2>1, <2>2, <2>3, <2>4
<1>5. QED
  BY <1>2, <1>4 DEF clientVars, TypeOK, TransportTypeOK, WireTypeOK, ClientTypeOK

LEMMA NextKeepsTypes ==
    ASSUME TypeOK, [Next]_vars
    PROVE  WireTypeOK' /\ ClientTypeOK' /\ ServerTypeOK'
<1>1. CASE UNCHANGED vars
  BY <1>1 DEF vars, transportVars, connectionVars, clientVars, serverVars, TypeOK,
     TransportTypeOK, WireTypeOK, ClientTypeOK, ServerTypeOK
<1>2. CASE ClientCallStep
  <2>1. CASE EnsureConnectedOrStartConnection /\ UNCHANGED <<clientVars, serverVars>>
    BY <2>1 DEF EnsureConnectedOrStartConnection, clientVars, serverVars, TypeOK,
       TransportTypeOK, WireTypeOK, ClientTypeOK, ServerTypeOK
  <2>2. QED
    BY <1>2, <2>1, CallRpcType, CreateChannelType, ChannelSendType DEF ClientCallStep
<1>3. CASE StartDispose
  BY <1>3 DEF StartDispose, DisposeWaits, connectionVars, clientVars, serverVars, TypeOK,
     TransportTypeOK, WireTypeOK, ClientTypeOK, ServerTypeOK
<1>4. CASE FinishDispose
  <2>1. ClientTypeOK'
    BY <1>4, ErroredType DEF FinishDispose
  <2>2. QED
    BY <1>4, <2>1 DEF FinishDispose, DisposeCloses, serverVars, TypeOK, TransportTypeOK,
       WireTypeOK, ServerTypeOK
<1>5. CASE NetworkStep
  <2>1. CASE UrlSettles /\ UNCHANGED <<clientVars, serverVars>>
    BY <2>1 DEF UrlSettles, clientVars, serverVars, TypeOK, TransportTypeOK, WireTypeOK,
       ClientTypeOK, ServerTypeOK
  <2>2. ASSUME NEW s \in Sockets, ClientReceives(s)
        PROVE  WireTypeOK' /\ ClientTypeOK' /\ ServerTypeOK'
    BY <2>2, ClientReceivesType, TransportTypeParts DEF ClientReceives, serverVars, TypeOK,
       TransportTypeOK, WireTypeOK, ServerTypeOK
  <2>3. QED
    BY <1>5, <2>1, <2>2, ConnectionOpensType, ConnectionLostType, ServerReceivesType,
       ServerConnectionLostType DEF NetworkStep
<1>6. CASE HandlerStep
  BY <1>6, HandlerStepType
<1>7. QED
  BY <1>1, <1>2, <1>3, <1>4, <1>5, <1>6 DEF Next, DisposeStep

(* Every variable keeps its type, and every message on a wire is one that  *)
(* its receiver knows (the message schemas of Transport.ts).               *)
THEOREM TypeOKHolds == Spec => []TypeOK
<1>1. Init => TypeOK /\ ConnectionInv
  <2>1. Init => TypeOK
    <3>0. MaxSockets \in Nat /\ MaxCalls \in Nat /\ MaxSends \in Nat
      BY TransportAssumption, PortCallsAssumption
    <3>1. Init => TransportTypeOK(UpMsg, DownMsg)
      <4>1. <<>> \in Seq(UpMsg) /\ <<>> \in Seq(DownMsg)
        OBVIOUS
      <4>2. Init => up \in [Sockets -> Seq(UpMsg)] /\ down \in [Sockets -> Seq(DownMsg)]
        BY <4>1 DEF Init, TransportInit
      <4>3. Init => queued \in Seq(UpMsg)
        BY <4>1 DEF Init, TransportInit
      <4>4. Init => /\ client \in [Sockets -> {"none", "opening", "open", "closing", "failed", "closed"}]
                    /\ server \in [Sockets -> {"none", "open", "closed"}]
        BY DEF Init, TransportInit
      <4>5. Init => ws \in 0..MaxSockets /\ created \in 0..MaxSockets
        BY <3>0 DEF Init, TransportInit
      <4>6. Init => /\ status \in {"Disconnected", "Connecting", "Connected"}
                    /\ url \in {"idle", "awaited", "settled"}
                    /\ dispose \in {"no", "waiting", "released", "done"}
                    /\ shouldRef \in BOOLEAN
        BY DEF Init, TransportInit
      <4>7. QED
        BY <4>2, <4>3, <4>4, <4>5, <4>6 DEF TransportTypeOK
    <3>2. Init => ClientTypeOK
      BY <3>0 DEF Init, ClientTypeOK, ChannelStatus
    <3>3. Init => ServerTypeOK
      BY <3>0 DEF Init, ServerTypeOK, ChannelStatus
    <3>4. QED
      BY <3>1, <3>2, <3>3 DEF TypeOK
  <2>2. Init => ConnectionInv
    BY DEF Init, TransportInit, ConnectionInv, SingleConnection, Live, disposed
  <2>3. QED
    BY <2>1, <2>2
<1>2. TypeOK /\ ConnectionInv /\ [Next]_vars => TypeOK' /\ ConnectionInv'
  BY TransportTypeParts, NextKeepsConnection, NextKeepsTypes DEF TypeOK, TransportTypeOK,
     ConnectionTypeOK, WireTypeOK
<1>3. QED
  BY <1>1, <1>2, PTL DEF Spec

-----------------------------------------------------------------------------
(* The count of open communications.                                       *)

PendingRpcs == {c \in Calls : promise[c] = "pending"}
ConnectedChannels == {c \in Calls : channel[c] = "Connected"}

(* The registries of the port hold the calls that wait, each in one of     *)
(* them, and numbers not yet given are free.                               *)
RegistriesAgree ==
    /\ ongoingRpcs = PendingRpcs
    /\ openChannels = ConnectedChannels
    /\ \A c \in Calls : promise[c] = "none" \/ channel[c] = "none"
    /\ \A c \in Calls : c >= nextChannelId => promise[c] = "none" /\ channel[c] = "none"

CountInv ==
    /\ openCommunicationsCount = Cardinality(ongoingRpcs) + Cardinality(openChannels)
    /\ shouldRef <=> openCommunicationsCount > 0

-----------------------------------------------------------------------------
(* The registries.                                                         *)

LEMMA IdleRegistries ==
    ASSUME RegistriesAgree,
           UNCHANGED <<nextChannelId, ongoingRpcs, openChannels, promise, channel>>
    PROVE  RegistriesAgree'
  BY DEF RegistriesAgree, PendingRpcs, ConnectedChannels

LEMMA CallRpcRegistries ==
    ASSUME TypeOK, RegistriesAgree, CallRpc
    PROVE  RegistriesAgree'
<1>1. nextChannelId \in Calls /\ nextChannelId' = nextChannelId + 1
  BY PortCallsAssumption DEF CallRpc, TypeOK, ClientTypeOK, Calls
<1>2. promise \in [Calls -> {"none", "pending", "resolved", "rejected"}] /\ channel' = channel
  BY DEF CallRpc, TypeOK, ClientTypeOK
<1>3. \A c \in Calls : c >= nextChannelId' => c >= nextChannelId /\ c # nextChannelId
  BY <1>1, PortCallsAssumption DEF Calls
<1>4. ongoingRpcs' = PendingRpcs'
  <2>1. nextChannelId \notin ongoingRpcs
    BY <1>1, PortCallsAssumption DEF RegistriesAgree, PendingRpcs, Calls
  <2>2. \/ /\ ongoingRpcs' = ongoingRpcs \cup {nextChannelId}
           /\ promise' = [promise EXCEPT ![nextChannelId] = "pending"]
        \/ /\ ongoingRpcs' = ongoingRpcs
           /\ promise' = [promise EXCEPT ![nextChannelId] = "rejected"]
    BY DEF CallRpc
  <2>3. QED
    BY <1>1, <1>2, <2>1, <2>2 DEF RegistriesAgree, PendingRpcs
<1>5. openChannels' = ConnectedChannels'
  BY <1>2 DEF CallRpc, RegistriesAgree, ConnectedChannels
<1>6. nextChannelId >= nextChannelId
  BY <1>1, PortCallsAssumption DEF Calls
<1>7. QED
  BY <1>1, <1>2, <1>3, <1>4, <1>5, <1>6 DEF CallRpc, RegistriesAgree

LEMMA CreateChannelRegistries ==
    ASSUME TypeOK, RegistriesAgree, CreateChannel
    PROVE  RegistriesAgree'
<1>1. nextChannelId \in Calls /\ nextChannelId' = nextChannelId + 1
  BY PortCallsAssumption DEF CreateChannel, TypeOK, ClientTypeOK, Calls
<1>2. channel \in [Calls -> ChannelStatus] /\ promise' = promise
  BY DEF CreateChannel, TypeOK, ClientTypeOK
<1>3. \A c \in Calls : c >= nextChannelId' => c >= nextChannelId /\ c # nextChannelId
  BY <1>1, PortCallsAssumption DEF Calls
<1>4. ongoingRpcs' = PendingRpcs'
  BY <1>2 DEF CreateChannel, RegistriesAgree, PendingRpcs
<1>5. openChannels' = ConnectedChannels'
  BY <1>1, <1>2 DEF CreateChannel, RegistriesAgree, ConnectedChannels
<1>6. nextChannelId >= nextChannelId
  BY <1>1, PortCallsAssumption DEF Calls
<1>7. QED
  BY <1>1, <1>2, <1>3, <1>4, <1>5, <1>6 DEF CreateChannel, RegistriesAgree

(* Every call that waits is told of a loss. *)
LEMMA ErroredRegistries ==
    ASSUME TypeOK, RegistriesAgree, Errored
    PROVE  RegistriesAgree'
<1>1. /\ promise' = [c \in Calls |-> IF promise[c] = "pending" THEN "rejected" ELSE promise[c]]
      /\ channel' = [c \in Calls |-> IF channel[c] = "Connected" THEN "Errored" ELSE channel[c]]
      /\ ongoingRpcs' = {} /\ openChannels' = {} /\ nextChannelId' = nextChannelId
  BY DEF Errored, RegistriesAgree, PendingRpcs, ConnectedChannels
<1>2. QED
  BY <1>1 DEF RegistriesAgree, PendingRpcs, ConnectedChannels

LEMMA RpcResultRegistries ==
    ASSUME TypeOK, RegistriesAgree, NEW m, ReceivedRpcResult(m)
    PROVE  RegistriesAgree'
<1>1. /\ m.id \in Calls /\ promise[m.id] = "pending" /\ channel' = channel
      /\ promise \in [Calls -> {"none", "pending", "resolved", "rejected"}]
  BY DEF ReceivedRpcResult, RegistriesAgree, PendingRpcs, TypeOK, ClientTypeOK
<1>2. QED
  BY <1>1 DEF ReceivedRpcResult, RegistriesAgree, PendingRpcs, ConnectedChannels

LEMMA ChannelEndRegistries ==
    ASSUME TypeOK, RegistriesAgree, NEW m, ReceivedChannelEnd(m)
    PROVE  RegistriesAgree'
<1>1. /\ m.id \in Calls /\ channel[m.id] = "Connected" /\ promise' = promise
      /\ channel \in [Calls -> ChannelStatus]
  BY DEF ReceivedChannelEnd, RegistriesAgree, ConnectedChannels, TypeOK, ClientTypeOK
<1>2. \E end \in {"Closed", "Errored"} : channel' = [channel EXCEPT ![m.id] = end]
  BY <1>1 DEF ReceivedChannelEnd
<1>3. QED
  BY <1>1, <1>2 DEF ReceivedChannelEnd, RegistriesAgree, PendingRpcs, ConnectedChannels

-----------------------------------------------------------------------------
(* The count.                                                              *)

LEMMA RegistriesFinite ==
    ASSUME NEW S, S \subseteq Calls
    PROVE  IsFiniteSet(S) /\ Cardinality(S) \in Nat
<1>1. IsFiniteSet(Calls)
  BY PortCallsAssumption, FS_Interval DEF Calls
<1>2. QED
  BY <1>1, FS_Subset, FS_CardinalityType

(* updateOpenCommunicationsCount tells the transport of the first call and *)
(* of the last one: enough as long as calls come one at a time.            *)
LEMMA CountedOneByOne ==
    ASSUME TypeOK, CountInv, UpdateOpenCommunicationsCount, openCommunicationsCount' \in Nat,
           openCommunicationsCount' <= openCommunicationsCount + 1
    PROVE  CountInv'
<1>1. openCommunicationsCount \in Nat /\ shouldRef \in BOOLEAN
  BY DEF TypeOK, ClientTypeOK, TransportTypeOK
<1>2. shouldRef' <=> openCommunicationsCount' > 0
  BY <1>1 DEF CountInv, UpdateOpenCommunicationsCount, CommunicationsChange
<1>3. QED
  BY <1>2 DEF CountInv, UpdateOpenCommunicationsCount

LEMMA IdleCount ==
    ASSUME CountInv, UNCHANGED <<ongoingRpcs, openChannels, openCommunicationsCount, shouldRef>>
    PROVE  CountInv'
  BY DEF CountInv

LEMMA OneMoreCount ==
    ASSUME TypeOK, CountInv, UpdateOpenCommunicationsCount, NEW c \in Calls,
           \/ ongoingRpcs' = ongoingRpcs \cup {c} /\ openChannels' = openChannels
           \/ openChannels' = openChannels \cup {c} /\ ongoingRpcs' = ongoingRpcs
           \/ openChannels' = openChannels /\ ongoingRpcs' = ongoingRpcs
    PROVE  CountInv'
<1>1. ongoingRpcs \subseteq Calls /\ openChannels \subseteq Calls
  BY DEF TypeOK, ClientTypeOK
<1>2. /\ IsFiniteSet(ongoingRpcs) /\ Cardinality(ongoingRpcs) \in Nat
      /\ IsFiniteSet(openChannels) /\ Cardinality(openChannels) \in Nat
  BY <1>1, RegistriesFinite
<1>3. /\ Cardinality(ongoingRpcs \cup {c}) \in {Cardinality(ongoingRpcs), Cardinality(ongoingRpcs) + 1}
      /\ Cardinality(openChannels \cup {c}) \in {Cardinality(openChannels), Cardinality(openChannels) + 1}
  BY <1>2, FS_AddElement
<1>4. /\ openCommunicationsCount' = Cardinality(ongoingRpcs') + Cardinality(openChannels')
      /\ openCommunicationsCount = Cardinality(ongoingRpcs) + Cardinality(openChannels)
  BY DEF CountInv, UpdateOpenCommunicationsCount
<1>5. /\ openCommunicationsCount' \in Nat
      /\ openCommunicationsCount' <= openCommunicationsCount + 1
  <2>1. CASE ongoingRpcs' = ongoingRpcs \cup {c} /\ openChannels' = openChannels
    BY <1>2, <1>3, <1>4, <2>1
  <2>2. CASE openChannels' = openChannels \cup {c} /\ ongoingRpcs' = ongoingRpcs
    BY <1>2, <1>3, <1>4, <2>2
  <2>3. CASE openChannels' = openChannels /\ ongoingRpcs' = ongoingRpcs
    BY <1>2, <1>4, <2>3
  <2>4. QED
    BY <2>1, <2>2, <2>3
<1>6. QED
  BY <1>5, CountedOneByOne

LEMMA OneLessCount ==
    ASSUME TypeOK, CountInv, UpdateOpenCommunicationsCount, NEW c,
           \/ ongoingRpcs' = ongoingRpcs \ {c} /\ openChannels' = openChannels
           \/ openChannels' = openChannels \ {c} /\ ongoingRpcs' = ongoingRpcs
    PROVE  CountInv'
<1>1. ongoingRpcs \subseteq Calls /\ openChannels \subseteq Calls
  BY DEF TypeOK, ClientTypeOK
<1>2. /\ IsFiniteSet(ongoingRpcs) /\ Cardinality(ongoingRpcs) \in Nat
      /\ IsFiniteSet(openChannels) /\ Cardinality(openChannels) \in Nat
      /\ Cardinality(ongoingRpcs \ {c}) \in Nat /\ Cardinality(openChannels \ {c}) \in Nat
  BY <1>1, RegistriesFinite
<1>3. /\ Cardinality(ongoingRpcs \ {c}) <= Cardinality(ongoingRpcs)
      /\ Cardinality(openChannels \ {c}) <= Cardinality(openChannels)
  BY <1>2, FS_Subset
<1>4. /\ openCommunicationsCount' \in Nat
      /\ openCommunicationsCount' <= openCommunicationsCount + 1
  BY <1>2, <1>3 DEF CountInv, UpdateOpenCommunicationsCount
<1>5. QED
  BY <1>4, CountedOneByOne

LEMMA ErroredCount ==
    ASSUME TypeOK, CountInv, Errored,
           \/ CommunicationsChange(openCommunicationsCount, 0)
           \/ shouldRef' = (IF openCommunicationsCount > 0 THEN FALSE ELSE shouldRef)
    PROVE  CountInv'
<1>1. openCommunicationsCount \in Nat /\ shouldRef \in BOOLEAN
  BY DEF TypeOK, ClientTypeOK, TransportTypeOK
<1>2. ~ shouldRef'
  <2>1. CASE openCommunicationsCount > 0
    BY <1>1, <2>1 DEF CommunicationsChange
  <2>2. CASE openCommunicationsCount = 0
    <3>1. ~ shouldRef
      BY <2>2 DEF CountInv
    <3>2. QED
      BY <2>2, <3>1 DEF CommunicationsChange
  <2>3. QED
    BY <1>1, <2>1, <2>2
<1>3. Cardinality(ongoingRpcs') = 0 /\ Cardinality(openChannels') = 0
  BY FS_EmptySet DEF Errored
<1>4. QED
  BY <1>2, <1>3 DEF CountInv, Errored

-----------------------------------------------------------------------------
LEMMA NextKeepsCount ==
    ASSUME TypeOK, RegistriesAgree, CountInv, [Next]_vars
    PROVE  RegistriesAgree' /\ CountInv'
<1>1. CASE UNCHANGED <<clientVars, shouldRef>>
  BY <1>1, IdleRegistries, IdleCount DEF clientVars
<1>2. CASE ClientCallStep
  <2>1. CASE CallRpc
    <3>1. nextChannelId \in Calls
      BY <2>1, PortCallsAssumption DEF CallRpc, TypeOK, ClientTypeOK, Calls
    <3>2. QED
      BY <2>1, <3>1, CallRpcRegistries, OneMoreCount DEF CallRpc
  <2>2. CASE CreateChannel
    <3>1. nextChannelId \in Calls
      BY <2>2, PortCallsAssumption DEF CreateChannel, TypeOK, ClientTypeOK, Calls
    <3>2. CASE UpdateOpenCommunicationsCount
      BY <2>2, <3>1, <3>2, CreateChannelRegistries, OneMoreCount DEF CreateChannel
    <3>3. CASE UNCHANGED <<ongoingRpcs, openChannels, openCommunicationsCount, shouldRef>>
      BY <2>2, <3>3, CreateChannelRegistries, IdleCount
    <3>4. QED
      BY <2>2, <3>2, <3>3 DEF CreateChannel
  <2>3. ASSUME NEW c \in Calls, ChannelSend(c) PROVE RegistriesAgree' /\ CountInv'
    BY <2>3, IdleRegistries, IdleCount DEF ChannelSend
  <2>4. CASE EnsureConnectedOrStartConnection /\ UNCHANGED <<clientVars, serverVars>>
    BY <1>1, <2>4 DEF EnsureConnectedOrStartConnection
  <2>5. QED
    BY <1>2, <2>1, <2>2, <2>3, <2>4 DEF ClientCallStep
<1>3. CASE StartDispose
  BY <1>1, <1>3 DEF StartDispose, DisposeWaits
<1>4. CASE FinishDispose
  BY <1>4, ErroredRegistries, ErroredCount DEF FinishDispose
<1>5. CASE NetworkStep
  <2>1. CASE UrlSettles /\ UNCHANGED <<clientVars, serverVars>>
    BY <1>1, <2>1 DEF UrlSettles
  <2>2. ASSUME NEW s \in Sockets, ConnectionOpens(s) PROVE RegistriesAgree' /\ CountInv'
    BY <1>1, <2>2 DEF ConnectionOpens
  <2>3. ASSUME NEW s \in Sockets, ConnectionLost(s) PROVE RegistriesAgree' /\ CountInv'
    <3>1. CASE ReportsError
      BY <2>3, <3>1, ErroredRegistries, ErroredCount DEF ConnectionLost
    <3>2. CASE ~ ReportsError
      BY <1>1, <2>3, <3>2 DEF ConnectionLost
    <3>3. QED
      BY <3>1, <3>2
  <2>4. ASSUME NEW s \in Sockets, ClientReceives(s) PROVE RegistriesAgree' /\ CountInv'
    <3> DEFINE m == Head(down[s])
    <3>1. CASE ReceivedRpcResult(m)
      BY <3>1, RpcResultRegistries, OneLessCount DEF ReceivedRpcResult
    <3>2. CASE ReceivedChannelSend(m)
      BY <3>2, IdleRegistries, IdleCount DEF ReceivedChannelSend
    <3>3. CASE ReceivedChannelEnd(m)
      BY <3>3, ChannelEndRegistries, OneLessCount DEF ReceivedChannelEnd
    <3>4. QED
      BY <1>1, <2>4, <3>1, <3>2, <3>3 DEF ClientReceives
  <2>5. ASSUME NEW s \in Sockets, ServerReceives(s) \/ ServerConnectionLost(s)
        PROVE  RegistriesAgree' /\ CountInv'
    BY <1>1, <2>5 DEF ServerReceives, ServerTakeMessage, ServerConnectionLost,
       ServerSocketCloses
  <2>6. QED
    BY <1>5, <2>1, <2>2, <2>3, <2>4, <2>5 DEF NetworkStep
<1>6. CASE HandlerStep
  BY <1>1, <1>6 DEF HandlerStep, RpcHandlerSettles, ServerChannelSend, ChannelHandlerReturns,
     ChannelHandlerThrows
<1>7. CASE UNCHANGED vars
  BY <1>1, <1>7 DEF vars, transportVars
<1>8. QED
  BY <1>2, <1>3, <1>4, <1>5, <1>6, <1>7 DEF Next, DisposeStep

LEMMA CountOfRegistries ==
    ASSUME TypeOK, RegistriesAgree, CountInv
    PROVE  CountAgrees
<1>1. ongoingRpcs \subseteq Calls /\ openChannels \subseteq Calls
  BY DEF TypeOK, ClientTypeOK
<1>2. /\ IsFiniteSet(ongoingRpcs) /\ Cardinality(ongoingRpcs) \in Nat
      /\ IsFiniteSet(openChannels) /\ Cardinality(openChannels) \in Nat
  BY <1>1, RegistriesFinite
<1>3. ongoingRpcs \cap openChannels = {}
  BY DEF RegistriesAgree, PendingRpcs, ConnectedChannels
<1>4. Cardinality(ongoingRpcs \cup openChannels)
        = Cardinality(ongoingRpcs) + Cardinality(openChannels)
  <2>1. Cardinality(ongoingRpcs \cap openChannels) = 0
    BY <1>3, FS_EmptySet
  <2>2. Cardinality(ongoingRpcs \cup openChannels)
          = Cardinality(ongoingRpcs) + Cardinality(openChannels)
              - Cardinality(ongoingRpcs \cap openChannels)
    BY <1>2, FS_Union
  <2>3. QED
    BY <1>2, <2>1, <2>2
<1>5. ongoingRpcs \cup openChannels
        = {c \in Calls : promise[c] = "pending" \/ channel[c] = "Connected"}
  BY DEF RegistriesAgree, PendingRpcs, ConnectedChannels
<1>6. QED
  BY <1>4, <1>5 DEF CountInv, CountAgrees

(* The count of open communications is that of the calls that wait, over   *)
(* every interleaving of calls, answers, losses and disposals, and the     *)
(* transport is told of the first and of the last of them                  *)
(* (ClientPort.updateOpenCommunicationsCount).                             *)
THEOREM CountAgreesHolds == Spec => []CountAgrees
<1>1. Init => RegistriesAgree /\ CountInv
  <2>1. Cardinality({}) = 0
    BY FS_EmptySet
  <2>2. QED
    BY <2>1 DEF Init, TransportInit, RegistriesAgree, PendingRpcs, ConnectedChannels, CountInv
<1>2. TypeOK /\ RegistriesAgree /\ CountInv /\ [Next]_vars => RegistriesAgree' /\ CountInv'
  BY NextKeepsCount
<1>3. TypeOK /\ RegistriesAgree /\ CountInv => CountAgrees
  BY CountOfRegistries
<1>4. QED
  BY <1>1, <1>2, <1>3, TypeOKHolds, PTL DEF Spec

-----------------------------------------------------------------------------
(* The contract of a call, and the order of its packets.                   *)

IsCall(m) == m.type \in {"rpcCall", "channelCreate"}
IsPacket(m, c) == m.type = "channelSend" /\ m.id = c

(* The server knows of a call from the one socket it came on. *)
HandlerAgrees(c) ==
    /\ handler[c] = "none" =>
         /\ home[c] = 0 /\ serverChannel[c] = "none"
         /\ serverSent[c] = 0 /\ serverReceived[c] = <<>>
    /\ handler[c] # "none" =>
         /\ c < nextChannelId
         /\ home[c] \in Sockets /\ server[home[c]] # "none"
         /\ handler[c] = "running" /\ serverChannel[c] = "Connected" => server[home[c]] = "open"

HandlersAgree == \A c \in Calls : HandlerAgrees(c)

(* A call is on its way at most once, and only until its handler starts.   *)
CallsOnce ==
    /\ \A l \in Places : \A i \in 1..Len(Wire[l]) :
         IsCall(Wire[l][i]) => Wire[l][i].id < nextChannelId /\ handler[Wire[l][i].id] = "none"
    /\ \A l1, l2 \in Places : \A i1 \in 1..Len(Wire[l1]), i2 \in 1..Len(Wire[l2]) :
         IsCall(Wire[l1][i1]) /\ IsCall(Wire[l2][i2]) /\ Wire[l1][i1].id = Wire[l2][i2].id
           => l1 = l2 /\ i1 = i2

(* Success is only reported of a handler that returned. *)
ResultsAgree ==
    \A s \in Sockets : \A i \in 1..Len(down[s]) :
        down[s][i].type \in {"rpcResult", "channelClose"} => handler[down[s][i].id] = "returned"

(* The server takes what c sends over l. *)
Listening(c, l) ==
    home[c] = l /\ handler[c] = "running" /\ serverChannel[c] = "Connected"

-----------------------------------------------------------------------------
(* The wires.                                                              *)

LEMMA WireType ==
    ASSUME TypeOK
    PROVE  /\ Wire \in [Places -> Seq(UpMsg)]
           /\ Sockets \subseteq Places /\ 0 \in Places /\ 0 \notin Sockets
           /\ Places = {0} \cup Sockets
           /\ ws \in Places /\ Current \in Places
  BY WiresType DEF TypeOK

LEMMA NextKeepsWires ==
    ASSUME TypeOK, ConnectionInv, WiresFollowSockets, [Next]_vars
    PROVE  WiresFollowSockets'
  BY NextIsTransportStep, StepKeepsWires, TransportTypeParts DEF TypeOK

-----------------------------------------------------------------------------
(* What a step does to the messages on their way to the server.            *)

LEMMA SendWire ==
    ASSUME TypeOK, ConnectionInv, NEW msg \in UpMsg, Transmit(msg) \/ TransmitThrows(msg)
    PROVE  /\ Current' = Current
           /\ \A l \in Places : \/ Wire'[l] = Wire[l]
                                \/ l = Current /\ Wire'[l] = Append(Wire[l], msg)
           /\ \/ Wire'[Current] = Append(Wire[Current], msg)
              \/ Current \in Sockets /\ server[Current] # "open"
  BY SendWires DEF TypeOK

LEMMA FlushWire ==
    ASSUME TypeOK, ConnectionInv, WiresFollowSockets, NEW s \in Sockets, ConnectionOpens(s)
    PROVE  /\ s \in Places /\ s # 0 /\ Current = 0 /\ Current' = s
           /\ Wire[s] = <<>> /\ Wire'[s] = Wire[0] /\ Wire'[0] = <<>>
           /\ \A l \in Places \ {0, s} : Wire'[l] = Wire[l]
<1>1. OnWsOpen(s, <<>>)
  BY DEF ConnectionOpens
<1>2. <<>> \in Seq(UpMsg) /\ Wire[0] \o <<>> = Wire[0]
  BY WireType
<1>3. TransportTypeOK(UpMsg, DownMsg)
  BY DEF TypeOK
<1>4. /\ s \in Places /\ s # 0 /\ s = ws /\ Current = 0 /\ Current' = s
      /\ Wire[s] = <<>> /\ Wire'[s] = Wire[0] \o <<>> /\ Wire'[0] = <<>>
      /\ \A l \in Places \ {0, s} : Wire'[l] = Wire[l]
  BY <1>1, <1>2, <1>3, OpenWires
<1>5. QED
  BY <1>2, <1>4

LEMMA TakeWire ==
    ASSUME TypeOK, NEW s \in Sockets, ServerReceives(s)
    PROVE  /\ s \in Places /\ Wire[s] # <<>> /\ Wire'[s] = Tail(Wire[s])
           /\ Head(up[s]) = Wire[s][1] /\ 1 \in 1..Len(Wire[s]) /\ server[s] = "open"
           /\ \A l \in Places \ {s} : Wire'[l] = Wire[l]
           /\ Current' = Current
  BY TakeWires DEF ServerReceives, TypeOK

LEMMA ClearWire ==
    ASSUME TypeOK, NEW s \in Sockets, ServerConnectionLost(s)
    PROVE  /\ s \in Places /\ Wire'[s] = <<>>
           /\ \A l \in Places \ {s} : Wire'[l] = Wire[l]
           /\ Current' = Current
  BY CloseWires DEF ServerConnectionLost, TypeOK

(* Every other step leaves the wires alone. *)
OtherStep ==
    \/ EnsureConnectedOrStartConnection /\ UNCHANGED <<clientVars, serverVars>>
    \/ DisposeStep
    \/ UrlSettles /\ UNCHANGED <<clientVars, serverVars>>
    \/ \E s \in Sockets : ConnectionLost(s) \/ ClientReceives(s)
    \/ HandlerStep
    \/ UNCHANGED vars

LEMMA OtherWire ==
    ASSUME OtherStep
    PROVE  Wire' = Wire
<1>1. UNCHANGED <<queued, up>>
  BY DEF OtherStep, EnsureConnectedOrStartConnection, DisposeStep, StartDispose, DisposeWaits,
     FinishDispose, DisposeCloses, UrlSettles, ConnectionLost, SocketErrors, SocketCloses,
     OnWsError, ClientReceives, TakeMessage, HandlerStep, RpcHandlerSettles, ServerChannelSend,
     ChannelHandlerReturns, ChannelHandlerThrows, vars, transportVars, connectionVars
<1>2. QED
  BY <1>1 DEF Wire

(* The steps by what they do to the wires. *)
SendStep == CallRpc \/ CreateChannel \/ \E c \in Calls : ChannelSend(c)

LEMMA StepsByWire ==
    ASSUME [Next]_vars
    PROVE  \/ SendStep \/ OtherStep
           \/ \E s \in Sockets : ConnectionOpens(s) \/ ServerReceives(s) \/ ServerConnectionLost(s)
  BY DEF Next, ClientCallStep, NetworkStep, SendStep, OtherStep

(* The message a sending step sends. *)
LEMMA SentMessage ==
    ASSUME TypeOK, SendStep
    PROVE  \E msg \in UpMsg :
              /\ Transmit(msg) \/ TransmitThrows(msg)
              /\ UNCHANGED <<server, down, serverVars, received>>
              /\ \/ /\ IsCall(msg) /\ msg.id = nextChannelId /\ nextChannelId' = nextChannelId + 1
                    /\ nextChannelId \in Calls /\ sent' = sent
                 \/ /\ IsPacket(msg, msg.id) /\ msg.id \in Calls /\ channel[msg.id] # "none"
                    /\ msg.packet = sent[msg.id] /\ nextChannelId' = nextChannelId
                    /\ sent' = [sent EXCEPT ![msg.id] = @ + 1]
                    /\ openChannels' = openChannels
<1>1. CASE CallRpc \/ CreateChannel
  <2>1. nextChannelId \in Calls /\ nextChannelId' = nextChannelId + 1
    BY <1>1, PortCallsAssumption DEF CallRpc, CreateChannel, TypeOK, ClientTypeOK, Calls
  <2>2. PICK type \in {"rpcCall", "channelCreate"} :
           LET msg == [type |-> type, id |-> nextChannelId] IN Transmit(msg) \/ TransmitThrows(msg)
    BY <1>1 DEF CallRpc, CreateChannel
  <2>3. [type |-> type, id |-> nextChannelId] \in UpMsg
    BY <2>1 DEF UpMsg, CallMsg
  <2>4. UNCHANGED <<server, down, serverVars, received, sent>>
    BY <1>1 DEF CallRpc, CreateChannel
  <2>5. QED
    BY <2>1, <2>2, <2>3, <2>4 DEF IsCall
<1>2. ASSUME NEW c \in Calls, ChannelSend(c)
      PROVE  LET msg == [type |-> "channelSend", id |-> c, packet |-> sent[c]]
             IN  /\ msg \in UpMsg
                 /\ Transmit(msg) \/ TransmitThrows(msg)
                 /\ UNCHANGED <<server, down, serverVars, received>>
                 /\ channel[c] # "none" /\ nextChannelId' = nextChannelId
                 /\ sent' = [sent EXCEPT ![c] = @ + 1] /\ openChannels' = openChannels
  <2>1. sent[c] \in Packets
    BY <1>2, PortCallsAssumption DEF ChannelSend, TypeOK, ClientTypeOK, Packets
  <2>2. QED
    BY <1>2, <2>1 DEF ChannelSend, UpMsg, PacketMsg
<1>3. QED
  BY <1>1, <1>2 DEF SendStep, IsPacket

-----------------------------------------------------------------------------
(* A call reaches the server at most once.                                 *)

(* The message the server takes, and what it does to the handlers. *)
LEMMA TakenMessage ==
    ASSUME TypeOK, NEW s \in Sockets, ServerReceives(s)
    PROVE  /\ Wire[s][1] \in UpMsg /\ Wire[s][1].id \in Calls
           /\ UNCHANGED <<clientVars, server, client, down, status, ws, url, dispose, serverSent>>
           /\ \/ /\ IsCall(Wire[s][1])
                 /\ \/ UNCHANGED <<handler, home, serverChannel>>
                    \/ /\ handler' = [handler EXCEPT ![Wire[s][1].id] = "running"]
                       /\ home' = [home EXCEPT ![Wire[s][1].id] = s]
                       /\ \/ Wire[s][1].type = "rpcCall" /\ serverChannel' = serverChannel
                          \/ /\ Wire[s][1].type = "channelCreate"
                             /\ serverChannel' = [serverChannel EXCEPT ![Wire[s][1].id] = "Connected"]
                 /\ serverReceived' = serverReceived
              \/ /\ IsPacket(Wire[s][1], Wire[s][1].id)
                 /\ UNCHANGED <<handler, home, serverChannel>>
                 /\ serverReceived' =
                      IF Listening(Wire[s][1].id, s)
                      THEN [serverReceived EXCEPT ![Wire[s][1].id] = Append(@, Wire[s][1].packet)]
                      ELSE serverReceived
<1> DEFINE m == Head(up[s])
<1>1. m = Wire[s][1] /\ m \in UpMsg
  BY TakeWire, WireType
<1>2. m.id \in Calls
  BY <1>1 DEF UpMsg, CallMsg, PacketMsg
<1>3. UNCHANGED <<clientVars, server, client, down, status, ws, url, dispose>>
  BY DEF ServerReceives, ServerTakeMessage, connectionVars
<1> HIDE DEF m
<1>4. CASE ReceivedRpcCall(s, m)
  BY <1>1, <1>2, <1>3, <1>4 DEF ReceivedRpcCall, IsCall
<1>5. CASE ReceivedChannelCreate(s, m)
  BY <1>1, <1>2, <1>3, <1>5 DEF ReceivedChannelCreate, IsCall
<1>6. CASE ServerReceivedChannelSend(s, m)
  <2>1. m.id \in ServerOpenChannels(s) /\ serverChannel[m.id] = "Connected" <=> Listening(m.id, s)
    BY <1>2 DEF ServerOpenChannels, Listening
  <2>2. QED
    BY <1>1, <1>2, <1>3, <1>6, <2>1 DEF ServerReceivedChannelSend, IsPacket
<1>7. QED
  BY <1>4, <1>5, <1>6 DEF ServerReceives, m

LEMMA TakenCall ==
    ASSUME TypeOK, NEW s \in Sockets, ServerReceives(s), IsCall(Wire[s][1])
    PROVE  /\ serverReceived' = serverReceived
           /\ \/ UNCHANGED <<handler, home, serverChannel>>
              \/ /\ handler' = [handler EXCEPT ![Wire[s][1].id] = "running"]
                 /\ home' = [home EXCEPT ![Wire[s][1].id] = s]
                 /\ \/ Wire[s][1].type = "rpcCall" /\ serverChannel' = serverChannel
                    \/ /\ Wire[s][1].type = "channelCreate"
                       /\ serverChannel' = [serverChannel EXCEPT ![Wire[s][1].id] = "Connected"]
<1>1. ~IsPacket(Wire[s][1], Wire[s][1].id)
  BY DEF IsCall, IsPacket
<1>2. QED
  BY <1>1, TakenMessage

LEMMA TakenPacket ==
    ASSUME TypeOK, NEW s \in Sockets, ServerReceives(s), IsPacket(Wire[s][1], Wire[s][1].id)
    PROVE  /\ UNCHANGED <<handler, home, serverChannel>>
           /\ serverReceived' =
                IF Listening(Wire[s][1].id, s)
                THEN [serverReceived EXCEPT ![Wire[s][1].id] = Append(@, Wire[s][1].packet)]
                ELSE serverReceived
<1>1. ~IsCall(Wire[s][1])
  BY DEF IsCall, IsPacket
<1>2. QED
  BY <1>1, TakenMessage

LEMMA NextKeepsHandlers ==
    ASSUME TypeOK, ConnectionInv, WiresFollowSockets, HandlersAgree, CallsOnce, [Next]_vars
    PROVE  HandlersAgree'
<1> SUFFICES ASSUME NEW d \in Calls
             PROVE  HandlerAgrees(d)'
  BY DEF HandlersAgree
<1>0. HandlerAgrees(d)
  BY DEF HandlersAgree
<1>t. /\ nextChannelId \in Int /\ d \in Int
      /\ handler \in [Calls -> {"none", "running", "returned", "threw"}]
      /\ home \in [Calls -> Places] /\ serverChannel \in [Calls -> ChannelStatus]
      /\ serverSent \in [Calls -> 0..MaxSends] /\ serverReceived \in [Calls -> Seq(Packets)]
      /\ server \in [Sockets -> {"none", "open", "closed"}]
  BY PortCallsAssumption DEF TypeOK, TransportTypeOK, ClientTypeOK, ServerTypeOK, Places, Calls
<1>1. CASE SendStep
  <2>1. UNCHANGED <<server, serverVars>> /\ nextChannelId' \in {nextChannelId, nextChannelId + 1}
    BY <1>1, SentMessage
  <2>2. d < nextChannelId => d < nextChannelId'
    BY <1>t, <2>1
  <2>3. QED
    BY <1>0, <2>1, <2>2 DEF serverVars, HandlerAgrees
<1>2. ASSUME NEW s \in Sockets, ConnectionOpens(s) PROVE HandlerAgrees(d)'
  <2>1. UNCHANGED <<clientVars, serverVars>> /\ server' = [server EXCEPT ![s] = "open"]
    BY <1>2 DEF ConnectionOpens, OnWsOpen
  <2>2. QED
    BY <1>0, <1>t, <2>1 DEF clientVars, serverVars, HandlerAgrees
<1>3. ASSUME NEW s \in Sockets, ServerReceives(s) PROVE HandlerAgrees(d)'
  <2> DEFINE c == Wire[s][1].id
  <2>1. c \in Calls /\ UNCHANGED <<server, serverSent, nextChannelId>> /\ server[s] = "open"
    BY <1>3, TakenMessage, TakeWire DEF clientVars
  <2>2. CASE IsCall(Wire[s][1])
    <3>1. c < nextChannelId /\ handler[c] = "none"
      BY <1>3, <2>2, TakeWire DEF CallsOnce
    <3>2. /\ serverReceived' = serverReceived
          /\ \/ UNCHANGED <<handler, home, serverChannel>>
             \/ /\ handler' = [handler EXCEPT ![c] = "running"]
                /\ home' = [home EXCEPT ![c] = s]
                /\ \/ serverChannel' = serverChannel
                   \/ serverChannel' = [serverChannel EXCEPT ![c] = "Connected"]
      BY <1>3, <2>2, TakenCall
    <3> HIDE DEF c
    <3>3. QED
      BY <1>0, <1>t, <1>3, <2>1, <3>1, <3>2 DEF HandlerAgrees
  <2>3. CASE IsPacket(Wire[s][1], c)
    <3>1. /\ UNCHANGED <<handler, home, serverChannel>>
          /\ serverReceived' = IF Listening(c, s)
                               THEN [serverReceived EXCEPT ![c] = Append(@, Wire[s][1].packet)]
                               ELSE serverReceived
      BY <1>3, <2>3, TakenPacket
    <3> HIDE DEF c
    <3>2. handler[d] = "none" => serverReceived'[d] = serverReceived[d]
      BY <1>t, <2>1, <3>1 DEF Listening
    <3>3. QED
      BY <1>0, <2>1, <3>1, <3>2 DEF HandlerAgrees
  <2>4. QED
    BY <1>3, <2>2, <2>3, TakenMessage
<1>4. ASSUME NEW s \in Sockets, ServerConnectionLost(s) PROVE HandlerAgrees(d)'
  <2>1. /\ UNCHANGED <<clientVars, handler, home, serverSent, serverReceived>>
        /\ server[s] = "open" /\ server' = [server EXCEPT ![s] = "closed"]
        /\ serverChannel' = [c \in Calls |->
              IF Listening(c, s) THEN "Errored" ELSE serverChannel[c]]
    BY <1>4 DEF ServerConnectionLost, ServerSocketCloses, ServerOpenChannels, Listening
  <2>2. QED
    BY <1>0, <1>t, <2>1 DEF clientVars, Listening, HandlerAgrees
<1>5. CASE OtherStep
  <2>1. nextChannelId' = nextChannelId /\ server' = server
    BY <1>5 DEF OtherStep, EnsureConnectedOrStartConnection, DisposeStep, StartDispose, DisposeWaits,
     FinishDispose, DisposeCloses, UrlSettles, ConnectionLost, SocketErrors, SocketCloses,
     OnWsError, ClientReceives, TakeMessage, HandlerStep, RpcHandlerSettles, ServerChannelSend,
     ChannelHandlerReturns, ChannelHandlerThrows, vars, transportVars, connectionVars, clientVars,
     Errored, ReceivedRpcResult, ReceivedChannelSend, ReceivedChannelEnd
  <2>2. CASE HandlerStep
    <3>1. PICK c \in Calls : \/ RpcHandlerSettles(c) \/ ServerChannelSend(c)
                             \/ ChannelHandlerReturns(c) \/ ChannelHandlerThrows(c)
      BY <2>2 DEF HandlerStep
    <3>2. /\ handler[c] = "running" /\ UNCHANGED <<home, serverReceived>>
          /\ \/ UNCHANGED <<handler, serverChannel>> /\ serverSent' = [serverSent EXCEPT ![c] = @ + 1]
             \/ /\ serverSent' = serverSent
                /\ \E end \in {"returned", "threw"} : handler' = [handler EXCEPT ![c] = end]
                /\ \/ serverChannel' = serverChannel
                   \/ \E end \in {"Closed", "Errored"} : serverChannel' = [serverChannel EXCEPT ![c] = end]
      BY <3>1 DEF RpcHandlerSettles, ServerChannelSend, ChannelHandlerReturns, ChannelHandlerThrows
    <3>3. QED
      BY <1>0, <1>t, <2>1, <3>2 DEF HandlerAgrees
  <2>3. CASE UNCHANGED serverVars
    BY <1>0, <2>1, <2>3 DEF serverVars, HandlerAgrees
  <2>4. QED
    BY <1>5, <2>2, <2>3 DEF OtherStep, DisposeStep, StartDispose, FinishDispose, ConnectionLost,
       ClientReceives, vars
<1>6. QED
  BY <1>1, <1>2, <1>3, <1>4, <1>5, StepsByWire

(* The message at each position after a step, and where it was before. *)
LEMMA SendPoints ==
    ASSUME TypeOK, ConnectionInv, NEW msg \in UpMsg, Transmit(msg) \/ TransmitThrows(msg)
    PROVE  \A l \in Places :
             /\ Len(Wire[l]) \in Nat /\ Len(Wire'[l]) \in Nat
             /\ \A i \in 1..Len(Wire'[l]) :
                  \/ i \in 1..Len(Wire[l]) /\ Wire'[l][i] = Wire[l][i] /\ Wire[l][i] \in UpMsg
                  \/ l = Current /\ i = Len(Wire[l]) + 1 /\ Wire'[l][i] = msg
             /\ \A i \in 1..Len(Wire[l]) : i \in 1..Len(Wire'[l]) /\ Wire'[l][i] = Wire[l][i]
<1> TAKE l \in Places
<1>1. Wire[l] \in Seq(UpMsg)
  BY WireType
<1>2. CASE Wire'[l] = Wire[l]
  BY <1>1, <1>2
<1>3. CASE l = Current /\ Wire'[l] = Append(Wire[l], msg)
  BY <1>1, <1>3, AppendPoints
<1>4. QED
  BY <1>2, <1>3, SendWire

LEMMA TakePoints ==
    ASSUME TypeOK, NEW s \in Sockets, ServerReceives(s)
    PROVE  /\ s \in Places /\ 1 \in 1..Len(Wire[s])
           /\ \A l \in Places : \A i \in 1..Len(Wire'[l]) :
                 \/ l # s /\ i \in 1..Len(Wire[l]) /\ Wire'[l][i] = Wire[l][i]
                 \/ l = s /\ i + 1 \in 1..Len(Wire[l]) /\ i + 1 # 1 /\ Wire'[l][i] = Wire[l][i + 1]
<1>1. /\ s \in Places /\ 1 \in 1..Len(Wire[s]) /\ Wire[s] # <<>> /\ Wire'[s] = Tail(Wire[s])
      /\ \A l \in Places \ {s} : Wire'[l] = Wire[l]
  BY TakeWire
<1>2. ASSUME NEW l \in Places, NEW i \in 1..Len(Wire'[l]), l # s
      PROVE  i \in 1..Len(Wire[l]) /\ Wire'[l][i] = Wire[l][i]
  BY <1>1, <1>2
<1>3. ASSUME NEW i \in 1..Len(Wire'[s])
      PROVE  i + 1 \in 1..Len(Wire[s]) /\ i + 1 # 1 /\ Wire'[s][i] = Wire[s][i + 1]
  <2>1. Wire[s] \in Seq(UpMsg)
    BY <1>1, WireType
  <2>2. QED
    BY <1>1, <1>3, <2>1, TailPoints
<1>4. QED
  BY <1>1, <1>2, <1>3

LEMMA UpMsgParts ==
    \A m \in UpMsg : /\ m.id \in Calls /\ m.id \in Int
                     /\ IsCall(m) <=> ~IsPacket(m, m.id)
                     /\ IsPacket(m, m.id) => m.packet \in Packets /\ m.packet \in Nat
<1>1. Calls \subseteq Int /\ Packets \subseteq Nat
  BY PortCallsAssumption DEF Calls, Packets
<1>2. QED
  BY <1>1 DEF UpMsg, CallMsg, PacketMsg, IsCall, IsPacket

LEMMA OneCall ==
    ASSUME CallsOnce, NEW l1 \in Places, NEW l2 \in Places,
           NEW i1 \in 1..Len(Wire[l1]), NEW i2 \in 1..Len(Wire[l2]),
           IsCall(Wire[l1][i1]), IsCall(Wire[l2][i2]), Wire[l1][i1].id = Wire[l2][i2].id
    PROVE  l1 = l2 /\ i1 = i2
  BY DEF CallsOnce

(* A step that sends no call moves messages without doubling them: what is *)
(* at l came from the place from[l], where it was off[l] further back.     *)
Moved(from, off) ==
    \A l \in Places : \A i \in 1..Len(Wire'[l]) :
        /\ i \in Nat /\ i + off[l] \in 1..Len(Wire[from[l]])
        /\ Wire'[l][i] = Wire[from[l]][i + off[l]]
        /\ IsCall(Wire'[l][i]) => handler'[Wire'[l][i].id] = handler[Wire'[l][i].id]
        /\ \A k \in Places : from[k] = from[l] => k = l \/ Wire'[k] = <<>>

LEMMA MovedCallsOnce ==
    ASSUME CallsOnce, nextChannelId' = nextChannelId,
           NEW from \in [Places -> Places], NEW off \in [Places -> {0, 1}],
           Moved(from, off)
    PROVE  CallsOnce'
<1>1. ASSUME NEW l \in Places, NEW i \in 1..Len(Wire'[l]), IsCall(Wire'[l][i])
      PROVE  Wire'[l][i].id < nextChannelId' /\ handler'[Wire'[l][i].id] = "none"
  BY <1>1 DEF CallsOnce, Moved
<1>2. ASSUME NEW l1 \in Places, NEW l2 \in Places,
             NEW i1 \in 1..Len(Wire'[l1]), NEW i2 \in 1..Len(Wire'[l2]),
             IsCall(Wire'[l1][i1]), IsCall(Wire'[l2][i2]), Wire'[l1][i1].id = Wire'[l2][i2].id
      PROVE  l1 = l2 /\ i1 = i2
  <2>1. PICK p1 \in Places, j1 \in Int :
           /\ j1 \in 1..Len(Wire[p1]) /\ p1 = from[l1]
           /\ j1 = i1 + off[l1] /\ i1 \in Nat
           /\ Wire'[l1][i1] = Wire[p1][j1]
    <3>1. from[l1] \in Places /\ off[l1] \in Int
      OBVIOUS
    <3>2. /\ i1 \in Nat /\ i1 + off[l1] \in 1..Len(Wire[from[l1]])
          /\ Wire'[l1][i1] = Wire[from[l1]][i1 + off[l1]]
      BY DEF Moved
    <3>3. QED
      BY <3>1, <3>2
  <2>2. PICK p2 \in Places, j2 \in Int :
           /\ j2 \in 1..Len(Wire[p2]) /\ p2 = from[l2]
           /\ j2 = i2 + off[l2] /\ i2 \in Nat
           /\ Wire'[l2][i2] = Wire[p2][j2]
    <3>1. from[l2] \in Places /\ off[l2] \in Int
      OBVIOUS
    <3>2. /\ i2 \in Nat /\ i2 + off[l2] \in 1..Len(Wire[from[l2]])
          /\ Wire'[l2][i2] = Wire[from[l2]][i2 + off[l2]]
      BY DEF Moved
    <3>3. QED
      BY <3>1, <3>2
  <2>3. IsCall(Wire[p1][j1]) /\ IsCall(Wire[p2][j2]) /\ Wire[p1][j1].id = Wire[p2][j2].id
    BY <1>2, <2>1, <2>2
  <2>4. p1 = p2 /\ j1 = j2
    BY <2>1, <2>2, <2>3, OneCall
  <2>5. l1 = l2
    <3>1. Wire'[l2] # <<>>
      BY <1>2
    <3>2. from[l2] = from[l1]
      BY <2>1, <2>2, <2>4
    <3>3. QED
      BY <3>1, <3>2 DEF Moved
  <2>6. QED
    BY <2>1, <2>2, <2>4, <2>5
<1>3. QED
  BY <1>1, <1>2 DEF CallsOnce, IsCall

LEMMA NextKeepsCallsOnce ==
    ASSUME TypeOK, ConnectionInv, WiresFollowSockets, HandlersAgree, CallsOnce, [Next]_vars
    PROVE  CallsOnce'
<1>0. 0 \in Places /\ nextChannelId \in Int
      /\ handler \in [Calls -> {"none", "running", "returned", "threw"}]
  BY WireType DEF TypeOK, ClientTypeOK, ServerTypeOK
<1>l. \A l \in Places : Len(Wire[l]) \in Nat
  BY WireType
<1>1. CASE SendStep
  <2>1. PICK msg \in UpMsg :
              /\ Transmit(msg) \/ TransmitThrows(msg)
              /\ handler' = handler
              /\ \/ /\ IsCall(msg) /\ msg.id = nextChannelId /\ nextChannelId' = nextChannelId + 1
                    /\ nextChannelId \in Calls
                 \/ IsPacket(msg, msg.id) /\ nextChannelId' = nextChannelId
    BY <1>1, SentMessage DEF serverVars
  <2>2. \A l \in Places : \A i \in 1..Len(Wire'[l]) :
                  \/ i \in 1..Len(Wire[l]) /\ Wire'[l][i] = Wire[l][i] /\ Wire[l][i] \in UpMsg
                  \/ l = Current /\ i = Len(Wire[l]) + 1 /\ Wire'[l][i] = msg
    BY <2>1, SendPoints
  <2>3. IsCall(msg) => /\ msg.id = nextChannelId /\ handler[msg.id] = "none"
                       /\ nextChannelId' = nextChannelId + 1
    BY <1>0, <2>1, UpMsgParts DEF HandlersAgree, HandlerAgrees
  <2>4. nextChannelId' \in Int /\ nextChannelId <= nextChannelId'
    BY <1>0, <2>1
  <2>5. ASSUME NEW l \in Places, NEW i \in 1..Len(Wire'[l]), IsCall(Wire'[l][i])
        PROVE  Wire'[l][i].id < nextChannelId' /\ handler'[Wire'[l][i].id] = "none"
    <3>1. CASE i \in 1..Len(Wire[l]) /\ Wire'[l][i] = Wire[l][i] /\ Wire[l][i] \in UpMsg
      <4>1. Wire'[l][i].id < nextChannelId /\ handler[Wire'[l][i].id] = "none"
        BY <2>5, <3>1 DEF CallsOnce
      <4>2. Wire'[l][i].id \in Int
        BY <3>1, UpMsgParts
      <4>3. QED
        BY <1>0, <2>1, <2>4, <4>1, <4>2
    <3>2. CASE Wire'[l][i] = msg
      BY <1>0, <2>1, <2>3, <2>5, <3>2
    <3>3. QED
      BY <2>2, <3>1, <3>2
  <2>6. ASSUME NEW l1 \in Places, NEW l2 \in Places,
               NEW i1 \in 1..Len(Wire'[l1]), NEW i2 \in 1..Len(Wire'[l2]),
               IsCall(Wire'[l1][i1]), IsCall(Wire'[l2][i2]), Wire'[l1][i1].id = Wire'[l2][i2].id
        PROVE  l1 = l2 /\ i1 = i2
    <3> DEFINE Old(l, i) == i \in 1..Len(Wire[l]) /\ Wire'[l][i] = Wire[l][i] /\ Wire[l][i] \in UpMsg
               New(l, i) == l = Current /\ i = Len(Wire[l]) + 1 /\ Wire'[l][i] = msg
    <3>1. ASSUME NEW l \in Places, NEW i, Old(l, i), IsCall(Wire'[l][i])
          PROVE  Wire'[l][i].id # nextChannelId
      <4>1. Wire'[l][i].id < nextChannelId
        BY <3>1 DEF CallsOnce
      <4>2. QED
        BY <1>0, <4>1
    <3>2. CASE Old(l1, i1) /\ Old(l2, i2)
      BY <2>6, <3>2, OneCall
    <3>3. CASE New(l1, i1) /\ New(l2, i2)
      BY <3>3
    <3>4. CASE Old(l1, i1) /\ New(l2, i2)
      BY <2>3, <2>6, <3>1, <3>4
    <3>5. CASE New(l1, i1) /\ Old(l2, i2)
      BY <2>3, <2>6, <3>1, <3>5
    <3>6. QED
      BY <2>2, <3>2, <3>3, <3>4, <3>5
  <2>7. QED
    BY <2>5, <2>6 DEF CallsOnce, IsCall
<1>2. ASSUME NEW s \in Sockets, ConnectionOpens(s) PROVE CallsOnce'
  <2>1. handler' = handler /\ nextChannelId' = nextChannelId
    BY <1>2 DEF ConnectionOpens, serverVars, clientVars
  <2>2. /\ s \in Places /\ s # 0 /\ Wire'[s] = Wire[0] /\ Wire'[0] = <<>>
        /\ \A l \in Places \ {0, s} : Wire'[l] = Wire[l]
    BY <1>2, FlushWire
  <2> DEFINE from == [l \in Places |-> IF l = s THEN 0 ELSE l]
             off == [l \in Places |-> 0]
  <2>3. from \in [Places -> Places] /\ off \in [Places -> {0, 1}]
    BY <1>0
  <2>4. ASSUME NEW l \in Places, NEW i \in 1..Len(Wire'[l])
        PROVE  /\ i \in Nat /\ i + off[l] \in 1..Len(Wire[from[l]])
               /\ Wire'[l][i] = Wire[from[l]][i + off[l]]
               /\ \A k \in Places : from[k] = from[l] => k = l \/ Wire'[k] = <<>>
    BY <1>0, <1>l, <2>2
  <2> HIDE DEF from, off
  <2>5. Moved(from, off)
    BY <2>1, <2>4 DEF Moved
  <2>6. QED
    BY <2>1, <2>3, <2>5, MovedCallsOnce
<1>3. ASSUME NEW s \in Sockets, ServerReceives(s) PROVE CallsOnce'
  <2> DEFINE m == Wire[s][1]
             from == [l \in Places |-> l]
             off == [l \in Places |-> IF l = s THEN 1 ELSE 0]
  <2>1. /\ s \in Places /\ 1 \in 1..Len(Wire[s])
        /\ \A l \in Places : \A i \in 1..Len(Wire'[l]) :
              \/ l # s /\ i \in 1..Len(Wire[l]) /\ Wire'[l][i] = Wire[l][i]
              \/ l = s /\ i + 1 \in 1..Len(Wire[l]) /\ i + 1 # 1 /\ Wire'[l][i] = Wire[l][i + 1]
    BY <1>3, TakePoints
  <2>2. /\ nextChannelId' = nextChannelId /\ m.id \in Calls
        /\ \/ IsCall(m) /\ handler' = [handler EXCEPT ![m.id] = "running"]
           \/ handler' = handler
    BY <1>3, TakenMessage DEF clientVars
  <2>3. from \in [Places -> Places] /\ off \in [Places -> {0, 1}]
    OBVIOUS
  <2>4. ASSUME NEW l \in Places, NEW i \in 1..Len(Wire'[l])
        PROVE  /\ i \in Nat /\ i + off[l] \in 1..Len(Wire[from[l]])
               /\ Wire'[l][i] = Wire[from[l]][i + off[l]]
               /\ \A k \in Places : from[k] = from[l] => k = l \/ Wire'[k] = <<>>
               /\ l = s => i + off[l] # 1
    BY <1>l, <2>1
  <2> HIDE DEF from, off, m
  <2>5. ASSUME NEW l \in Places, NEW i \in 1..Len(Wire'[l]), IsCall(Wire'[l][i])
        PROVE  handler'[Wire'[l][i].id] = handler[Wire'[l][i].id]
    <3>1. CASE handler' = handler
      BY <3>1
    <3>2. CASE IsCall(m) /\ handler' = [handler EXCEPT ![m.id] = "running"]
      <4>1. PICK j \in 1..Len(Wire[l]) : Wire'[l][i] = Wire[l][j] /\ (l = s => j # 1)
        BY <2>4 DEF from
      <4>2. s \in Places /\ 1 \in 1..Len(Wire[s]) /\ m = Wire[s][1] /\ IsCall(Wire[l][j])
        BY <2>1, <2>5, <4>1 DEF m
      <4>3. Wire[l][j].id # Wire[s][1].id
      <5>1. ASSUME Wire[l][j].id = Wire[s][1].id PROVE FALSE
        <6>1. l = s /\ j = 1
          BY <3>2, <4>1, <4>2, <5>1, OneCall DEF m
        <6>2. QED
          BY <4>1, <6>1
      <5>2. QED
        BY <5>1
      <4>4. QED
        BY <1>0, <2>2, <3>2, <4>1, <4>2, <4>3
    <3>3. QED
      BY <2>2, <3>1, <3>2
  <2>6. Moved(from, off)
    BY <2>4, <2>5 DEF Moved
  <2>7. QED
    BY <2>2, <2>3, <2>6, MovedCallsOnce
<1>4. ASSUME NEW s \in Sockets, ServerConnectionLost(s) PROVE CallsOnce'
  <2>1. handler' = handler /\ nextChannelId' = nextChannelId
    BY <1>4 DEF ServerConnectionLost, clientVars
  <2>2. /\ s \in Places /\ Wire'[s] = <<>> /\ \A l \in Places \ {s} : Wire'[l] = Wire[l]
    BY <1>4, ClearWire
  <2> DEFINE from == [l \in Places |-> l]
             off == [l \in Places |-> 0]
  <2>3. from \in [Places -> Places] /\ off \in [Places -> {0, 1}]
    OBVIOUS
  <2>4. ASSUME NEW l \in Places, NEW i \in 1..Len(Wire'[l])
        PROVE  /\ i \in Nat /\ i + off[l] \in 1..Len(Wire[from[l]])
               /\ Wire'[l][i] = Wire[from[l]][i + off[l]]
               /\ \A k \in Places : from[k] = from[l] => k = l \/ Wire'[k] = <<>>
    BY <1>l, <2>2
  <2> HIDE DEF from, off
  <2>5. Moved(from, off)
    BY <2>1, <2>4 DEF Moved
  <2>6. QED
    BY <2>1, <2>3, <2>5, MovedCallsOnce
<1>5. CASE OtherStep
  <2>1. Wire' = Wire /\ nextChannelId' = nextChannelId
    BY <1>5, OtherWire DEF OtherStep, EnsureConnectedOrStartConnection, DisposeStep,
       StartDispose, FinishDispose, ConnectionLost, ClientReceives, HandlerStep,
       RpcHandlerSettles, ServerChannelSend, ChannelHandlerReturns, ChannelHandlerThrows, vars,
       clientVars, Errored, ReceivedRpcResult, ReceivedChannelSend, ReceivedChannelEnd
  <2>2. \A c \in Calls : handler[c] = "none" => handler'[c] = "none"
    <3>1. CASE HandlerStep
      BY <1>0, <3>1 DEF HandlerStep, RpcHandlerSettles, ServerChannelSend,
         ChannelHandlerReturns, ChannelHandlerThrows
    <3>2. CASE UNCHANGED handler
      BY <3>2
    <3>3. QED
      BY <1>5, <3>1, <3>2 DEF OtherStep, DisposeStep, StartDispose, FinishDispose,
         ConnectionLost, ClientReceives, vars, serverVars
  <2>3. \A l \in Places : \A i \in 1..Len(Wire[l]) : Wire[l][i].id \in Calls
    BY WireType, UpMsgParts
  <2>4. QED
    BY <2>1, <2>2, <2>3 DEF CallsOnce, IsCall
<1>6. QED
  BY <1>1, <1>2, <1>3, <1>4, <1>5, StepsByWire

-----------------------------------------------------------------------------
(* Success is reported of handlers that returned.                          *)

(* What comes after a step on a socket to the client. *)
LEMMA AnsweredPoints ==
    ASSUME TypeOK, NEW h \in Sockets, NEW msg \in DownMsg, down' = Answered(h, <<msg>>)
    PROVE  \A s \in Sockets :
             /\ Len(down[s]) \in Nat /\ Len(down'[s]) \in Nat
             /\ \A i \in 1..Len(down'[s]) :
                  \/ i \in 1..Len(down[s]) /\ down'[s][i] = down[s][i] /\ down[s][i] \in DownMsg
                  \/ s = h /\ i = Len(down[s]) + 1 /\ down'[s][i] = msg
             /\ \A i \in 1..Len(down[s]) : i \in 1..Len(down'[s]) /\ down'[s][i] = down[s][i]
<1> TAKE s \in Sockets
<1>1. down \in [Sockets -> Seq(DownMsg)] /\ down[s] \in Seq(DownMsg)
  BY DEF TypeOK, TransportTypeOK
<1>2. \/ down'[s] = down[s]
      \/ s = h /\ down'[s] = down[s] \o <<msg>>
  BY <1>1 DEF Answered
<1>3. down[s] \o <<msg>> = Append(down[s], msg)
  BY <1>1
<1>4. CASE down'[s] = down[s]
  BY <1>1, <1>4
<1>5. CASE s = h /\ down'[s] = Append(down[s], msg)
  <2>1. /\ Len(down[s]) \in Nat /\ Len(Append(down[s], msg)) = Len(down[s]) + 1
        /\ \A i \in 1..Len(down[s]) : Append(down[s], msg)[i] = down[s][i] /\ down[s][i] \in DownMsg
        /\ Append(down[s], msg)[Len(down[s]) + 1] = msg
    BY <1>1, AppendPoints
  <2>2. /\ Len(down[s]) \in Nat /\ Len(down'[s]) = Len(down[s]) + 1
        /\ \A i \in 1..Len(down[s]) : down'[s][i] = down[s][i] /\ down[s][i] \in DownMsg
        /\ down'[s][Len(down[s]) + 1] = msg
    BY <1>5, <2>1
  <2>3. ASSUME NEW i \in 1..Len(down'[s])
        PROVE  \/ i \in 1..Len(down[s]) /\ down'[s][i] = down[s][i] /\ down[s][i] \in DownMsg
               \/ s = h /\ i = Len(down[s]) + 1 /\ down'[s][i] = msg
    <3>1. i \in 1..Len(down[s]) \/ i = Len(down[s]) + 1
      BY <2>2
    <3>2. QED
      BY <1>5, <2>2, <3>1
  <2>4. QED
    BY <2>2, <2>3
<1>6. QED
  BY <1>2, <1>3, <1>4, <1>5

LEMMA TakenDownPoints ==
    ASSUME TypeOK, NEW s \in Sockets, TakeMessage(s)
    PROVE  /\ 1 \in 1..Len(down[s]) /\ Head(down[s]) = down[s][1] /\ down[s][1] \in DownMsg
           /\ \A r \in Sockets : \A i \in 1..Len(down'[r]) :
                 \/ r # s /\ i \in 1..Len(down[r]) /\ down'[r][i] = down[r][i]
                 \/ r = s /\ i + 1 \in 1..Len(down[r]) /\ i + 1 # 1 /\ down'[r][i] = down[r][i + 1]
<1>1. /\ down \in [Sockets -> Seq(DownMsg)] /\ down[s] # <<>> /\ down[s] \in Seq(DownMsg)
      /\ down' = [down EXCEPT ![s] = Tail(@)]
  BY DEF TakeMessage, TypeOK, TransportTypeOK
<1>2. 1 \in 1..Len(down[s]) /\ Head(down[s]) = down[s][1] /\ down[s][1] \in DownMsg
  BY <1>1, TailPoints
<1>3. ASSUME NEW r \in Sockets, NEW i \in 1..Len(down'[r]), r # s
      PROVE  i \in 1..Len(down[r]) /\ down'[r][i] = down[r][i]
  BY <1>1, <1>3
<1>4. ASSUME NEW i \in 1..Len(down'[s])
      PROVE  i + 1 \in 1..Len(down[s]) /\ i + 1 # 1 /\ down'[s][i] = down[s][i + 1]
  <2>1. down'[s] = Tail(down[s])
    BY <1>1
  <2>2. QED
    BY <1>1, <1>4, <2>1, TailPoints
<1>5. QED
  BY <1>2, <1>3, <1>4

LEMMA DownMsgParts ==
    \A m \in DownMsg : /\ m.id \in Calls
                       /\ IsPacket(m, m.id) => m.packet \in Packets /\ m.packet \in Nat
<1>1. Packets \subseteq Nat
  BY PortCallsAssumption DEF Packets
<1>2. QED
  BY <1>1 DEF DownMsg, PacketMsg, EndMsg, IsPacket

(* A handler that returned stays so. *)
LEMMA HandlersStay ==
    ASSUME TypeOK, HandlersAgree, CallsOnce, [Next]_vars, NEW c \in Calls, handler[c] = "returned"
    PROVE  handler'[c] = "returned"
<1>0. handler \in [Calls -> {"none", "running", "returned", "threw"}]
  BY DEF TypeOK, ServerTypeOK
<1>1. CASE HandlerStep
  BY <1>0, <1>1 DEF HandlerStep, RpcHandlerSettles, ServerChannelSend, ChannelHandlerReturns,
     ChannelHandlerThrows
<1>2. ASSUME NEW s \in Sockets, ServerReceives(s) PROVE handler'[c] = "returned"
  <2>1. CASE IsCall(Wire[s][1])
    <3>1. handler[Wire[s][1].id] = "none" /\ Wire[s][1].id \in Calls
      BY <1>2, <2>1, TakeWire, TakenMessage DEF CallsOnce
    <3>2. handler' = handler \/ handler' = [handler EXCEPT ![Wire[s][1].id] = "running"]
      BY <1>2, <2>1, TakenCall
    <3>3. QED
      BY <1>0, <3>1, <3>2
  <2>2. CASE handler' = handler
    BY <2>2
  <2>3. QED
    BY <1>2, <2>1, <2>2, TakenMessage
<1>3. CASE UNCHANGED handler
  BY <1>3
<1>4. QED
  BY <1>1, <1>2, <1>3 DEF Next, ClientCallStep, CallRpc, CreateChannel, ChannelSend, DisposeStep,
     StartDispose, FinishDispose, NetworkStep, ConnectionOpens, ConnectionLost, ClientReceives,
     ServerConnectionLost, vars, serverVars

LEMMA NextKeepsResults ==
    ASSUME TypeOK, HandlersAgree, CallsOnce, ResultsAgree, [Next]_vars
    PROVE  ResultsAgree'
<1>0. down \in [Sockets -> Seq(DownMsg)]
  BY DEF TypeOK, TransportTypeOK
<1>1. \A s \in Sockets : \A i \in 1..Len(down[s]) : down[s][i].id \in Calls
  BY <1>0, DownMsgParts
<1>2. \A s \in Sockets : \A i \in 1..Len(down[s]) :
        down[s][i].type \in {"rpcResult", "channelClose"} => handler'[down[s][i].id] = "returned"
  BY <1>1, HandlersStay DEF ResultsAgree
<1>3. CASE UNCHANGED down
  BY <1>2, <1>3 DEF ResultsAgree
<1>4. CASE HandlerStep
  <2>1. PICK c \in Calls : \/ RpcHandlerSettles(c) \/ ServerChannelSend(c)
                           \/ ChannelHandlerReturns(c) \/ ChannelHandlerThrows(c)
    BY <1>4 DEF HandlerStep
  <2>2. home[c] \in Sockets
    BY <2>1 DEF HandlersAgree, HandlerAgrees, RpcHandlerSettles, ServerChannelSend,
       ChannelHandlerReturns, ChannelHandlerThrows
  <2>3. PICK msg \in DownMsg :
           /\ down' = Answered(home[c], <<msg>>)
           /\ msg.type \in {"rpcResult", "channelClose"} => handler'[msg.id] = "returned"
    <3>0. handler \in [Calls -> {"none", "running", "returned", "threw"}]
      BY DEF TypeOK, ServerTypeOK
    <3>1. CASE RpcHandlerSettles(c)
      <4>1. PICK type \in {"rpcResult", "rpcError", "rpcInvalidResult"} :
              /\ handler' = [handler EXCEPT ![c] = IF type = "rpcError" THEN "threw"
                                                   ELSE "returned"]
              /\ down' = Answered(home[c], <<[type |-> type, id |-> c]>>)
        BY <3>1 DEF RpcHandlerSettles
      <4>2. [type |-> type, id |-> c] \in DownMsg
        BY DEF DownMsg, EndMsg
      <4>3. QED
        BY <3>0, <4>1, <4>2
    <3>2. CASE ServerChannelSend(c)
      <4>1. serverSent[c] \in Packets
        BY <3>2, PortCallsAssumption DEF ServerChannelSend, TypeOK, ServerTypeOK, Packets
      <4>2. [type |-> "channelSend", id |-> c, packet |-> serverSent[c]] \in DownMsg
        BY <4>1 DEF DownMsg, PacketMsg
      <4>3. QED
        BY <3>2, <4>2 DEF ServerChannelSend
    <3>3. CASE ChannelHandlerReturns(c)
      <4>1. [type |-> "channelClose", id |-> c] \in DownMsg
        BY DEF DownMsg, EndMsg
      <4>2. QED
        BY <3>0, <3>3, <4>1 DEF ChannelHandlerReturns
    <3>4. CASE ChannelHandlerThrows(c)
      <4>1. [type |-> "channelError", id |-> c] \in DownMsg
        BY DEF DownMsg, EndMsg
      <4>2. QED
        BY <3>4, <4>1 DEF ChannelHandlerThrows
    <3>5. QED
      BY <2>1, <3>1, <3>2, <3>3, <3>4
  <2>4. \A s \in Sockets : \A i \in 1..Len(down'[s]) :
           \/ i \in 1..Len(down[s]) /\ down'[s][i] = down[s][i]
           \/ down'[s][i] = msg
    BY <2>2, <2>3, AnsweredPoints
  <2>5. QED
    BY <1>2, <2>3, <2>4 DEF ResultsAgree
<1>5. ASSUME NEW s \in Sockets, ClientReceives(s) PROVE ResultsAgree'
  <2>1. \A r \in Sockets : \A i \in 1..Len(down'[r]) :
           \E j \in 1..Len(down[r]) : down'[r][i] = down[r][j]
    BY <1>5, TakenDownPoints DEF ClientReceives
  <2>2. QED
    BY <1>2, <2>1 DEF ResultsAgree
<1>6. ASSUME NEW s \in Sockets, ConnectionLost(s) PROVE ResultsAgree'
  <2>1. down' = [down EXCEPT ![s] = <<>>]
    BY <1>6 DEF ConnectionLost, SocketErrors, SocketCloses, OnWsError
  <2>2. \A r \in Sockets : \A i \in 1..Len(down'[r]) :
           i \in 1..Len(down[r]) /\ down'[r][i] = down[r][i]
    BY <1>0, <2>1
  <2>3. QED
    BY <1>2, <2>2 DEF ResultsAgree
<1>7. QED
  BY <1>3, <1>4, <1>5, <1>6 DEF Next, ClientCallStep, CallRpc, CreateChannel, ChannelSend,
     EnsureConnectedOrStartConnection, DisposeStep, StartDispose, DisposeWaits, FinishDispose,
     DisposeCloses, NetworkStep, UrlSettles, ConnectionOpens, OnWsOpen, ServerReceives,
     ServerConnectionLost, ServerSocketCloses, vars, transportVars

-----------------------------------------------------------------------------
(* The refinement: every step of the ports is a step of the contract.      *)

ContractInv ==
    /\ ConnectionInv /\ RegistriesAgree /\ CountInv
    /\ WiresFollowSockets /\ HandlersAgree /\ CallsOnce /\ ResultsAgree

LEMMA ContractInvHolds == Spec => []ContractInv
<1>1. Init => ConnectionInv /\ RegistriesAgree /\ CountInv
  <2>1. Cardinality({}) = 0
    BY FS_EmptySet
  <2>2. QED
    BY <2>1 DEF Init, TransportInit, ConnectionInv, SingleConnection, Live, disposed,
       RegistriesAgree, PendingRpcs, ConnectedChannels, CountInv
<1>2. Init => WiresFollowSockets /\ HandlersAgree /\ CallsOnce /\ ResultsAgree
  <2>1. Init => Wire = [l \in Places |-> <<>>] /\ down = [s \in Sockets |-> <<>>]
    BY DEF Init, TransportInit, Wire, Places, Sockets
  <2>2. Init => CallsOnce
    BY <2>1 DEF CallsOnce
  <2>3. QED
    BY <2>1, <2>2 DEF Init, TransportInit, WiresFollowSockets, HandlersAgree, HandlerAgrees,
       ResultsAgree
<1>3. TypeOK /\ ContractInv /\ [Next]_vars => ContractInv'
  <2> SUFFICES ASSUME TypeOK, ContractInv, [Next]_vars PROVE ContractInv'
    OBVIOUS
  <2>1. ConnectionTypeOK
    BY TransportTypeParts DEF TypeOK
  <2>2. ConnectionInv'
    BY <2>1, NextKeepsConnection DEF ContractInv
  <2>3. RegistriesAgree' /\ CountInv'
    BY NextKeepsCount DEF ContractInv
  <2>4. WiresFollowSockets' /\ HandlersAgree' /\ CallsOnce' /\ ResultsAgree'
    BY NextKeepsWires, NextKeepsHandlers, NextKeepsCallsOnce, NextKeepsResults DEF ContractInv
  <2>5. QED
    BY <2>2, <2>3, <2>4 DEF ContractInv
<1>4. QED
  BY <1>1, <1>2, <1>3, TypeOKHolds, PTL DEF Spec, ContractInv

LEMMA CallerValues ==
    ASSUME NEW c \in Calls
    PROVE  /\ Caller[c] = IF promise[c] = "pending" \/ channel[c] = "Connected" THEN "pending"
                          ELSE IF promise[c] = "resolved" \/ channel[c] = "Closed" THEN "succeeded"
                          ELSE IF c < nextChannelId THEN "failed" ELSE "none"
           /\ Caller'[c] = IF promise'[c] = "pending" \/ channel'[c] = "Connected" THEN "pending"
                           ELSE IF promise'[c] = "resolved" \/ channel'[c] = "Closed" THEN "succeeded"
                           ELSE IF c < nextChannelId' THEN "failed" ELSE "none"
  BY DEF Caller

LEMMA CallerChanged ==
    ASSUME NEW c \in Calls, NEW v, Caller'[c] = v, \A d \in Calls \ {c} : Caller'[d] = Caller[d]
    PROVE  Caller' = [Caller EXCEPT ![c] = v]
  BY DEF Caller

(* A call is issued, or refused by the transport. *)
LEMMA CallMapped ==
    ASSUME TypeOK, ContractInv, CallRpc \/ CreateChannel
    PROVE  \E c \in Calls : Contract!Issue(c) \/ Contract!Refuse(c)
<1> DEFINE c == nextChannelId
<1>1. c \in Calls /\ nextChannelId' = c + 1
  BY PortCallsAssumption DEF CallRpc, CreateChannel, ContractInv, TypeOK, ClientTypeOK, Calls
<1>2. /\ promise \in [Calls -> {"none", "pending", "resolved", "rejected"}]
      /\ channel \in [Calls -> ChannelStatus]
      /\ promise[c] = "none" /\ channel[c] = "none"
  BY <1>1, PortCallsAssumption DEF ContractInv, TypeOK, ClientTypeOK, RegistriesAgree, Calls
<1>3. /\ handler' = handler
      /\ \/ promise' = [promise EXCEPT ![c] = "pending"] /\ channel' = channel
         \/ promise' = [promise EXCEPT ![c] = "rejected"] /\ channel' = channel
         \/ promise' = promise /\ channel' = [channel EXCEPT ![c] = "Connected"]
         \/ promise' = promise /\ channel' = channel
  BY DEF CallRpc, CreateChannel, serverVars
<1>4. \A d \in Calls \ {c} : (d < c <=> d < nextChannelId') /\ ~(c < c) /\ c < nextChannelId'
  BY <1>1, PortCallsAssumption DEF Calls
<1>5. Caller[c] = "none" /\ Caller'[c] \in {"pending", "failed"}
  <2>1. ~(c < c) /\ c < nextChannelId'
    BY <1>1, PortCallsAssumption DEF Calls
  <2> HIDE DEF c
  <2>2. c = nextChannelId
    BY DEF c
  <2>3. QED
    BY <1>1, <1>2, <1>3, <2>1, <2>2, CallerValues
<1>6. \A d \in Calls \ {c} : Caller'[d] = Caller[d]
  BY <1>1, <1>2, <1>3, <1>4, CallerValues
<1>7. \/ Caller' = [Caller EXCEPT ![c] = "pending"]
      \/ Caller' = [Caller EXCEPT ![c] = "failed"]
  BY <1>1, <1>5, <1>6, CallerChanged
<1>8. QED
  BY <1>1, <1>3, <1>5, <1>7 DEF Contract!Issue, Contract!Refuse

(* A loss of the connection, or the disposal, fails the calls that wait. *)
LEMMA ErroredMapped ==
    ASSUME TypeOK, ContractInv, Errored, handler' = handler
    PROVE  \E lost \in SUBSET Calls : Contract!Fail(lost)
<1> DEFINE lost == {c \in Calls : Caller[c] = "pending"}
<1>1. /\ promise' = [c \in Calls |-> IF promise[c] = "pending" THEN "rejected" ELSE promise[c]]
      /\ channel' = [c \in Calls |-> IF channel[c] = "Connected" THEN "Errored" ELSE channel[c]]
      /\ nextChannelId' = nextChannelId
  BY DEF Errored, ContractInv, RegistriesAgree, PendingRpcs, ConnectedChannels
<1>2. \A c \in Calls : promise[c] = "none" \/ channel[c] = "none"
  BY DEF ContractInv, RegistriesAgree
<1>3. \A c \in Calls : promise[c] = "pending" \/ channel[c] = "Connected" => c < nextChannelId
  <2>1. Calls \subseteq Int /\ nextChannelId \in Int
    BY PortCallsAssumption DEF Calls, ContractInv, TypeOK, ClientTypeOK
  <2>2. QED
    BY <2>1 DEF ContractInv, RegistriesAgree
<1>4. \A c \in Calls : Caller'[c] = IF Caller[c] = "pending" THEN "failed" ELSE Caller[c]
  BY <1>1, <1>2, <1>3, CallerValues
<1>5. Caller' = [c \in Calls |-> IF c \in lost THEN "failed" ELSE Caller[c]]
  BY <1>4 DEF Caller
<1>6. lost \in SUBSET Calls /\ \A c \in lost : Caller[c] = "pending"
  OBVIOUS
<1> HIDE DEF lost
<1>7. QED
  BY <1>5, <1>6 DEF Contract!Fail

LEMMA IdleMapped ==
    ASSUME UNCHANGED <<nextChannelId, promise, channel, handler>>
    PROVE  UNCHANGED <<Caller, handler>>
  BY DEF Caller

(* A result or an end is taken by the port: the call succeeds or fails. *)
LEMMA ReceiveMapped ==
    ASSUME TypeOK, ContractInv, NEW s \in Sockets, ClientReceives(s)
    PROVE  \/ \E c \in Calls : Contract!Succeed(c)
           \/ \E lost \in SUBSET Calls : Contract!Fail(lost)
           \/ UNCHANGED <<Caller, handler>>
<1> DEFINE m == Head(down[s])
           c == m.id
<1>1. /\ m = down[s][1] /\ 1 \in 1..Len(down[s]) /\ c \in Calls
      /\ handler' = handler
  BY TakenDownPoints, DownMsgParts DEF ClientReceives, ContractInv, serverVars
<1>2. m.type \in {"rpcResult", "channelClose"} => handler[c] = "returned"
  BY <1>1 DEF ContractInv, ResultsAgree
<1>3. /\ promise \in [Calls -> {"none", "pending", "resolved", "rejected"}]
      /\ channel \in [Calls -> ChannelStatus]
      /\ promise[c] = "none" \/ channel[c] = "none"
      /\ ongoingRpcs = PendingRpcs /\ openChannels = ConnectedChannels
  BY <1>1 DEF ContractInv, TypeOK, ClientTypeOK, RegistriesAgree
<1>4. promise[c] = "pending" \/ channel[c] = "Connected" => c < nextChannelId
  <2>1. c \in Int /\ nextChannelId \in Int
    BY <1>1, PortCallsAssumption DEF Calls, ContractInv, TypeOK, ClientTypeOK
  <2>2. QED
    BY <1>1, <2>1 DEF ContractInv, RegistriesAgree
<1>5. \/ ReceivedRpcResult(m) \/ ReceivedChannelEnd(m)
      \/ UNCHANGED <<nextChannelId, promise, channel, handler>>
  BY <1>1 DEF ClientReceives, ReceivedChannelSend, clientVars
<1> HIDE DEF m
<1>6. CASE ReceivedRpcResult(m)
  <2>1. /\ promise[c] = "pending" /\ channel' = channel /\ nextChannelId' = nextChannelId
        /\ \/ m.type = "rpcResult" /\ promise' = [promise EXCEPT ![c] = "resolved"]
           \/ promise' = [promise EXCEPT ![c] = "rejected"]
    BY <1>3, <1>6 DEF ReceivedRpcResult, PendingRpcs
  <2> HIDE DEF c
  <2>2. Caller[c] = "pending"
    BY <1>1, <2>1, CallerValues
  <2>3. \A d \in Calls \ {c} : Caller'[d] = Caller[d]
    BY <1>1, <1>3, <2>1, CallerValues
  <2>4. CASE m.type = "rpcResult" /\ promise' = [promise EXCEPT ![c] = "resolved"]
    <3>1. Caller'[c] = "succeeded"
      BY <1>1, <1>3, <2>1, <2>4, CallerValues
    <3>2. Caller' = [Caller EXCEPT ![c] = "succeeded"]
      BY <1>1, <2>3, <3>1, CallerChanged
    <3>3. QED
      BY <1>1, <1>2, <2>2, <2>4, <3>2 DEF Contract!Succeed
  <2>5. CASE promise' = [promise EXCEPT ![c] = "rejected"]
    <3>1. Caller'[c] = "failed"
      BY <1>1, <1>3, <1>4, <2>1, <2>5, CallerValues
    <3>2. Caller' = [d \in Calls |-> IF d \in {c} THEN "failed" ELSE Caller[d]]
      BY <1>1, <2>3, <3>1 DEF Caller
    <3>3. QED
      BY <1>1, <2>2, <3>2 DEF Contract!Fail
  <2>6. QED
    BY <2>1, <2>4, <2>5
<1>7. CASE ReceivedChannelEnd(m)
  <2>1. /\ channel[c] = "Connected" /\ promise' = promise /\ nextChannelId' = nextChannelId
        /\ \/ m.type = "channelClose" /\ channel' = [channel EXCEPT ![c] = "Closed"]
           \/ channel' = [channel EXCEPT ![c] = "Errored"]
    BY <1>3, <1>7 DEF ReceivedChannelEnd, ConnectedChannels
  <2> HIDE DEF c
  <2>2. Caller[c] = "pending"
    BY <1>1, <2>1, CallerValues
  <2>3. \A d \in Calls \ {c} : Caller'[d] = Caller[d]
    BY <1>1, <1>3, <2>1, CallerValues
  <2>4. CASE m.type = "channelClose" /\ channel' = [channel EXCEPT ![c] = "Closed"]
    <3>1. Caller'[c] = "succeeded"
      BY <1>1, <1>3, <2>1, <2>4, CallerValues
    <3>2. Caller' = [Caller EXCEPT ![c] = "succeeded"]
      BY <1>1, <2>3, <3>1, CallerChanged
    <3>3. QED
      BY <1>1, <1>2, <2>2, <2>4, <3>2 DEF Contract!Succeed
  <2>5. CASE channel' = [channel EXCEPT ![c] = "Errored"]
    <3>1. Caller'[c] = "failed"
      BY <1>1, <1>3, <1>4, <2>1, <2>5, CallerValues
    <3>2. Caller' = [d \in Calls |-> IF d \in {c} THEN "failed" ELSE Caller[d]]
      BY <1>1, <2>3, <3>1 DEF Caller
    <3>3. QED
      BY <1>1, <2>2, <3>2 DEF Contract!Fail
  <2>6. QED
    BY <2>1, <2>4, <2>5
<1>8. CASE UNCHANGED <<nextChannelId, promise, channel, handler>>
  BY <1>8, IdleMapped
<1>9. QED
  BY <1>5, <1>6, <1>7, <1>8

(* The server starts the handler of a call that was issued, once. *)
LEMMA StartMapped ==
    ASSUME TypeOK, ContractInv, NEW s \in Sockets, ServerReceives(s)
    PROVE  (\E c \in Calls : Contract!Start(c)) \/ UNCHANGED <<Caller, handler>>
<1> DEFINE c == Wire[s][1].id
<1>1. UNCHANGED <<nextChannelId, promise, channel>> /\ c \in Calls
  BY TakenMessage DEF clientVars
<1>2. Caller' = Caller
  BY <1>1 DEF Caller
<1>3. CASE IsCall(Wire[s][1]) /\ handler' # handler
  <2>1. handler[c] = "none" /\ c < nextChannelId
    BY <1>3, TakeWire DEF ContractInv, CallsOnce
  <2>2. handler' = [handler EXCEPT ![c] = "running"]
    BY <1>3, TakenCall
  <2> HIDE DEF c
  <2>3. Caller[c] # "none"
    BY <1>1, <2>1, CallerValues
  <2>4. QED
    BY <1>1, <1>2, <2>1, <2>2, <2>3 DEF Contract!Start
<1>4. CASE IsPacket(Wire[s][1], Wire[s][1].id)
  BY <1>2, <1>4, TakenPacket
<1>5. CASE handler' = handler
  BY <1>2, <1>5
<1>6. QED
  BY <1>3, <1>4, <1>5, TakenMessage

LEMMA SettleMapped ==
    ASSUME NEW c \in Calls,
           RpcHandlerSettles(c) \/ ChannelHandlerReturns(c) \/ ChannelHandlerThrows(c)
    PROVE  Contract!Settle(c)
<1>1. UNCHANGED <<nextChannelId, promise, channel>>
  BY DEF RpcHandlerSettles, ChannelHandlerReturns, ChannelHandlerThrows, clientVars
<1>2. Caller' = Caller
  BY <1>1 DEF Caller
<1>3. /\ handler[c] = "running"
      /\ \E outcome \in {"returned", "threw"} : handler' = [handler EXCEPT ![c] = outcome]
  BY DEF RpcHandlerSettles, ChannelHandlerReturns, ChannelHandlerThrows
<1>4. QED
  BY <1>2, <1>3 DEF Contract!Settle

LEMMA StepMapped ==
    ASSUME TypeOK, ContractInv, [Next]_vars
    PROVE  Contract!Next \/ UNCHANGED <<Caller, handler>>
<1>1. CASE UNCHANGED <<nextChannelId, promise, channel, handler>>
  BY <1>1, IdleMapped
<1>2. CASE ClientCallStep
  <2>1. CASE CallRpc \/ CreateChannel
    BY <2>1, CallMapped DEF Contract!Next
  <2>2. CASE (\E c \in Calls : ChannelSend(c)) \/ UNCHANGED <<clientVars, serverVars>>
    BY <1>1, <2>2 DEF ChannelSend, clientVars, serverVars
  <2>3. QED
    BY <1>2, <2>1, <2>2 DEF ClientCallStep
<1>3. CASE DisposeStep
  <2>1. CASE FinishDispose
    <3>1. Errored /\ handler' = handler
      BY <2>1 DEF FinishDispose, serverVars
    <3>2. QED
      BY <3>1, ErroredMapped DEF Contract!Next
  <2>2. CASE StartDispose
    BY <1>1, <2>2 DEF StartDispose, clientVars, serverVars
  <2>3. QED
    BY <1>3, <2>1, <2>2 DEF DisposeStep
<1>4. CASE NetworkStep
  <2>1. CASE UNCHANGED <<clientVars, serverVars>>
    BY <1>1, <2>1 DEF clientVars, serverVars
  <2>2. ASSUME NEW s \in Sockets, ConnectionLost(s)
        PROVE  Contract!Next \/ UNCHANGED <<Caller, handler>>
    <3>1. CASE Errored /\ handler' = handler
      BY <3>1, ErroredMapped DEF Contract!Next
    <3>2. CASE UNCHANGED <<clientVars, handler>>
      BY <1>1, <3>2 DEF clientVars
    <3>3. QED
      BY <2>2, <3>1, <3>2 DEF ConnectionLost, serverVars
  <2>3. ASSUME NEW s \in Sockets, ClientReceives(s)
        PROVE  Contract!Next \/ UNCHANGED <<Caller, handler>>
    BY <2>3, ReceiveMapped DEF Contract!Next
  <2>4. ASSUME NEW s \in Sockets, ServerReceives(s)
        PROVE  Contract!Next \/ UNCHANGED <<Caller, handler>>
    BY <2>4, StartMapped DEF Contract!Next
  <2>5. ASSUME NEW s \in Sockets, ConnectionOpens(s) \/ ServerConnectionLost(s)
        PROVE  Contract!Next \/ UNCHANGED <<Caller, handler>>
    BY <1>1, <2>5 DEF ConnectionOpens, ServerConnectionLost, clientVars, serverVars
  <2>6. QED
    BY <1>4, <2>1, <2>2, <2>3, <2>4, <2>5 DEF NetworkStep
<1>5. CASE HandlerStep
  <2>1. PICK c \in Calls : \/ RpcHandlerSettles(c) \/ ServerChannelSend(c)
                           \/ ChannelHandlerReturns(c) \/ ChannelHandlerThrows(c)
    BY <1>5 DEF HandlerStep
  <2>2. CASE ServerChannelSend(c)
    BY <1>1, <2>2 DEF ServerChannelSend, clientVars
  <2>3. CASE RpcHandlerSettles(c) \/ ChannelHandlerReturns(c) \/ ChannelHandlerThrows(c)
    BY <2>3, SettleMapped DEF Contract!Next
  <2>4. QED
    BY <2>1, <2>2, <2>3
<1>6. CASE UNCHANGED vars
  BY <1>1, <1>6 DEF vars, clientVars, serverVars
<1>7. QED
  BY <1>2, <1>3, <1>4, <1>5, <1>6 DEF Next

(* The ports implement the contract of a call: whatever happens to the     *)
(* connections, a handler runs at most once, a call succeeds only after    *)
(* its own handler returned, and an outcome is final (callRpc,             *)
(* createChannel, receivedRpcCall, receivedChannelCreate).                 *)
THEOREM KeepsContractHolds == Spec => KeepsContract
<1>1. Init => Contract!Init
  BY DEF Init, Contract!Init, Caller, Calls
<1>2. TypeOK /\ ContractInv /\ [Next]_vars => [Contract!Next]_<<Caller, handler>>
  BY StepMapped
<1>3. QED
  BY <1>1, <1>2, TypeOKHolds, ContractInvHolds, PTL DEF Spec, KeepsContract, Contract!Spec

-----------------------------------------------------------------------------
(* Each side of a channel receives a prefix of what the other side sent.   *)

(* The packets of c in the sequence q are the next ones of a receiver that *)
(* has n of them: each comes once, after the one before it.                *)
Follow(q, c, n) ==
    /\ \A i \in 1..Len(q) : IsPacket(q[i], c) =>
         \/ q[i].packet = n
         \/ \E j \in 1..Len(q) : j < i /\ IsPacket(q[j], c) /\ q[j].packet = q[i].packet - 1
    /\ \A i, j \in 1..Len(q) :
         IsPacket(q[i], c) /\ IsPacket(q[j], c) /\ q[i].packet = q[j].packet => i = j

(* None of the first total packets of c is missing behind q. *)
Reach(q, c, n, total) ==
    total = n \/ \E i \in 1..Len(q) : IsPacket(q[i], c) /\ q[i].packet = total - 1

(* Messages whose packets are numbered. *)
Numbered(S) == \A m \in S : m.type = "channelSend" => m.packet \in Int

(* The packets of c in q are below total. *)
Below(q, c, total) == \A i \in 1..Len(q) : IsPacket(q[i], c) => q[i].packet < total

(* The call c is itself in q. *)
Announces(q, c) == \E i \in 1..Len(q) : IsCall(q[i]) /\ q[i].id = c

(* What c sends comes after it. *)
CallFirst(q, c) ==
    \A i, j \in 1..Len(q) : IsCall(q[i]) /\ q[i].id = c /\ IsPacket(q[j], c) => i < j

-----------------------------------------------------------------------------
(* Packets in order, as messages come to and leave a wire.                 *)

LEMMA FollowNone ==
    ASSUME NEW q, NEW c, NEW n, \A i \in 1..Len(q) : ~IsPacket(q[i], c)
    PROVE  Follow(q, c, n) /\ Reach(q, c, n, n)
  BY DEF Follow, Reach

LEMMA FollowAppendOther ==
    ASSUME NEW S, NEW q \in Seq(S), NEW m \in S, NEW c, NEW n, ~IsPacket(m, c),
           Follow(q, c, n)
    PROVE  /\ Follow(Append(q, m), c, n)
           /\ \A total : Reach(q, c, n, total) => Reach(Append(q, m), c, n, total)
<1>1. /\ Len(q) \in Nat /\ Len(Append(q, m)) = Len(q) + 1
      /\ \A i \in 1..Len(q) : i \in 1..Len(Append(q, m)) /\ Append(q, m)[i] = q[i]
      /\ Append(q, m)[Len(q) + 1] = m
  BY AppendPoints
<1> DEFINE r == Append(q, m)
<1>2. \A i \in 1..Len(r) : IsPacket(r[i], c) => i \in 1..Len(q) /\ r[i] = q[i]
  BY <1>1
<1>3. \A i \in 1..Len(q) : i \in 1..Len(r) /\ r[i] = q[i]
  BY <1>1
<1> HIDE DEF r
<1>4. Follow(r, c, n)
  BY <1>2, <1>3 DEF Follow
<1>5. \A total : Reach(q, c, n, total) => Reach(r, c, n, total)
  BY <1>3 DEF Reach
<1>6. QED
  BY <1>4, <1>5 DEF r

LEMMA FollowAppend ==
    ASSUME NEW S, Numbered(S), NEW q \in Seq(S), NEW m \in S, NEW c, NEW n, IsPacket(m, c),
           Follow(q, c, n), Reach(q, c, n, m.packet),
           \A i \in 1..Len(q) : IsPacket(q[i], c) => q[i].packet < m.packet
    PROVE  Follow(Append(q, m), c, n) /\ Reach(Append(q, m), c, n, m.packet + 1)
<1>1. /\ Len(q) \in Nat /\ Len(Append(q, m)) = Len(q) + 1
      /\ \A i \in 1..Len(q) : Append(q, m)[i] = q[i] /\ q[i] \in S
      /\ Append(q, m)[Len(q) + 1] = m
  BY AppendPoints
<1>2. m.packet \in Int /\ \A i \in 1..Len(q) : IsPacket(q[i], c) => q[i].packet \in Int
  BY <1>1 DEF Numbered, IsPacket
<1> DEFINE r == Append(q, m)
           k == Len(q) + 1
<1>3. /\ \A i \in 1..Len(r) : i = k \/ i \in 1..Len(q)
      /\ \A i \in 1..Len(q) : i \in 1..Len(r) /\ r[i] = q[i] /\ i < k
      /\ k \in 1..Len(r) /\ r[k] = m
  BY <1>1
<1> HIDE DEF r, k
<1>4. ASSUME NEW i \in 1..Len(r), IsPacket(r[i], c)
      PROVE  \/ r[i].packet = n
             \/ \E j \in 1..Len(r) : j < i /\ IsPacket(r[j], c) /\ r[j].packet = r[i].packet - 1
  <2>1. CASE i = k
    BY <1>3, <2>1 DEF Reach
  <2>2. CASE i \in 1..Len(q)
    BY <1>3, <1>4, <2>2 DEF Follow
  <2>3. QED
    BY <1>2, <1>3, <2>1, <2>2
<1>5. ASSUME NEW i \in 1..Len(r), NEW j \in 1..Len(r),
             IsPacket(r[i], c), IsPacket(r[j], c), r[i].packet = r[j].packet
      PROVE  i = j
  <2>1. CASE i \in 1..Len(q) /\ j \in 1..Len(q)
    BY <1>3, <1>5, <2>1 DEF Follow
  <2>2. CASE i = k /\ j = k
    BY <2>2
  <2>3. CASE i = k /\ j \in 1..Len(q)
    <3>1. q[j].packet < m.packet /\ q[j].packet = m.packet
      BY <1>3, <1>5, <2>3
    <3>2. QED
      BY <1>2, <3>1
  <2>4. CASE i \in 1..Len(q) /\ j = k
    <3>1. q[i].packet < m.packet /\ q[i].packet = m.packet
      BY <1>3, <1>5, <2>4
    <3>2. QED
      BY <1>2, <3>1
  <2>5. QED
    BY <1>3, <2>1, <2>2, <2>3, <2>4
<1>6. Reach(r, c, n, m.packet + 1)
  <2>1. m.packet = (m.packet + 1) - 1
    BY <1>2
  <2>2. QED
    BY <1>3, <2>1 DEF Reach
<1>7. QED
  BY <1>4, <1>5, <1>6 DEF Follow, r

LEMMA FollowTailOther ==
    ASSUME NEW S, NEW q \in Seq(S), q # <<>>, NEW c, NEW n, ~IsPacket(q[1], c),
           Follow(q, c, n)
    PROVE  /\ Follow(Tail(q), c, n)
           /\ \A total : Reach(q, c, n, total) => Reach(Tail(q), c, n, total)
<1> DEFINE r == Tail(q)
<1>1. /\ Len(q) \in Nat /\ Len(q) >= 1 /\ Len(r) = Len(q) - 1
      /\ \A i \in 1..Len(r) : i + 1 \in 1..Len(q) /\ r[i] = q[i + 1]
  BY TailPoints
<1> HIDE DEF r
<1>2. \A j \in 1..Len(q) : IsPacket(q[j], c) =>
         j - 1 \in 1..Len(r) /\ r[j - 1] = q[j]
  <2>1. ASSUME NEW j \in 1..Len(q), IsPacket(q[j], c) PROVE j - 1 \in 1..Len(r) /\ r[j - 1] = q[j]
    <3>1. j # 1 /\ j \in Int
      BY <1>1, <2>1
    <3>2. j - 1 \in 1..Len(r) /\ (j - 1) + 1 = j
      BY <1>1, <3>1
    <3>3. QED
      BY <1>1, <3>2
  <2>2. QED
    BY <2>1
<1>3. ASSUME NEW i \in 1..Len(r), IsPacket(r[i], c)
      PROVE  \/ r[i].packet = n
             \/ \E j \in 1..Len(r) : j < i /\ IsPacket(r[j], c) /\ r[j].packet = r[i].packet - 1
  <2>1. i \in Int /\ i + 1 \in 1..Len(q) /\ r[i] = q[i + 1]
    BY <1>1
  <2>2. CASE q[i + 1].packet = n
    BY <2>1, <2>2
  <2>3. ASSUME NEW j \in 1..Len(q), j < i + 1, IsPacket(q[j], c), q[j].packet = q[i + 1].packet - 1
        PROVE  \E h \in 1..Len(r) : h < i /\ IsPacket(r[h], c) /\ r[h].packet = r[i].packet - 1
    <3>1. j - 1 \in 1..Len(r) /\ r[j - 1] = q[j]
      BY <1>2, <2>3
    <3>2. j - 1 < i
      BY <1>1, <2>1, <2>3
    <3>3. QED
      BY <2>1, <2>3, <3>1, <3>2
  <2>4. QED
    BY <1>3, <2>1, <2>2, <2>3 DEF Follow
<1>4. ASSUME NEW i \in 1..Len(r), NEW j \in 1..Len(r),
             IsPacket(r[i], c), IsPacket(r[j], c), r[i].packet = r[j].packet
      PROVE  i = j
  <2>0. /\ i \in Int /\ i + 1 \in 1..Len(q) /\ r[i] = q[i + 1]
        /\ j \in Int /\ j + 1 \in 1..Len(q) /\ r[j] = q[j + 1]
    BY <1>1
  <2>1. i + 1 = j + 1 /\ i \in Int /\ j \in Int
    BY <1>4, <2>0 DEF Follow
  <2>2. QED
    BY <2>1
<1>5. \A total : Reach(q, c, n, total) => Reach(r, c, n, total)
  BY <1>2 DEF Reach
<1>6. QED
  BY <1>3, <1>4, <1>5 DEF Follow, r

LEMMA FollowTail ==
    ASSUME NEW S, Numbered(S), NEW q \in Seq(S), q # <<>>, NEW c, NEW n \in Int,
           IsPacket(q[1], c), Follow(q, c, n)
    PROVE  /\ q[1].packet = n
           /\ Follow(Tail(q), c, n + 1)
           /\ \A total \in Int : n < total /\ Reach(q, c, n, total)
                                    => Reach(Tail(q), c, n + 1, total)
<1> DEFINE r == Tail(q)
<1>1. /\ Len(q) \in Nat /\ Len(q) >= 1 /\ Len(r) = Len(q) - 1
      /\ \A i \in 1..Len(r) : i + 1 \in 1..Len(q) /\ r[i] = q[i + 1]
      /\ \A i \in 1..Len(q) : q[i] \in S
  BY TailPoints
<1> HIDE DEF r
<1>2. q[1].packet = n
  <2>1. 1 \in 1..Len(q) /\ ~ \E j \in 1..Len(q) : j < 1
    BY <1>1
  <2>2. QED
    BY <2>1 DEF Follow
<1>3. \A i \in 1..Len(q) : IsPacket(q[i], c) => q[i].packet \in Int
  BY <1>1 DEF Numbered, IsPacket
<1>4. \A j \in 1..Len(q) : j # 1 => j \in Int /\ j - 1 \in 1..Len(r) /\ r[j - 1] = q[j]
  <2>1. ASSUME NEW j \in 1..Len(q), j # 1 PROVE j \in Int /\ j - 1 \in 1..Len(r) /\ r[j - 1] = q[j]
    <3>1. j \in Int /\ j - 1 \in 1..Len(r) /\ (j - 1) + 1 = j
      BY <1>1, <2>1
    <3>2. QED
      BY <1>1, <3>1
  <2>2. QED
    BY <2>1
<1>5. ASSUME NEW i \in 1..Len(r), IsPacket(r[i], c)
      PROVE  \/ r[i].packet = n + 1
             \/ \E j \in 1..Len(r) : j < i /\ IsPacket(r[j], c) /\ r[j].packet = r[i].packet - 1
  <2>1. i \in Int /\ i + 1 \in 1..Len(q) /\ r[i] = q[i + 1] /\ i + 1 # 1
    BY <1>1
  <2>2. q[i + 1].packet # n
    <3>1. 1 \in 1..Len(q)
      BY <1>1
    <3>2. QED
      BY <1>2, <1>5, <2>1, <3>1 DEF Follow
  <2>3. PICK j \in 1..Len(q) : j < i + 1 /\ IsPacket(q[j], c) /\ q[j].packet = q[i + 1].packet - 1
    BY <1>5, <2>1, <2>2 DEF Follow
  <2>4. CASE j = 1
    BY <1>2, <1>3, <1>5, <2>1, <2>3, <2>4
  <2>5. CASE j # 1
    <3>1. j - 1 \in 1..Len(r) /\ r[j - 1] = q[j] /\ j - 1 < i
      BY <1>4, <2>1, <2>3, <2>5
    <3>2. QED
      BY <2>1, <2>3, <3>1
  <2>6. QED
    BY <2>4, <2>5
<1>6. ASSUME NEW i \in 1..Len(r), NEW j \in 1..Len(r),
             IsPacket(r[i], c), IsPacket(r[j], c), r[i].packet = r[j].packet
      PROVE  i = j
  <2>0. /\ i \in Int /\ i + 1 \in 1..Len(q) /\ r[i] = q[i + 1]
        /\ j \in Int /\ j + 1 \in 1..Len(q) /\ r[j] = q[j + 1]
    BY <1>1
  <2>1. i + 1 = j + 1 /\ i \in Int /\ j \in Int
    BY <1>6, <2>0 DEF Follow
  <2>2. QED
    BY <2>1
<1>7. ASSUME NEW total \in Int, n < total, Reach(q, c, n, total)
      PROVE  Reach(r, c, n + 1, total)
  <2>1. PICK i \in 1..Len(q) : IsPacket(q[i], c) /\ q[i].packet = total - 1
    BY <1>7 DEF Reach
  <2>2. CASE i = 1
    BY <1>2, <2>1, <2>2 DEF Reach
  <2>3. CASE i # 1
    BY <1>4, <2>1, <2>3 DEF Reach
  <2>4. QED
    BY <2>2, <2>3
<1>8. QED
  BY <1>2, <1>5, <1>6, <1>7 DEF Follow, r

LEMMA AppendLine ==
    ASSUME NEW S, NEW q \in Seq(S), NEW m \in S, NEW c
    PROVE  /\ \A t : Below(q, c, t) /\ (IsPacket(m, c) => m.packet < t) => Below(Append(q, m), c, t)
           /\ Announces(Append(q, m), c) => Announces(q, c) \/ (IsCall(m) /\ m.id = c)
           /\ CallFirst(q, c) /\ ~(IsCall(m) /\ m.id = c) => CallFirst(Append(q, m), c)
<1> DEFINE r == Append(q, m)
           k == Len(q) + 1
<1>1. /\ \A i \in 1..Len(r) : i \in 1..Len(q) \/ i = k
      /\ \A i \in 1..Len(q) : r[i] = q[i] /\ i < k
      /\ r[k] = m
  <2>1. /\ Len(q) \in Nat /\ Len(r) = Len(q) + 1
        /\ \A i \in 1..Len(q) : r[i] = q[i]
        /\ r[Len(q) + 1] = m
    BY AppendPoints
  <2>2. QED
    BY <2>1
<1> HIDE DEF r, k
<1>2. QED
  BY <1>1 DEF Below, Announces, CallFirst, r

LEMMA TailLine ==
    ASSUME NEW S, NEW q \in Seq(S), q # <<>>, NEW c
    PROVE  /\ \A t : Below(q, c, t) => Below(Tail(q), c, t)
           /\ Announces(Tail(q), c) => Announces(q, c)
           /\ CallFirst(q, c) => CallFirst(Tail(q), c)
           /\ CallFirst(q, c) /\ IsPacket(q[1], c) => ~Announces(q, c)
<1> DEFINE r == Tail(q)
<1>1. /\ 1 \in 1..Len(q) /\ \A i \in 1..Len(q) : ~(i < 1)
      /\ \A i \in 1..Len(r) : i + 1 \in 1..Len(q) /\ r[i] = q[i + 1]
      /\ \A i, j \in 1..Len(r) : i + 1 < j + 1 => i < j
  BY TailPoints
<1> HIDE DEF r
<1>2. QED
  BY <1>1 DEF Below, Announces, CallFirst, r

LEMMA EmptyLine ==
    ASSUME NEW c, NEW t
    PROVE  Below(<<>>, c, t) /\ ~Announces(<<>>, c) /\ CallFirst(<<>>, c)
  BY DEF Below, Announces, CallFirst

(* A line on which nothing of c is below 0. *)
LEMMA NothingBelow ==
    ASSUME NEW q, NEW c, Below(q, c, 0),
           \A i \in 1..Len(q) : IsPacket(q[i], c) => q[i].packet \in Nat
    PROVE  \A i \in 1..Len(q) : ~IsPacket(q[i], c)
  BY DEF Below

-----------------------------------------------------------------------------
(* Packets on their way to the server.                                     *)

(* The server takes what c sends over l, or will once it took the call.    *)
Accepts(c, l) == Announces(Wire[l], c) \/ Listening(c, l)

(* On a wire, what c sends follows the call; where the server accepts it,  *)
(* it follows what the server has, and on the wire in use nothing misses.  *)
UpWire(c, l) ==
    /\ Below(Wire[l], c, sent[c])
    /\ CallFirst(Wire[l], c)
    /\ Accepts(c, l) =>
         /\ Follow(Wire[l], c, Len(serverReceived[c]))
         /\ l = Current => Reach(Wire[l], c, Len(serverReceived[c]), sent[c])

UpCall(c) ==
    /\ c >= nextChannelId => sent[c] = 0
    /\ Len(serverReceived[c]) <= sent[c]
    /\ \A i \in 1..Len(serverReceived[c]) : serverReceived[c][i] = i - 1

UpInv == \A c \in Calls : UpCall(c) /\ \A l \in Places : UpWire(c, l)

-----------------------------------------------------------------------------
(* Packets on their way to the client.                                     *)

DownWire(c, s) ==
    /\ Below(down[s], c, serverSent[c])
    /\ \A i \in 1..Len(down[s]) : IsPacket(down[s][i], c) => home[c] = s

(* An open channel is known to no connection but the current one. *)
OpenCall(c) ==
    c \in openChannels => Deaf \/
        /\ \A l \in Places : Announces(Wire[l], c) => l = Current
        /\ home[c] # 0 => home[c] = Current

(* What comes on the connection in use follows what the channel has, and   *)
(* as long as the server holds the connection nothing misses.              *)
DownFollows(c) ==
    status = "Connected" /\ c \in openChannels =>
         /\ Follow(down[ws], c, Len(received[c]))
         /\ server[ws] = "open" => Reach(down[ws], c, Len(received[c]), serverSent[c])

ReceivedPrefix(c) ==
    /\ Len(received[c]) <= serverSent[c]
    /\ \A i \in 1..Len(received[c]) : received[c][i] = i - 1

DownInv ==
    \A c \in Calls : /\ OpenCall(c) /\ DownFollows(c) /\ ReceivedPrefix(c)
                     /\ \A s \in Sockets : DownWire(c, s)

-----------------------------------------------------------------------------
(* The packets to the server, step by step.                                *)

LEMMA UpPackets ==
    ASSUME TypeOK, NEW l \in Places
    PROVE  /\ Numbered(UpMsg) /\ Wire[l] \in Seq(UpMsg)
           /\ \A i \in 1..Len(Wire[l]) : /\ Wire[l][i] \in UpMsg
                                         /\ Wire[l][i].type = "channelSend" =>
                                              Wire[l][i].packet \in Nat
<1>1. Wire[l] \in Seq(UpMsg)
  BY WireType
<1>2. \A i \in 1..Len(Wire[l]) : Wire[l][i] \in UpMsg
  BY <1>1
<1>3. QED
  BY <1>1, <1>2, UpMsgParts DEF Numbered, IsPacket

(* What the server knows of a call. *)
LEMMA ServerKnows ==
    ASSUME TypeOK, ContractInv, NEW c \in Calls, NEW l \in Places
    PROVE  /\ Announces(Wire[l], c) => handler[c] = "none"
           /\ Listening(c, l) => l \in Sockets /\ server[l] = "open" /\ handler[c] # "none"
           /\ server[l] # "open" /\ l \in Sockets => ~Accepts(c, l)
           /\ c >= nextChannelId \/ handler[c] = "none"
                => serverReceived[c] = <<>> /\ serverSent[c] = 0
           /\ handler[c] = "none" <=> home[c] = 0
           /\ home[c] # 0 => home[c] \in Sockets /\ c < nextChannelId
<1>1. HandlerAgrees(c)
  BY DEF ContractInv, HandlersAgree
<1>2. Announces(Wire[l], c) => handler[c] = "none"
  BY DEF ContractInv, CallsOnce, Announces
<1>3. Listening(c, l) => l \in Sockets /\ server[l] = "open" /\ handler[c] # "none"
  BY <1>1 DEF Listening, HandlerAgrees
<1>4. server[l] # "open" /\ l \in Sockets => ~Accepts(c, l)
  <2>1. server[l] # "open" /\ l \in Sockets => Wire[l] = <<>>
    BY WireType DEF ContractInv, WiresFollowSockets, Wire
  <2>2. QED
    BY <1>3, <2>1, EmptyLine DEF Accepts
<1>5. c >= nextChannelId => handler[c] = "none"
  BY <1>1, PortCallsAssumption DEF HandlerAgrees, Calls, TypeOK, ClientTypeOK
<1>6. handler[c] = "none" <=> home[c] = 0
  BY <1>1, WireType DEF HandlerAgrees
<1>7. QED
  BY <1>1, <1>2, <1>3, <1>4, <1>5, <1>6 DEF HandlerAgrees

LEMMA SendKeepsUp ==
    ASSUME TypeOK, ContractInv, UpInv, SendStep, NEW c \in Calls
    PROVE  UpCall(c)' /\ \A l \in Places : UpWire(c, l)'
<1>1. PICK msg \in UpMsg :
              /\ Transmit(msg) \/ TransmitThrows(msg)
              /\ UNCHANGED <<server, down, serverVars, received>>
              /\ \/ /\ IsCall(msg) /\ msg.id = nextChannelId /\ nextChannelId' = nextChannelId + 1
                    /\ nextChannelId \in Calls /\ sent' = sent
                 \/ /\ IsPacket(msg, msg.id) /\ msg.id \in Calls /\ channel[msg.id] # "none"
                    /\ msg.packet = sent[msg.id] /\ nextChannelId' = nextChannelId
                    /\ sent' = [sent EXCEPT ![msg.id] = @ + 1]
                    /\ openChannels' = openChannels
  BY SentMessage
<1>2. /\ sent \in [Calls -> Nat] /\ nextChannelId \in Int /\ c \in Int
      /\ serverReceived \in [Calls -> Seq(Packets)] /\ Len(serverReceived[c]) \in Nat
  BY PortCallsAssumption DEF TypeOK, ClientTypeOK, ServerTypeOK, Calls
<1>3. UpCall(c) /\ \A l \in Places : UpWire(c, l)
  BY DEF UpInv
<1>4. /\ serverReceived' = serverReceived
      /\ \A l \in Places : Listening(c, l)' <=> Listening(c, l)
  BY <1>1 DEF serverVars, Listening
<1>5. /\ Current' = Current
      /\ \A l \in Places : \/ Wire'[l] = Wire[l]
                           \/ l = Current /\ Wire'[l] = Append(Wire[l], msg)
      /\ \/ Wire'[Current] = Append(Wire[Current], msg)
         \/ Current \in Sockets /\ server[Current] # "open"
  BY <1>1, SendWire DEF ContractInv
<1>6. CASE /\ IsCall(msg) /\ msg.id = nextChannelId /\ nextChannelId' = nextChannelId + 1
           /\ nextChannelId \in Calls /\ sent' = sent
  <2>1. UpCall(c)'
    <3>1. c >= nextChannelId' => c >= nextChannelId
      BY <1>2, <1>6
    <3>2. QED
      BY <1>3, <1>4, <1>6, <3>1 DEF UpCall
  <2>2. ~IsPacket(msg, c)
    BY <1>6 DEF IsCall, IsPacket
  <2>3. ASSUME NEW l \in Places, Wire'[l] = Wire[l] PROVE UpWire(c, l)'
    BY <1>3, <1>4, <1>5, <1>6, <2>3 DEF UpWire, Accepts
  <2>4. ASSUME NEW l \in Places, Wire'[l] = Append(Wire[l], msg) PROVE UpWire(c, l)'
    <3>0. Wire[l] \in Seq(UpMsg)
      BY UpPackets
    <3>1. /\ Below(Wire'[l], c, sent'[c])
          /\ Announces(Wire'[l], c) => Announces(Wire[l], c) \/ msg.id = c
          /\ msg.id # c => CallFirst(Wire'[l], c)
      BY <1>3, <1>6, <2>2, <2>4, <3>0, AppendLine DEF UpWire
    <3>2. CASE msg.id # c
      <4>1. Follow(Wire[l], c, Len(serverReceived[c])) =>
               /\ Follow(Wire'[l], c, Len(serverReceived[c]))
               /\ \A total : Reach(Wire[l], c, Len(serverReceived[c]), total)
                    => Reach(Wire'[l], c, Len(serverReceived[c]), total)
        BY <2>2, <2>4, <3>0, FollowAppendOther
      <4>2. QED
        BY <1>3, <1>4, <1>5, <1>6, <3>1, <3>2, <4>1 DEF UpWire, Accepts
    <3>3. CASE msg.id = c
      <4>1. c >= nextChannelId
        BY <1>2, <1>6, <3>3
      <4>2. sent[c] = 0 /\ serverReceived[c] = <<>>
        BY <1>3, <4>1, ServerKnows, WireType DEF UpCall
      <4>3. \A i \in 1..Len(Wire'[l]) : ~IsPacket(Wire'[l][i], c)
        <5>1. Wire'[l] \in Seq(UpMsg)
          BY <2>4, <3>0
        <5>2. \A i \in 1..Len(Wire'[l]) : IsPacket(Wire'[l][i], c) => Wire'[l][i].packet \in Nat
          BY <5>1, UpMsgParts DEF IsPacket
        <5>3. QED
          BY <1>6, <3>1, <4>2, <5>2, NothingBelow
      <4>4. Follow(Wire'[l], c, 0) /\ Reach(Wire'[l], c, 0, 0)
        BY <4>3, FollowNone
      <4>5. Len(serverReceived[c]) = 0
        BY <4>2
      <4>6. QED
        BY <1>4, <1>6, <3>1, <4>2, <4>3, <4>4, <4>5 DEF UpWire, CallFirst
    <3>4. QED
      BY <3>2, <3>3
  <2>5. QED
    BY <1>5, <2>1, <2>3, <2>4
<1>7. CASE /\ IsPacket(msg, msg.id) /\ msg.id \in Calls /\ channel[msg.id] # "none"
           /\ msg.packet = sent[msg.id] /\ nextChannelId' = nextChannelId
           /\ sent' = [sent EXCEPT ![msg.id] = @ + 1]
  <2>0. ~IsCall(msg) /\ (IsPacket(msg, c) <=> msg.id = c)
    BY <1>7 DEF IsCall, IsPacket
  <2>1. /\ sent'[c] = IF msg.id = c THEN sent[c] + 1 ELSE sent[c]
        /\ msg.id = c => c < nextChannelId
    BY <1>2, <1>7 DEF ContractInv, RegistriesAgree
  <2>2. UpCall(c)'
    BY <1>2, <1>3, <1>4, <1>7, <2>1 DEF UpCall
  <2>b. ASSUME NEW q, Below(q, c, sent[c]),
               \A i \in 1..Len(q) : q[i].type = "channelSend" => q[i].packet \in Nat
        PROVE  Below(q, c, sent'[c])
    BY <1>2, <2>1, <2>b DEF Below, IsPacket
  <2>3. ASSUME NEW l \in Places, Wire'[l] = Wire[l] PROVE UpWire(c, l)'
    <3>1. Below(Wire'[l], c, sent'[c])
      BY <1>3, <2>3, <2>b, UpPackets DEF UpWire
    <3>2. l = Current /\ msg.id = c => ~Accepts(c, l)
      <4>1. l = Current => server[l] # "open" /\ l \in Sockets
        <5>1. Wire[l] # Append(Wire[l], msg)
          <6>1. Wire[l] \in Seq(UpMsg)
            BY UpPackets
          <6>2. Len(Wire[l]) \in Nat /\ Len(Append(Wire[l], msg)) = Len(Wire[l]) + 1
            BY <6>1, AppendPoints
          <6>3. QED
            BY <6>2
        <5>2. QED
          BY <1>5, <2>3, <5>1
      <4>2. QED
        BY <4>1, ServerKnows
    <3>3. QED
      BY <1>3, <1>4, <1>5, <2>1, <2>3, <3>1, <3>2 DEF UpWire, Accepts
  <2>4. ASSUME NEW l \in Places, l = Current, Wire'[l] = Append(Wire[l], msg) PROVE UpWire(c, l)'
    <3>0. Wire[l] \in Seq(UpMsg) /\ Below(Wire[l], c, sent[c]) /\ Numbered(UpMsg)
      BY <1>3, UpPackets DEF UpWire
    <3>1. /\ Below(Wire'[l], c, sent'[c])
          /\ Announces(Wire'[l], c) => Announces(Wire[l], c)
          /\ CallFirst(Wire'[l], c)
      <4>1. Below(Wire[l], c, sent'[c])
        BY <2>b, <3>0, UpPackets
      <4>2. IsPacket(msg, c) => msg.packet < sent'[c]
        BY <1>2, <1>7, <2>0, <2>1
      <4>3. QED
        BY <1>3, <2>0, <2>4, <3>0, <4>1, <4>2, AppendLine DEF UpWire
    <3>2. CASE msg.id # c
      <4>1. Follow(Wire[l], c, Len(serverReceived[c])) =>
               /\ Follow(Wire'[l], c, Len(serverReceived[c]))
               /\ \A total : Reach(Wire[l], c, Len(serverReceived[c]), total)
                    => Reach(Wire'[l], c, Len(serverReceived[c]), total)
        BY <2>0, <2>4, <3>0, <3>2, FollowAppendOther
      <4>2. QED
        BY <1>3, <1>4, <1>5, <2>1, <3>1, <3>2, <4>1 DEF UpWire, Accepts
    <3>3. CASE msg.id = c
      <4>1. /\ Follow(Wire[l], c, Len(serverReceived[c]))
            /\ Reach(Wire[l], c, Len(serverReceived[c]), sent[c])
            => /\ Follow(Wire'[l], c, Len(serverReceived[c]))
               /\ Reach(Wire'[l], c, Len(serverReceived[c]), sent[c] + 1)
        <5>1. IsPacket(msg, c) /\ msg.packet = sent[c]
          BY <1>7, <2>0, <3>3
        <5>2. \A i \in 1..Len(Wire[l]) : IsPacket(Wire[l][i], c) => Wire[l][i].packet < msg.packet
          BY <3>0, <5>1 DEF Below
        <5>3. QED
          BY <2>4, <3>0, <5>1, <5>2, FollowAppend
      <4>2. QED
        BY <1>3, <1>4, <1>5, <2>1, <2>4, <3>1, <3>3, <4>1 DEF UpWire, Accepts
    <3>4. QED
      BY <3>2, <3>3
  <2>5. QED
    BY <1>5, <2>2, <2>3, <2>4
<1>8. QED
  BY <1>1, <1>6, <1>7

LEMMA FlushKeepsUp ==
    ASSUME TypeOK, ContractInv, UpInv, NEW s \in Sockets, ConnectionOpens(s), NEW c \in Calls
    PROVE  UpCall(c)' /\ \A l \in Places : UpWire(c, l)'
<1>1. /\ s \in Places /\ s # 0 /\ Current = 0 /\ Current' = s
      /\ Wire[s] = <<>> /\ Wire'[s] = Wire[0] /\ Wire'[0] = <<>>
      /\ \A l \in Places \ {0, s} : Wire'[l] = Wire[l]
  BY FlushWire DEF ContractInv
<1>2. UpCall(c) /\ \A l \in Places : UpWire(c, l)
  BY DEF UpInv
<1>3. /\ UNCHANGED <<nextChannelId, sent, serverReceived>>
      /\ \A l \in Places : Listening(c, l)' <=> Listening(c, l)
  BY DEF ConnectionOpens, clientVars, serverVars, Listening
<1>4. ~Listening(c, s) /\ ~Listening(c, 0) /\ 0 \in Places
  <2>1. server[s] = "none"
    BY OpeningSocket DEF ConnectionOpens, OnWsOpen, ContractInv
  <2>2. QED
    BY <1>1, <2>1, ServerKnows, WireType
<1>5. UpCall(c)'
  BY <1>2, <1>3 DEF UpCall
<1>6. UpWire(c, s)'
  BY <1>1, <1>2, <1>3, <1>4 DEF UpWire, Accepts
<1>7. UpWire(c, 0)'
  BY <1>1, <1>3, <1>4, EmptyLine DEF UpWire, Accepts
<1>8. ASSUME NEW l \in Places \ {0, s} PROVE UpWire(c, l)'
  BY <1>1, <1>2, <1>3 DEF UpWire, Accepts
<1>9. QED
  BY <1>5, <1>6, <1>7, <1>8

LEMMA ClearKeepsUp ==
    ASSUME TypeOK, ContractInv, UpInv, NEW s \in Sockets, ServerConnectionLost(s), NEW c \in Calls
    PROVE  UpCall(c)' /\ \A l \in Places : UpWire(c, l)'
<1>1. /\ s \in Places /\ Wire'[s] = <<>>
      /\ \A l \in Places \ {s} : Wire'[l] = Wire[l]
      /\ Current' = Current
  BY ClearWire
<1>2. UpCall(c) /\ \A l \in Places : UpWire(c, l)
  BY DEF UpInv
<1>3. /\ UNCHANGED <<nextChannelId, sent, serverReceived, home, handler>>
      /\ serverChannel'[c] = IF Listening(c, s) THEN "Errored" ELSE serverChannel[c]
  BY DEF ServerConnectionLost, ServerOpenChannels, clientVars, Listening
<1>4. ~Listening(c, s)' /\ \A l \in Places : Listening(c, l)' => Listening(c, l)
  BY <1>3 DEF Listening
<1>5. UpCall(c)'
  BY <1>2, <1>3 DEF UpCall
<1>6. UpWire(c, s)'
  BY <1>1, <1>4, EmptyLine DEF UpWire, Accepts
<1>7. ASSUME NEW l \in Places \ {s} PROVE UpWire(c, l)'
  BY <1>1, <1>2, <1>3, <1>4 DEF UpWire, Accepts
<1>8. QED
  BY <1>5, <1>6, <1>7

(* The transport leaves the connection in use only for none, and only when *)
(* it was connected, so that nothing is queued.                            *)
LEMMA OtherCurrent ==
    ASSUME TypeOK, ContractInv, OtherStep
    PROVE  \/ Current' = Current
           \/ Current' = 0 /\ status = "Connected" /\ status' = "Disconnected" /\ Wire[0] = <<>>
<1>1. CASE UNCHANGED <<status, ws>>
  BY <1>1 DEF Current
<1>2. CASE status # "Connected" /\ status' # "Connected"
  BY <1>2 DEF Current
<1>3. CASE status' = "Disconnected"
  <2>1. status = "Connected" => Wire[0] = <<>>
    BY WireType DEF ContractInv, WiresFollowSockets, Wire
  <2>2. QED
    BY <1>3, <2>1 DEF Current
<1>4. CASE UrlSettles
  <2>1. status # "Connected"
    <3>1. created = 0 /\ Sockets \subseteq Nat \ {0}
      BY <1>4 DEF UrlSettles, ContractInv, ConnectionInv, Sockets
    <3>2. QED
      BY <3>1 DEF ContractInv, ConnectionInv, SingleConnection, Sockets
  <2>2. QED
    BY <1>2, <1>4, <2>1 DEF UrlSettles
<1>5. QED
  BY <1>1, <1>2, <1>3, <1>4 DEF OtherStep, EnsureConnectedOrStartConnection, Connect, DisposeStep,
     StartDispose, DisposeWaits, FinishDispose, DisposeCloses, ConnectionLost, SocketErrors,
     SocketCloses, OnWsError, ClientReceives, TakeMessage, HandlerStep, RpcHandlerSettles,
     ServerChannelSend, ChannelHandlerReturns, ChannelHandlerThrows, vars, transportVars,
     connectionVars

LEMMA OtherKeepsServer ==
    ASSUME TypeOK, OtherStep
    PROVE  /\ UNCHANGED <<server, nextChannelId, sent, home, serverReceived>>
           /\ \A c \in Calls : \A l : Listening(c, l)' => Listening(c, l)
<1>1. UNCHANGED <<server, nextChannelId, sent, home, serverReceived>>
  BY DEF OtherStep, EnsureConnectedOrStartConnection, DisposeStep, StartDispose, DisposeWaits,
     FinishDispose, DisposeCloses, UrlSettles, ConnectionLost, SocketErrors, SocketCloses,
     OnWsError, ClientReceives, TakeMessage, HandlerStep, RpcHandlerSettles, ServerChannelSend,
     ChannelHandlerReturns, ChannelHandlerThrows, vars, transportVars, connectionVars, clientVars,
     serverVars, Errored, ReceivedRpcResult, ReceivedChannelSend, ReceivedChannelEnd
<1>2. /\ handler \in [Calls -> {"none", "running", "returned", "threw"}]
      /\ serverChannel \in [Calls -> ChannelStatus]
  BY DEF TypeOK, ServerTypeOK
<1>3. CASE HandlerStep
  <2>1. PICK d \in Calls : \/ RpcHandlerSettles(d) \/ ServerChannelSend(d)
                           \/ ChannelHandlerReturns(d) \/ ChannelHandlerThrows(d)
    BY <1>3 DEF HandlerStep
  <2>2. /\ \/ handler' = handler
           \/ \E end \in {"returned", "threw"} : handler' = [handler EXCEPT ![d] = end]
        /\ \/ serverChannel' = serverChannel
           \/ \E end \in {"Closed", "Errored"} : serverChannel' = [serverChannel EXCEPT ![d] = end]
    BY <2>1 DEF RpcHandlerSettles, ServerChannelSend, ChannelHandlerReturns, ChannelHandlerThrows
  <2>3. QED
    BY <1>1, <1>2, <2>2 DEF Listening
<1>4. CASE UNCHANGED serverVars
  BY <1>1, <1>4 DEF serverVars, Listening
<1>5. QED
  BY <1>1, <1>3, <1>4 DEF OtherStep, DisposeStep, StartDispose, FinishDispose, ConnectionLost,
     ClientReceives, vars

LEMMA OtherKeepsUp ==
    ASSUME TypeOK, ContractInv, UpInv, OtherStep, NEW c \in Calls
    PROVE  UpCall(c)' /\ \A l \in Places : UpWire(c, l)'
<1>1. UpCall(c) /\ \A l \in Places : UpWire(c, l)
  BY DEF UpInv
<1>2. /\ UNCHANGED <<nextChannelId, sent, serverReceived>> /\ Wire' = Wire
      /\ \A l : Listening(c, l)' => Listening(c, l)
  BY OtherKeepsServer, OtherWire
<1>3. UpCall(c)'
  BY <1>1, <1>2 DEF UpCall
<1>4. ASSUME NEW l \in Places PROVE UpWire(c, l)'
  <2>1. CASE Current' = Current
    BY <1>1, <1>2, <2>1 DEF UpWire, Accepts
  <2>2. CASE Current' = 0 /\ Wire[0] = <<>>
    <3>1. ~Listening(c, 0)
      BY ServerKnows, WireType
    <3>2. ~Announces(Wire[0], c)
      BY <2>2, EmptyLine
    <3>3. QED
      BY <1>1, <1>2, <2>2, <3>1, <3>2 DEF UpWire, Accepts
  <2>3. QED
    BY <2>1, <2>2, OtherCurrent
<1>5. QED
  BY <1>3, <1>4

LEMMA TakeKeepsUp ==
    ASSUME TypeOK, ContractInv, UpInv, NEW s \in Sockets, ServerReceives(s), NEW c \in Calls
    PROVE  UpCall(c)' /\ \A l \in Places : UpWire(c, l)'
<1> DEFINE m == Wire[s][1]
           n == Len(serverReceived[c])
<1>0. /\ sent \in [Calls -> Nat] /\ serverReceived \in [Calls -> Seq(Packets)] /\ n \in Nat
      /\ home \in [Calls -> Places]
      /\ handler \in [Calls -> {"none", "running", "returned", "threw"}]
      /\ serverChannel \in [Calls -> ChannelStatus]
  BY PortCallsAssumption DEF TypeOK, ClientTypeOK, ServerTypeOK, Places
<1>1. /\ s \in Places /\ Wire[s] # <<>> /\ Wire'[s] = Tail(Wire[s]) /\ 1 \in 1..Len(Wire[s])
      /\ \A l \in Places \ {s} : Wire'[l] = Wire[l]
      /\ Current' = Current
  BY TakeWire
<1>2. UpCall(c) /\ \A l \in Places : UpWire(c, l)
  BY DEF UpInv
<1>3. UNCHANGED <<nextChannelId, sent>> /\ m \in UpMsg /\ m.id \in Calls
  BY TakenMessage DEF clientVars
<1>4. Wire[s] \in Seq(UpMsg) /\ Numbered(UpMsg)
  BY <1>1, UpPackets
<1>5. /\ Below(Wire'[s], c, sent[c]) /\ CallFirst(Wire'[s], c)
      /\ Announces(Wire'[s], c) => Announces(Wire[s], c)
      /\ IsPacket(m, c) => ~Announces(Wire[s], c)
  BY <1>1, <1>2, <1>4, TailLine DEF UpWire
<1> HIDE DEF m, n
<1>6. CASE ~(IsPacket(m, c) /\ Listening(c, s))
  <2>1. serverReceived'[c] = serverReceived[c]
    <3>1. CASE IsCall(m)
      BY <3>1, TakenCall DEF m
    <3>2. CASE IsPacket(m, m.id)
      BY <1>0, <1>3, <1>6, <3>2, TakenPacket DEF m, IsPacket
    <3>3. QED
      BY <1>3, <3>1, <3>2, UpMsgParts
  <2>2. \A l \in Places : Listening(c, l)' => Accepts(c, l)
    <3>1. CASE IsCall(m) /\ m.id = c
      <4>1. Announces(Wire[s], c) /\ ~(handler[c] = "running")
        BY <1>1, <1>3, <3>1, ServerKnows DEF Announces, m
      <4>2. \A l \in Places : Listening(c, l)' => l = s
        <5>1. UNCHANGED <<handler, home, serverChannel>> \/ home' = [home EXCEPT ![c] = s]
          BY <3>1, TakenCall DEF m
        <5>2. QED
          BY <1>0, <4>1, <5>1 DEF Listening
      <4>3. QED
        BY <4>1, <4>2 DEF Accepts
    <3>2. CASE IsCall(m) /\ m.id # c
      <4>1. \/ UNCHANGED <<handler, home, serverChannel>>
            \/ /\ handler' = [handler EXCEPT ![m.id] = "running"]
               /\ home' = [home EXCEPT ![m.id] = s]
               /\ \/ serverChannel' = serverChannel
                  \/ serverChannel' = [serverChannel EXCEPT ![m.id] = "Connected"]
        BY <3>2, TakenCall DEF m
      <4>2. handler'[c] = handler[c] /\ home'[c] = home[c] /\ serverChannel'[c] = serverChannel[c]
        BY <1>0, <3>2, <4>1
      <4>3. QED
        BY <4>2 DEF Listening, Accepts
    <3>3. CASE IsPacket(m, m.id)
      BY <3>3, TakenPacket DEF Listening, Accepts, m
    <3>4. QED
      BY <1>3, <3>1, <3>2, <3>3, UpMsgParts
  <2>3. UpCall(c)'
    BY <1>2, <1>3, <2>1 DEF UpCall
  <2>4. ASSUME NEW l \in Places, l # s PROVE UpWire(c, l)'
    BY <1>1, <1>2, <1>3, <2>1, <2>2, <2>4 DEF UpWire, Accepts
  <2>5. UpWire(c, s)'
    <3>1. CASE IsPacket(m, c)
      <4>1. ~Accepts(c, s)
        BY <1>5, <1>6, <3>1 DEF Accepts
      <4>2. ~Accepts(c, s)'
        BY <1>1, <1>5, <2>2, <4>1 DEF Accepts
      <4>3. QED
        BY <1>3, <1>5, <4>2 DEF UpWire
    <3>2. CASE ~IsPacket(m, c)
      <4>1. Follow(Wire[s], c, n) =>
               /\ Follow(Wire'[s], c, n)
               /\ \A total : Reach(Wire[s], c, n, total) => Reach(Wire'[s], c, n, total)
        BY <1>1, <1>4, <3>2, FollowTailOther DEF m
      <4>2. Accepts(c, s)' => Accepts(c, s)
        BY <1>1, <1>5, <2>2 DEF Accepts
      <4>3. QED
        BY <1>1, <1>2, <1>3, <1>5, <2>1, <4>1, <4>2 DEF UpWire, n
    <3>3. QED
      BY <3>1, <3>2
  <2>6. QED
    BY <2>3, <2>4, <2>5
<1>7. CASE IsPacket(m, c) /\ Listening(c, s)
  <2>1. /\ UNCHANGED <<handler, home, serverChannel>>
        /\ serverReceived' = [serverReceived EXCEPT ![c] = Append(@, m.packet)]
    BY <1>7, TakenPacket DEF m, IsPacket
  <2>2. \A l \in Places : Listening(c, l)' <=> Listening(c, l)
    BY <2>1 DEF Listening
  <2>3. /\ m.packet = n /\ Follow(Wire'[s], c, n + 1)
        /\ \A total \in Int : n < total /\ Reach(Wire[s], c, n, total)
                                => Reach(Wire'[s], c, n + 1, total)
    <3>1. Follow(Wire[s], c, n)
      BY <1>1, <1>2, <1>7 DEF UpWire, Accepts, n
    <3>2. n \in Int /\ IsPacket(Wire[s][1], c)
      BY <1>0, <1>7 DEF m
    <3>3. QED
      BY <1>1, <1>4, <3>1, <3>2, FollowTail DEF m
  <2>4. n < sent[c]
    BY <1>1, <1>2, <1>7, <2>3 DEF UpWire, Below, m
  <2>5. /\ Len(serverReceived'[c]) = n + 1 /\ serverReceived'[c][n + 1] = n
        /\ \A i \in 1..n : serverReceived'[c][i] = serverReceived[c][i]
    <3>1. serverReceived[c] \in Seq(Packets) /\ m.packet \in Packets
      BY <1>0, <1>3, <1>7, UpMsgParts DEF IsPacket
    <3>2. serverReceived'[c] = Append(serverReceived[c], m.packet)
      BY <1>0, <2>1
    <3>3. QED
      BY <2>3, <3>1, <3>2, AppendPoints DEF n
  <2>6. UpCall(c)'
    <3>1. Len(serverReceived'[c]) <= sent'[c]
      BY <1>0, <1>3, <2>4, <2>5
    <3>2. ASSUME NEW i \in 1..Len(serverReceived'[c])
          PROVE  serverReceived'[c][i] = i - 1
      <4>1. CASE i \in 1..n
        BY <1>2, <2>5, <4>1 DEF UpCall, n
      <4>2. CASE i = n + 1
        BY <1>0, <2>5, <4>2 DEF n
      <4>3. QED
        BY <1>0, <2>5, <4>1, <4>2
    <3>3. QED
      BY <1>2, <1>3, <3>1, <3>2 DEF UpCall
  <2>7. UpWire(c, s)'
    BY <1>0, <1>1, <1>2, <1>3, <1>5, <1>7, <2>3, <2>4, <2>5 DEF UpWire, Accepts, n
  <2>8. ASSUME NEW l \in Places, l # s PROVE UpWire(c, l)'
    <3>1. ~Accepts(c, l)
      BY <1>7, <2>8, ServerKnows DEF Accepts, Listening
    <3>2. QED
      BY <1>1, <1>2, <1>3, <2>2, <2>8, <3>1 DEF UpWire, Accepts
  <2>9. QED
    BY <2>6, <2>7, <2>8
<1>8. QED
  BY <1>6, <1>7

LEMMA NextKeepsUp ==
    ASSUME TypeOK, ContractInv, UpInv, [Next]_vars
    PROVE  UpInv'
<1> SUFFICES ASSUME NEW c \in Calls
             PROVE  UpCall(c)' /\ \A l \in Places : UpWire(c, l)'
  BY DEF UpInv, Places
<1>1. QED
  BY StepsByWire, SendKeepsUp, FlushKeepsUp, ClearKeepsUp, OtherKeepsUp, TakeKeepsUp

-----------------------------------------------------------------------------
(* What the connections know of an open channel.                           *)

(* Only createChannel opens a channel. *)
LEMMA OpenBefore ==
    ASSUME [Next]_vars
    PROVE  openChannels' \subseteq openChannels \cup {nextChannelId}
           /\ (~SendStep => openChannels' \subseteq openChannels)
<1>1. CASE SendStep
  BY <1>1 DEF SendStep, CallRpc, CreateChannel, ChannelSend
<1>2. CASE ~SendStep
  BY <1>2 DEF Next, SendStep, ClientCallStep, DisposeStep, StartDispose, FinishDispose, NetworkStep,
     ConnectionOpens, ConnectionLost, ClientReceives, ServerReceives, ServerConnectionLost,
     HandlerStep, RpcHandlerSettles, ServerChannelSend, ChannelHandlerReturns,
     ChannelHandlerThrows, vars, clientVars, Errored, ReceivedRpcResult, ReceivedChannelSend,
     ReceivedChannelEnd
<1>3. QED
  BY <1>1, <1>2

(* A connection that is lost without a word to the port was the last one.  *)
LEMMA OtherLoss ==
    ASSUME TypeOK, ContractInv, OtherStep, status = "Connected", status' = "Disconnected"
    PROVE  openChannels' = {} \/ Deaf'
<1>1. url = "settled" /\ \A s \in Sockets : client[s] # "opening"
  <2>1. url = "settled"
    BY DEF ContractInv, ConnectionInv, SingleConnection, TypeOK, TransportTypeOK, Sockets
  <2>2. QED
    BY <2>1 DEF ContractInv, ConnectionInv, SingleConnection, Live
<1>2. CASE FinishDispose
  BY <1>2 DEF FinishDispose, Errored
<1>3. ASSUME NEW s \in Sockets, ConnectionLost(s) PROVE openChannels' = {} \/ Deaf'
  <2>1. CASE ReportsError
    BY <1>3, <2>1 DEF ConnectionLost, Errored
  <2>2. CASE disposed
    <3>1. disposed'
      BY <1>3, <2>2, NextStaysDisposed DEF StaysDisposed, Next, NetworkStep
    <3>2. QED
      BY <1>1, <1>3, <3>1 DEF ConnectionLost, SocketErrors, SocketCloses, OnWsError, Deaf
  <2>3. QED
    BY <2>1, <2>2 DEF ReportsError
<1>4. ASSUME ~FinishDispose, ~ \E s \in Sockets : ConnectionLost(s) PROVE FALSE
  BY <1>4 DEF OtherStep, EnsureConnectedOrStartConnection, Connect, DisposeStep, StartDispose,
     DisposeWaits, UrlSettles, ClientReceives, TakeMessage, HandlerStep, RpcHandlerSettles,
     ServerChannelSend, ChannelHandlerReturns, ChannelHandlerThrows, vars, transportVars,
     connectionVars
<1>5. QED
  BY <1>2, <1>3, <1>4

LEMMA NextKeepsOpen ==
    ASSUME TypeOK, ContractInv, [Next]_vars, NEW c \in Calls, OpenCall(c)
    PROVE  OpenCall(c)'
<1> SUFFICES ASSUME c \in openChannels', ~Deaf'
             PROVE  /\ \A l \in Places : Announces(Wire'[l], c) => l = Current'
                    /\ home'[c] # 0 => home'[c] = Current'
  BY DEF OpenCall, Places
<1>1. c \in openChannels =>
         /\ ~Deaf
         /\ \A l \in Places : Announces(Wire[l], c) => l = Current
         /\ home[c] # 0 => home[c] = Current
  BY DeafStays, NextStaysDisposed, NextIsTransportStep DEF OpenCall
<1>2. home \in [Calls -> Places]
  BY DEF TypeOK, ServerTypeOK, Places
<1>3. CASE SendStep
  <2>1. PICK msg \in UpMsg :
              /\ Transmit(msg) \/ TransmitThrows(msg)
              /\ UNCHANGED <<server, down, serverVars, received>>
              /\ IsCall(msg) => msg.id = nextChannelId
              /\ ~IsCall(msg) => openChannels' = openChannels
    BY <1>3, SentMessage DEF IsPacket, IsCall
  <2>2. /\ Current' = Current
        /\ \A l \in Places : Announces(Wire'[l], c) =>
              Announces(Wire[l], c) \/ (l = Current /\ IsCall(msg) /\ msg.id = c)
    <3>1. /\ Current' = Current
          /\ \A l \in Places : \/ Wire'[l] = Wire[l]
                               \/ l = Current /\ Wire'[l] = Append(Wire[l], msg)
      BY <2>1, SendWire DEF ContractInv
    <3>2. \A l \in Places : Announces(Append(Wire[l], msg), c) =>
              Announces(Wire[l], c) \/ (IsCall(msg) /\ msg.id = c)
      BY UpPackets, AppendLine
    <3>3. QED
      BY <3>1, <3>2
  <2>3. CASE c \in openChannels
    BY <1>1, <2>1, <2>2, <2>3 DEF serverVars
  <2>4. CASE c \notin openChannels
    <3>1. c = nextChannelId
      BY <2>4, OpenBefore
    <3>2. home[c] = 0 /\ \A l \in Places : ~Announces(Wire[l], c)
      <4>1. nextChannelId \in Int /\ c >= nextChannelId /\ ~(c < nextChannelId)
        BY <3>1 DEF TypeOK, ClientTypeOK
      <4>2. home[c] = 0
        BY <4>1, ServerKnows, WireType
      <4>3. \A l \in Places : ~Announces(Wire[l], c)
        BY <4>1 DEF ContractInv, CallsOnce, Announces
      <4>4. QED
        BY <4>2, <4>3
    <3>3. QED
      BY <2>1, <2>2, <3>2 DEF serverVars
  <2>5. QED
    BY <2>3, <2>4
<1>4. ASSUME ~SendStep PROVE c \in openChannels
  BY <1>4, OpenBefore
<1>5. ASSUME NEW s \in Sockets, ConnectionOpens(s), ~SendStep
      PROVE  /\ \A l \in Places : Announces(Wire'[l], c) => l = Current'
             /\ home'[c] # 0 => home'[c] = Current'
  <2>1. /\ s # 0 /\ Current = 0 /\ Current' = s
        /\ Wire'[s] = Wire[0] /\ Wire'[0] = <<>>
        /\ \A l \in Places \ {0, s} : Wire'[l] = Wire[l]
    BY <1>5, FlushWire DEF ContractInv
  <2>2. home' = home
    BY <1>5 DEF ConnectionOpens, serverVars
  <2>3. QED
    BY <1>1, <1>4, <1>5, <2>1, <2>2, EmptyLine
<1>6. ASSUME NEW s \in Sockets, ServerReceives(s), ~SendStep
      PROVE  /\ \A l \in Places : Announces(Wire'[l], c) => l = Current'
             /\ home'[c] # 0 => home'[c] = Current'
  <2>1. /\ s \in Places /\ Wire[s] # <<>> /\ Wire'[s] = Tail(Wire[s]) /\ 1 \in 1..Len(Wire[s])
        /\ \A l \in Places \ {s} : Wire'[l] = Wire[l]
        /\ Current' = Current
    BY <1>6, TakeWire
  <2>2. \A l \in Places : Announces(Wire'[l], c) => Announces(Wire[l], c)
    BY <2>1, TailLine, UpPackets
  <2>3. home'[c] = home[c] \/ (home'[c] = s /\ Announces(Wire[s], c))
    <3>1. CASE IsCall(Wire[s][1])
      <4>1. home' = home \/ home' = [home EXCEPT ![Wire[s][1].id] = s]
        BY <1>6, <3>1, TakenCall
      <4>2. Wire[s][1].id = c => Announces(Wire[s], c)
        BY <2>1, <3>1 DEF Announces
      <4>3. Wire[s][1].id \in Calls
        BY <1>6, TakenMessage
      <4>4. QED
        BY <1>2, <4>1, <4>2, <4>3
    <3>2. CASE home' = home
      BY <3>2
    <3>3. QED
      BY <1>6, <3>1, <3>2, TakenMessage
  <2>4. QED
    BY <1>1, <1>4, <1>6, <2>1, <2>2, <2>3
<1>7. ASSUME NEW s \in Sockets, ServerConnectionLost(s), ~SendStep
      PROVE  /\ \A l \in Places : Announces(Wire'[l], c) => l = Current'
             /\ home'[c] # 0 => home'[c] = Current'
  <2>1. /\ Wire'[s] = <<>> /\ Current' = Current
        /\ \A l \in Places \ {s} : Wire'[l] = Wire[l]
    BY <1>7, ClearWire
  <2>2. home' = home
    BY <1>7 DEF ServerConnectionLost
  <2>3. QED
    BY <1>1, <1>4, <1>7, <2>1, <2>2, EmptyLine
<1>8. CASE OtherStep /\ ~SendStep
  <2>1. Wire' = Wire /\ home' = home
    BY <1>8, OtherWire, OtherKeepsServer
  <2>2. Current' = Current
    BY <1>8, OtherCurrent, OtherLoss
  <2>3. QED
    BY <1>1, <1>4, <1>8, <2>1, <2>2
<1>9. QED
  BY <1>3, <1>5, <1>6, <1>7, <1>8, StepsByWire

-----------------------------------------------------------------------------
(* The packets to the client, step by step.                                *)

LEMMA DownPackets ==
    ASSUME TypeOK, NEW s \in Sockets
    PROVE  /\ Numbered(DownMsg) /\ down[s] \in Seq(DownMsg) /\ Len(down[s]) \in Nat
           /\ \A i \in 1..Len(down[s]) : /\ down[s][i] \in DownMsg
                                         /\ down[s][i].type = "channelSend" =>
                                              down[s][i].packet \in Nat
<1>1. down[s] \in Seq(DownMsg)
  BY DEF TypeOK, TransportTypeOK
<1>2. \A i \in 1..Len(down[s]) : down[s][i] \in DownMsg
  BY <1>1
<1>3. QED
  BY <1>1, <1>2, DownMsgParts DEF Numbered, IsPacket

(* What the server sent of a call grows, and where it is handled stays. *)
LEMMA ServerGrows ==
    ASSUME TypeOK, ContractInv, [Next]_vars, NEW c \in Calls
    PROVE  /\ serverSent[c] \in Nat /\ serverSent'[c] \in Nat /\ serverSent[c] <= serverSent'[c]
           /\ home[c] # 0 => home'[c] = home[c]
<1>0. serverSent \in [Calls -> Nat] /\ home \in [Calls -> Places]
  BY PortCallsAssumption DEF TypeOK, ServerTypeOK, Places
<1>1. CASE UNCHANGED <<serverSent, home>>
  BY <1>0, <1>1
<1>2. ASSUME NEW d \in Calls, ServerChannelSend(d)
      PROVE  home' = home /\ serverSent' = [serverSent EXCEPT ![d] = @ + 1]
  BY <1>2 DEF ServerChannelSend
<1>3. ASSUME NEW s \in Sockets, ServerReceives(s)
      PROVE  serverSent' = serverSent /\ (home[c] # 0 => home'[c] = home[c])
  <2>1. CASE IsCall(Wire[s][1])
    <3>1. Wire[s][1].id \in Calls /\ home[Wire[s][1].id] = 0
      <4>1. Wire[s][1].id \in Calls /\ s \in Places /\ 1 \in 1..Len(Wire[s])
        BY <1>3, TakenMessage, TakeWire
      <4>2. handler[Wire[s][1].id] = "none"
        BY <2>1, <4>1 DEF ContractInv, CallsOnce
      <4>3. QED
        BY <4>1, <4>2, ServerKnows
    <3>2. home' = home \/ home' = [home EXCEPT ![Wire[s][1].id] = s]
      BY <1>3, <2>1, TakenCall
    <3>3. QED
      BY <1>0, <1>3, <3>1, <3>2, TakenMessage
  <2>2. QED
    BY <1>3, <2>1, TakenMessage
<1>4. \/ UNCHANGED <<serverSent, home>>
      \/ \E d \in Calls : ServerChannelSend(d)
      \/ \E s \in Sockets : ServerReceives(s)
  BY DEF Next, ClientCallStep, CallRpc, CreateChannel, ChannelSend, DisposeStep, StartDispose,
     FinishDispose, NetworkStep, ConnectionOpens, ConnectionLost,
     ClientReceives, ServerConnectionLost, HandlerStep, RpcHandlerSettles, ChannelHandlerReturns,
     ChannelHandlerThrows, vars, serverVars
<1>5. ASSUME NEW d \in Calls, serverSent' = [serverSent EXCEPT ![d] = @ + 1]
      PROVE  serverSent'[c] = serverSent[c] \/ serverSent'[c] = serverSent[c] + 1
  BY <1>0, <1>5
<1>6. QED
  BY <1>0, <1>1, <1>2, <1>3, <1>4, <1>5

(* The message a handler's step sends. *)
LEMMA AnswerSent ==
    ASSUME TypeOK, ContractInv, HandlerStep
    PROVE  \E d \in Calls, msg \in DownMsg :
              /\ home[d] \in Sockets /\ down' = Answered(home[d], <<msg>>)
              /\ msg.id = d
              /\ IsPacket(msg, d) => /\ msg.packet = serverSent[d]
                                     /\ serverSent' = [serverSent EXCEPT ![d] = @ + 1]
              /\ ~IsPacket(msg, d) => serverSent' = serverSent
<1>1. PICK d \in Calls : \/ RpcHandlerSettles(d) \/ ServerChannelSend(d)
                         \/ ChannelHandlerReturns(d) \/ ChannelHandlerThrows(d)
  BY DEF HandlerStep
<1>2. home[d] \in Sockets
  BY <1>1 DEF ContractInv, HandlersAgree, HandlerAgrees, RpcHandlerSettles, ServerChannelSend,
     ChannelHandlerReturns, ChannelHandlerThrows
<1>3. CASE ServerChannelSend(d)
  <2> DEFINE msg == [type |-> "channelSend", id |-> d, packet |-> serverSent[d]]
  <2>1. serverSent[d] \in Packets
    BY <1>3, PortCallsAssumption DEF ServerChannelSend, TypeOK, ServerTypeOK, Packets
  <2>2. msg \in DownMsg /\ IsPacket(msg, d) /\ msg.id = d /\ msg.packet = serverSent[d]
    BY <2>1 DEF DownMsg, PacketMsg, IsPacket
  <2>3. down' = Answered(home[d], <<msg>>) /\ serverSent' = [serverSent EXCEPT ![d] = @ + 1]
    BY <1>3 DEF ServerChannelSend
  <2>4. QED
    BY <1>2, <2>2, <2>3
<1>4. CASE RpcHandlerSettles(d) \/ ChannelHandlerReturns(d) \/ ChannelHandlerThrows(d)
  <2> DEFINE Ends == {"rpcResult", "rpcError", "rpcInvalidResult", "channelClose", "channelError"}
  <2>1. /\ serverSent' = serverSent
        /\ \E type \in Ends :
             down' = Answered(home[d], <<[type |-> type, id |-> d]>>)
    BY <1>4 DEF RpcHandlerSettles, ChannelHandlerReturns, ChannelHandlerThrows
  <2>2. PICK type \in Ends :
           down' = Answered(home[d], <<[type |-> type, id |-> d]>>)
    BY <2>1
  <2> DEFINE msg == [type |-> type, id |-> d]
  <2>3. msg \in DownMsg /\ ~IsPacket(msg, d) /\ msg.id = d
    BY DEF DownMsg, EndMsg, IsPacket
  <2>4. QED
    BY <1>2, <2>1, <2>2, <2>3
<1>5. QED
  BY <1>1, <1>3, <1>4

(* Where an answer goes. *)
LEMMA AnswerWire ==
    ASSUME TypeOK, NEW h \in Sockets, NEW msg \in DownMsg, down' = Answered(h, <<msg>>),
           NEW s \in Sockets
    PROVE  \/ /\ down'[s] = down[s]
              /\ s = h => server[h] # "open" \/ client[h] \notin {"open", "closing"}
           \/ s = h /\ down'[s] = Append(down[s], msg)
<1>1. down \in [Sockets -> Seq(DownMsg)] /\ down[s] \in Seq(DownMsg)
  BY DEF TypeOK, TransportTypeOK
<1>2. down[s] \o <<msg>> = Append(down[s], msg)
  BY <1>1
<1>3. QED
  BY <1>1, <1>2 DEF Answered

(* The steps that touch what is on its way to the client. *)
LEMMA StepsByDown ==
    ASSUME [Next]_vars
    PROVE  \/ HandlerStep
           \/ \E s \in Sockets : ClientReceives(s) \/ ConnectionLost(s)
           \/ UNCHANGED down
  BY DEF Next, ClientCallStep, CallRpc, CreateChannel, ChannelSend,
     EnsureConnectedOrStartConnection, DisposeStep, StartDispose, DisposeWaits, FinishDispose,
     DisposeCloses, NetworkStep, UrlSettles, ConnectionOpens, OnWsOpen, ServerReceives,
     ServerConnectionLost, ServerSocketCloses, vars, transportVars

LEMMA NextKeepsDownWire ==
    ASSUME TypeOK, ContractInv, [Next]_vars, NEW c \in Calls, NEW s \in Sockets, DownWire(c, s)
    PROVE  DownWire(c, s)'
<1>0. /\ down \in [Sockets -> Seq(DownMsg)] /\ 0 \notin Sockets
      /\ serverSent[c] \in Nat /\ serverSent'[c] \in Nat /\ serverSent[c] <= serverSent'[c]
      /\ home[c] # 0 => home'[c] = home[c]
  BY ServerGrows, WireType DEF TypeOK, TransportTypeOK
<1>1. Below(down[s], c, serverSent[c]) /\ Below(down[s], c, serverSent'[c])
  BY <1>0, DownPackets DEF DownWire, Below, IsPacket
<1>2. \A i \in 1..Len(down[s]) : IsPacket(down[s][i], c) => home[c] = s /\ home'[c] = s
  BY <1>0 DEF DownWire
<1>3. CASE down'[s] = down[s]
  BY <1>1, <1>2, <1>3 DEF DownWire
<1>4. CASE down'[s] = <<>>
  BY <1>4, EmptyLine DEF DownWire
<1>5. CASE down[s] # <<>> /\ down'[s] = Tail(down[s])
  <2>1. Below(down'[s], c, serverSent'[c])
    <3>1. down[s] \in Seq(DownMsg)
      BY <1>0
    <3>2. \A t : Below(down[s], c, t) => Below(Tail(down[s]), c, t)
      BY <1>5, <3>1, TailLine
    <3>3. QED
      BY <1>1, <1>5, <3>2
  <2>2. \A i \in 1..Len(down'[s]) : i + 1 \in 1..Len(down[s]) /\ down'[s][i] = down[s][i + 1]
    BY <1>0, <1>5, TailPoints
  <2>3. QED
    BY <1>2, <2>1, <2>2 DEF DownWire
<1>6. CASE HandlerStep
  <2>1. PICK d \in Calls, msg \in DownMsg :
              /\ home[d] \in Sockets /\ down' = Answered(home[d], <<msg>>)
              /\ msg.id = d
              /\ IsPacket(msg, d) => /\ msg.packet = serverSent[d]
                                     /\ serverSent' = [serverSent EXCEPT ![d] = @ + 1]
    BY <1>6, AnswerSent
  <2>2. CASE s = home[d] /\ down'[s] = Append(down[s], msg)
    <3>1. IsPacket(msg, c) => c = d /\ msg.packet < serverSent'[c]
      <4>1. IsPacket(msg, c) => c = d
        BY <2>1 DEF IsPacket
      <4>2. serverSent \in [Calls -> 0..MaxSends]
        BY DEF TypeOK, ServerTypeOK
      <4>3. QED
        BY <1>0, <2>1, <4>1, <4>2
    <3>2. Below(down'[s], c, serverSent'[c])
      <4>1. down[s] \in Seq(DownMsg)
        BY <1>0
      <4>2. \A t : Below(down[s], c, t) /\ (IsPacket(msg, c) => msg.packet < t)
                     => Below(Append(down[s], msg), c, t)
        BY <4>1, AppendLine
      <4>3. QED
        BY <1>1, <2>2, <3>1, <4>2
    <3>3. \A i \in 1..Len(down'[s]) : IsPacket(down'[s][i], c) => home'[c] = s
      <4>1. \A i \in 1..Len(down'[s]) : \/ i \in 1..Len(down[s]) /\ down'[s][i] = down[s][i]
                                        \/ down'[s][i] = msg
        BY <2>1, AnsweredPoints
      <4>2. IsPacket(msg, c) => home'[c] = s
        BY <1>0, <2>1, <2>2, <3>1
      <4>3. QED
        BY <1>2, <4>1, <4>2
    <3>4. QED
      BY <3>2, <3>3 DEF DownWire
  <2>3. QED
    BY <1>3, <2>1, <2>2, AnswerWire
<1>7. ASSUME NEW r \in Sockets, ClientReceives(r)
      PROVE  down'[s] = down[s] \/ (down[s] # <<>> /\ down'[s] = Tail(down[s]))
  BY <1>0, <1>7 DEF ClientReceives, TakeMessage
<1>8. ASSUME NEW r \in Sockets, ConnectionLost(r)
      PROVE  down'[s] = down[s] \/ down'[s] = <<>>
  BY <1>0, <1>8 DEF ConnectionLost, SocketErrors, SocketCloses, OnWsError
<1>9. QED
  BY <1>3, <1>4, <1>5, <1>6, <1>7, <1>8, StepsByDown

(* A channel that the server does not know of has nothing on its way. *)
LEMMA FreshDown ==
    ASSUME TypeOK, ContractInv, NEW c \in Calls, home[c] = 0, ReceivedPrefix(c),
           \A s \in Sockets : DownWire(c, s), NEW s \in Sockets
    PROVE  /\ serverSent[c] = 0 /\ Len(received[c]) = 0
           /\ Follow(down[s], c, 0) /\ Reach(down[s], c, 0, 0)
<1>1. serverSent[c] = 0
  BY ServerKnows, WireType
<1>2. Len(received[c]) \in Nat
  BY DEF TypeOK, ClientTypeOK
<1>3. \A i \in 1..Len(down[s]) : ~IsPacket(down[s][i], c)
  BY WireType DEF DownWire
<1>4. QED
  BY <1>1, <1>2, <1>3, FollowNone DEF ReceivedPrefix

(* The port takes a message. *)
LEMMA ReceivedMessage ==
    ASSUME TypeOK, ContractInv, NEW s \in Sockets, ClientReceives(s), NEW c \in Calls
    PROVE  /\ down[s] \in Seq(DownMsg) /\ down[s] # <<>> /\ down' = [down EXCEPT ![s] = Tail(@)]
           /\ UNCHANGED <<status, ws, server, serverSent>> /\ openChannels' \subseteq openChannels
           /\ \/ received'[c] = received[c]
              \/ /\ status = "Connected" /\ c \in openChannels /\ IsPacket(down[s][1], c)
                 /\ received'[c] = Append(received[c], down[s][1].packet)
           /\ status = "Connected" /\ c \in openChannels /\ IsPacket(down[s][1], c)
                => received'[c] = Append(received[c], down[s][1].packet)
<1> DEFINE m == Head(down[s])
<1>1. /\ down[s] \in Seq(DownMsg) /\ down[s] # <<>> /\ down' = [down EXCEPT ![s] = Tail(@)]
      /\ UNCHANGED <<status, ws, server, serverSent>>
  BY DEF ClientReceives, TakeMessage, connectionVars, serverVars, TypeOK, TransportTypeOK
<1>2. m = down[s][1] /\ m \in DownMsg /\ m.id \in Calls
  BY <1>1, TakenDownPoints, DownMsgParts DEF ClientReceives
<1>3. /\ received \in [Calls -> Seq(Packets)]
      /\ \A d \in openChannels : channel[d] = "Connected" /\ d \notin ongoingRpcs
  BY DEF TypeOK, ClientTypeOK, ContractInv, RegistriesAgree, PendingRpcs, ConnectedChannels
<1>4. \/ /\ status = "Connected" /\ ~Dropped(m)
         /\ \/ ReceivedRpcResult(m) \/ ReceivedChannelEnd(m) \/ ReceivedChannelSend(m)
      \/ /\ ~(status = "Connected" /\ ~Dropped(m)) /\ UNCHANGED clientVars
  BY DEF ClientReceives
<1> HIDE DEF m
<1>5. CASE status = "Connected" /\ (ReceivedRpcResult(m) \/ ReceivedChannelEnd(m))
  <2>1. received' = received /\ openChannels' \subseteq openChannels /\ m.type # "channelSend"
    BY <1>5 DEF ReceivedRpcResult, ReceivedChannelEnd
  <2>2. QED
    BY <1>1, <1>2, <2>1 DEF IsPacket
<1>6. CASE status = "Connected" /\ ReceivedChannelSend(m)
  <2>1. /\ received' = [received EXCEPT ![m.id] = Append(@, m.packet)]
        /\ openChannels' = openChannels /\ m.id \in openChannels /\ m.type = "channelSend"
    BY <1>6 DEF ReceivedChannelSend
  <2>2. CASE m.id = c
    <3>1. received'[c] = Append(received[c], m.packet)
      BY <1>2, <1>3, <2>1, <2>2
    <3>2. QED
      BY <1>1, <1>2, <1>6, <2>1, <2>2, <3>1 DEF IsPacket
  <2>3. CASE m.id # c
    <3>1. received'[c] = received[c]
      BY <1>2, <1>3, <2>1, <2>3
    <3>2. QED
      BY <1>1, <1>2, <2>1, <2>3, <3>1 DEF IsPacket
  <2>4. QED
    BY <2>2, <2>3
<1>7. CASE ~(status = "Connected" /\ ~Dropped(m)) /\ UNCHANGED clientVars
  <2>1. received' = received /\ openChannels' = openChannels
    BY <1>7 DEF clientVars
  <2>2. m.id \in openChannels /\ m.type = "channelSend" => ~Dropped(m)
    BY DEF Dropped
  <2>3. QED
    BY <1>1, <1>2, <1>7, <2>1, <2>2 DEF IsPacket
<1>8. QED
  BY <1>4, <1>5, <1>6, <1>7

LEMMA ReceiveKeepsDown ==
    ASSUME TypeOK, ContractInv, NEW s \in Sockets, ClientReceives(s), NEW c \in Calls,
           OpenCall(c), DownFollows(c), ReceivedPrefix(c), DownWire(c, s)
    PROVE  DownFollows(c)' /\ ReceivedPrefix(c)'
<1> DEFINE n == Len(received[c])
<1>1. /\ down[s] \in Seq(DownMsg) /\ down[s] # <<>> /\ down' = [down EXCEPT ![s] = Tail(@)]
      /\ UNCHANGED <<status, ws, server, serverSent>> /\ openChannels' \subseteq openChannels
      /\ \/ received'[c] = received[c]
         \/ /\ status = "Connected" /\ c \in openChannels /\ IsPacket(down[s][1], c)
            /\ received'[c] = Append(received[c], down[s][1].packet)
      /\ status = "Connected" /\ c \in openChannels /\ IsPacket(down[s][1], c)
           => received'[c] = Append(received[c], down[s][1].packet)
  BY ReceivedMessage
<1>2. /\ down \in [Sockets -> Seq(DownMsg)] /\ received \in [Calls -> Seq(Packets)] /\ n \in Nat
      /\ serverSent[c] \in Nat
  BY PortCallsAssumption DEF TypeOK, TransportTypeOK, ClientTypeOK, ServerTypeOK
<1>3. status = "Connected" => ws \in Sockets /\ Current = ws /\ ~Deaf
  BY DEF ContractInv, ConnectionInv, SingleConnection, Current, Deaf
<1>4. /\ 1 \in 1..Len(down[s]) /\ down[s][1] \in DownMsg /\ down'[s] = Tail(down[s])
      /\ \A r \in Sockets \ {s} : down'[r] = down[r]
  BY <1>1, <1>2, TakenDownPoints DEF ClientReceives
<1> HIDE DEF n
<1>5. CASE ~(status = "Connected" /\ c \in openChannels)
  <2>1. received'[c] = received[c]
    BY <1>1, <1>5
  <2>2. QED
    BY <1>1, <1>5, <2>1 DEF DownFollows, ReceivedPrefix
<1>6. CASE status = "Connected" /\ c \in openChannels /\ s # ws
  <2>1. ~IsPacket(down[s][1], c)
    <3>1. home[c] # 0 => home[c] = ws
      BY <1>3, <1>6 DEF OpenCall
    <3>2. QED
      BY <1>4, <1>6, <3>1, WireType DEF DownWire
  <2>2. received'[c] = received[c] /\ down'[ws] = down[ws]
    BY <1>1, <1>3, <1>4, <1>6, <2>1
  <2>3. QED
    BY <1>1, <1>6, <2>2 DEF DownFollows, ReceivedPrefix
<1>7. CASE status = "Connected" /\ c \in openChannels /\ s = ws /\ ~IsPacket(down[s][1], c)
  <2>1. received'[c] = received[c]
    BY <1>1, <1>7
  <2>2. Follow(down[s], c, n) =>
           /\ Follow(down'[s], c, n)
           /\ \A total : Reach(down[s], c, n, total) => Reach(down'[s], c, n, total)
    BY <1>1, <1>4, <1>7, FollowTailOther
  <2>3. QED
    BY <1>1, <1>7, <2>1, <2>2 DEF DownFollows, ReceivedPrefix, n
<1>8. CASE status = "Connected" /\ c \in openChannels /\ s = ws /\ IsPacket(down[s][1], c)
  <2>1. /\ Follow(down[s], c, n)
        /\ server[s] = "open" => Reach(down[s], c, n, serverSent[c])
    BY <1>8 DEF DownFollows, n
  <2>2. /\ down[s][1].packet = n /\ Follow(down'[s], c, n + 1)
        /\ \A total \in Int : n < total /\ Reach(down[s], c, n, total)
                                => Reach(down'[s], c, n + 1, total)
    <3>1. n \in Int /\ Numbered(DownMsg)
      BY <1>2, DownPackets
    <3>2. QED
      BY <1>1, <1>4, <1>8, <2>1, <3>1, FollowTail
  <2>3. n < serverSent[c]
    BY <1>4, <1>8, <2>2 DEF DownWire, Below
  <2>4. /\ Len(received'[c]) = n + 1 /\ received'[c][n + 1] = n
        /\ \A i \in 1..n : received'[c][i] = received[c][i]
    <3>1. received[c] \in Seq(Packets) /\ down[s][1].packet \in Packets
      BY <1>2, <1>4, <1>8, DownMsgParts DEF IsPacket
    <3>2. received'[c] = Append(received[c], down[s][1].packet)
      BY <1>1, <1>8
    <3>3. QED
      BY <2>2, <3>1, <3>2, AppendPoints DEF n
  <2>5. ReceivedPrefix(c)'
    <3>1. Len(received'[c]) <= serverSent'[c]
      BY <1>1, <1>2, <2>3, <2>4
    <3>2. ASSUME NEW i \in 1..Len(received'[c]) PROVE received'[c][i] = i - 1
      <4>1. CASE i \in 1..n
        BY <2>4, <4>1 DEF ReceivedPrefix, n
      <4>2. CASE i = n + 1
        BY <1>2, <2>4, <4>2
      <4>3. QED
        BY <1>2, <2>4, <4>1, <4>2
    <3>3. QED
      BY <3>1, <3>2 DEF ReceivedPrefix
  <2>6. DownFollows(c)'
    BY <1>1, <1>2, <1>8, <2>1, <2>2, <2>3, <2>4 DEF DownFollows
  <2>7. QED
    BY <2>5, <2>6
<1>9. QED
  BY <1>5, <1>6, <1>7, <1>8

LEMMA AnswerKeepsDown ==
    ASSUME TypeOK, ContractInv, HandlerStep, NEW c \in Calls,
           OpenCall(c), DownFollows(c), ReceivedPrefix(c), \A s \in Sockets : DownWire(c, s)
    PROVE  DownFollows(c)'
<1> SUFFICES ASSUME status = "Connected", c \in openChannels
             PROVE  DownFollows(c)'
  BY DEF HandlerStep, RpcHandlerSettles, ServerChannelSend, ChannelHandlerReturns,
     ChannelHandlerThrows, DownFollows, connectionVars, clientVars
<1> DEFINE n == Len(received[c])
<1>1. PICK d \in Calls, msg \in DownMsg :
              /\ home[d] \in Sockets /\ down' = Answered(home[d], <<msg>>)
              /\ msg.id = d
              /\ IsPacket(msg, d) => /\ msg.packet = serverSent[d]
                                     /\ serverSent' = [serverSent EXCEPT ![d] = @ + 1]
              /\ ~IsPacket(msg, d) => serverSent' = serverSent
  BY AnswerSent
<1>2. UNCHANGED <<status, ws, server, client, openChannels, received>>
  BY DEF HandlerStep, RpcHandlerSettles, ServerChannelSend, ChannelHandlerReturns,
     ChannelHandlerThrows, connectionVars, clientVars
<1>3. /\ ws \in Sockets /\ client[ws] = "open" /\ 0 \notin Sockets
      /\ home[c] # 0 => home[c] = ws
  BY WireType DEF ContractInv, ConnectionInv, SingleConnection, Current, OpenCall, Deaf
<1>4. serverSent \in [Calls -> Nat] /\ down[ws] \in Seq(DownMsg) /\ Numbered(DownMsg)
  BY <1>3, PortCallsAssumption, DownPackets DEF TypeOK, ServerTypeOK
<1>5. /\ Follow(down[ws], c, n)
      /\ server[ws] = "open" => Reach(down[ws], c, n, serverSent[c])
  BY DEF DownFollows
<1>6. \/ down'[ws] = down[ws] /\ (ws = home[d] => server[ws] # "open")
      \/ down'[ws] = Append(down[ws], msg)
  BY <1>1, <1>3, AnswerWire
<1> HIDE DEF n
<1>7. CASE IsPacket(msg, c)
  <2>1. /\ d = c /\ home[d] = ws /\ msg.packet = serverSent[c]
        /\ serverSent'[c] = serverSent[c] + 1
    BY <1>1, <1>3, <1>4, <1>7 DEF IsPacket
  <2>2. CASE down'[ws] = Append(down[ws], msg) /\ server[ws] = "open"
    <3>1. \A i \in 1..Len(down[ws]) : IsPacket(down[ws][i], c) => down[ws][i].packet < msg.packet
      BY <1>3, <2>1 DEF DownWire, Below
    <3>2. Reach(down[ws], c, n, msg.packet)
      BY <1>5, <2>1, <2>2
    <3>3. Follow(down'[ws], c, n) /\ Reach(down'[ws], c, n, msg.packet + 1)
      BY <1>4, <1>5, <1>7, <2>2, <3>1, <3>2, FollowAppend
    <3>4. QED
      BY <1>2, <2>1, <3>3 DEF DownFollows, n
  <2>3. CASE down'[ws] = down[ws] /\ server[ws] # "open"
    BY <1>2, <1>5, <2>3 DEF DownFollows, n
  <2>4. server[ws] # "open" => down'[ws] = down[ws]
    BY <1>1, <1>3, <2>1 DEF Answered, TypeOK, TransportTypeOK
  <2>5. QED
    BY <1>6, <2>1, <2>2, <2>3, <2>4
<1>8. CASE ~IsPacket(msg, c)
  <2>1. serverSent'[c] = serverSent[c]
    BY <1>1, <1>4, <1>8 DEF IsPacket
  <2>2. CASE down'[ws] = down[ws]
    BY <1>2, <1>5, <2>1, <2>2 DEF DownFollows, n
  <2>3. CASE down'[ws] = Append(down[ws], msg)
    <3>1. /\ Follow(down'[ws], c, n)
          /\ \A total : Reach(down[ws], c, n, total) => Reach(down'[ws], c, n, total)
      BY <1>4, <1>5, <1>8, <2>3, FollowAppendOther
    <3>2. QED
      BY <1>2, <1>5, <2>1, <3>1 DEF DownFollows, n
  <2>4. QED
    BY <1>6, <2>2, <2>3
<1>9. QED
  BY <1>7, <1>8

LEMMA SendKeepsDown ==
    ASSUME TypeOK, ContractInv, SendStep, NEW c \in Calls,
           DownFollows(c), ReceivedPrefix(c), \A s \in Sockets : DownWire(c, s)
    PROVE  DownFollows(c)'
<1>1. PICK msg \in UpMsg : /\ Transmit(msg) \/ TransmitThrows(msg)
                           /\ UNCHANGED <<server, down, serverVars, received>>
  BY SentMessage
<1>2. status' = "Connected" => /\ status = "Connected" /\ ws' = ws /\ ws \in Sockets
  BY <1>1 DEF Transmit, TransmitThrows, Connect, connectionVars, ContractInv, ConnectionInv,
     SingleConnection
<1>3. CASE c \in openChannels
  BY <1>1, <1>2, <1>3 DEF DownFollows, serverVars
<1>4. CASE c \notin openChannels /\ c \in openChannels'
  <2>1. c = nextChannelId
    BY <1>4, OpenBefore DEF Next, ClientCallStep, SendStep
  <2>2. home[c] = 0
    <3>1. c >= nextChannelId /\ ~(c < nextChannelId)
      BY <2>1 DEF TypeOK, ClientTypeOK
    <3>2. QED
      BY <3>1, ServerKnows, WireType
  <2>3. QED
    BY <1>1, <1>2, <2>2, FreshDown DEF DownFollows, serverVars
<1>5. QED
  BY <1>3, <1>4 DEF DownFollows

LEMMA FlushKeepsDown ==
    ASSUME TypeOK, ContractInv, NEW s \in Sockets, ConnectionOpens(s), NEW c \in Calls,
           OpenCall(c), ReceivedPrefix(c), \A r \in Sockets : DownWire(c, r)
    PROVE  DownFollows(c)'
<1>1. client[s] = "opening" /\ UNCHANGED <<ws, down, clientVars, serverVars>>
  BY DEF ConnectionOpens, OnWsOpen
<1>2. s = ws /\ Current = 0 /\ 0 \notin Sockets
  BY <1>1, OpeningSocket, WireType DEF ContractInv
<1>3. c \in openChannels => home[c] = 0
  BY <1>1, <1>2 DEF OpenCall, Deaf
<1>4. QED
  BY <1>1, <1>2, <1>3, FreshDown DEF DownFollows, clientVars, serverVars

LEMMA NextKeepsDown ==
    ASSUME TypeOK, ContractInv, DownInv, [Next]_vars
    PROVE  DownInv'
<1> SUFFICES ASSUME NEW c \in Calls
             PROVE  /\ OpenCall(c)' /\ DownFollows(c)' /\ ReceivedPrefix(c)'
                    /\ \A s \in Sockets : DownWire(c, s)'
  BY DEF DownInv, Sockets
<1>1. OpenCall(c) /\ DownFollows(c) /\ ReceivedPrefix(c) /\ \A s \in Sockets : DownWire(c, s)
  BY DEF DownInv
<1>2. OpenCall(c)' /\ \A s \in Sockets : DownWire(c, s)'
  BY <1>1, NextKeepsOpen, NextKeepsDownWire
<1>3. ASSUME received' = received
      PROVE  ReceivedPrefix(c)'
  <2>1. Len(received[c]) \in Nat
    BY DEF TypeOK, ClientTypeOK
  <2>2. QED
    BY <1>1, <1>3, <2>1, ServerGrows DEF ReceivedPrefix
<1>4. ASSUME NEW s \in Sockets, ClientReceives(s)
      PROVE  DownFollows(c)' /\ ReceivedPrefix(c)'
  BY <1>1, <1>4, ReceiveKeepsDown
<1>5. CASE SendStep
  <2>1. received' = received
    BY <1>5 DEF SendStep, CallRpc, CreateChannel, ChannelSend
  <2>2. QED
    BY <1>1, <1>2, <1>3, <1>5, <2>1, SendKeepsDown
<1>6. ASSUME NEW s \in Sockets, ConnectionOpens(s)
      PROVE  DownFollows(c)' /\ ReceivedPrefix(c)'
  BY <1>1, <1>3, <1>6, FlushKeepsDown DEF ConnectionOpens, clientVars
<1>7. ASSUME NEW s \in Sockets, ServerReceives(s) \/ ServerConnectionLost(s)
      PROVE  DownFollows(c)' /\ ReceivedPrefix(c)'
  <2>1. UNCHANGED <<status, ws, down, clientVars, serverSent>>
    BY <1>7 DEF ServerReceives, ServerTakeMessage, ReceivedRpcCall, ReceivedChannelCreate,
       ServerReceivedChannelSend, ServerConnectionLost, ServerSocketCloses, connectionVars
  <2>2. status = "Connected" => ws \in Sockets
    BY DEF ContractInv, ConnectionInv, SingleConnection
  <2>3. status = "Connected" /\ server'[ws] = "open" => server[ws] = "open"
    BY <1>7, <2>2 DEF ServerReceives, ServerTakeMessage, ServerConnectionLost, ServerSocketCloses,
       TypeOK, TransportTypeOK
  <2>4. QED
    BY <1>1, <1>3, <2>1, <2>3 DEF DownFollows, clientVars
<1>8. CASE HandlerStep
  <2>1. received' = received
    BY <1>8 DEF HandlerStep, RpcHandlerSettles, ServerChannelSend, ChannelHandlerReturns,
       ChannelHandlerThrows, clientVars
  <2>2. DownFollows(c)'
    BY <1>1, <1>8, AnswerKeepsDown
  <2>3. QED
    BY <1>2, <1>3, <2>1, <2>2
<1>9. CASE OtherStep /\ ~HandlerStep /\ ~ \E s \in Sockets : ClientReceives(s)
  <2>1. received' = received
    BY <1>9 DEF OtherStep, DisposeStep, StartDispose, FinishDispose, Errored, ConnectionLost,
       clientVars, vars
  <2>2. status' # "Connected" \/ UNCHANGED <<status, ws, down, server, openChannels, serverSent>>
    <3>1. CASE UrlSettles /\ status' = "Connected"
      <4>1. created = 0 /\ status = "Connected"
        BY <3>1 DEF UrlSettles, ContractInv, ConnectionInv
      <4>2. QED
        BY <4>1 DEF ContractInv, ConnectionInv, SingleConnection, Sockets
    <3>2. QED
      BY <1>9, <3>1 DEF OtherStep, EnsureConnectedOrStartConnection, Connect, DisposeStep,
         StartDispose, DisposeWaits, FinishDispose, DisposeCloses, ConnectionLost, SocketErrors,
         SocketCloses, OnWsError, vars, transportVars, connectionVars, clientVars, serverVars
  <2>3. DownFollows(c)'
    BY <1>1, <2>1, <2>2 DEF DownFollows
  <2>4. QED
    BY <1>2, <1>3, <2>1, <2>3
<1>10. QED
  BY <1>2, <1>4, <1>5, <1>6, <1>7, <1>8, <1>9, StepsByWire

-----------------------------------------------------------------------------
OrderInv == UpInv /\ DownInv

LEMMA InitInOrder == Init => OrderInv
<1> SUFFICES ASSUME Init PROVE OrderInv
  OBVIOUS
<1>1. /\ sent = [c \in Calls |-> 0] /\ serverSent = [c \in Calls |-> 0]
      /\ received = [c \in Calls |-> <<>>] /\ serverReceived = [c \in Calls |-> <<>>]
      /\ Wire = [l \in Places |-> <<>>] /\ down = [s \in Sockets |-> <<>>]
      /\ openChannels = {} /\ handler = [c \in Calls |-> "none"]
  BY DEF Init, TransportInit, Wire, Places, Sockets
<1>2. ASSUME NEW c \in Calls PROVE UpCall(c) /\ \A l \in Places : UpWire(c, l)
  BY <1>1, EmptyLine DEF UpCall, UpWire, Accepts, Listening
<1>3. ASSUME NEW c \in Calls
      PROVE  /\ OpenCall(c) /\ DownFollows(c) /\ ReceivedPrefix(c)
             /\ \A s \in Sockets : DownWire(c, s)
  BY <1>1, EmptyLine DEF OpenCall, DownFollows, ReceivedPrefix, DownWire
<1>4. QED
  BY <1>2, <1>3 DEF OrderInv, UpInv, DownInv

(* Each side of a channel receives a prefix of what the other side sent,   *)
(* in order and without duplicates: over every loss of the connection,     *)
(* reconnection and disposal, whatever was queued, in flight or dropped    *)
(* (Channel.send, onWsOpen, receivedChannelSend of both ports).            *)
THEOREM InOrderHolds == Spec => []InOrder
<1>1. TypeOK /\ ContractInv /\ OrderInv /\ [Next]_vars => OrderInv'
  BY NextKeepsUp, NextKeepsDown DEF OrderInv
<1>2. TypeOK /\ OrderInv => InOrder
  <2> SUFFICES ASSUME TypeOK, OrderInv, NEW c \in Calls
               PROVE  /\ Len(received[c]) <= serverSent[c]
                      /\ \A i \in DOMAIN received[c] : received[c][i] = i - 1
                      /\ Len(serverReceived[c]) <= sent[c]
                      /\ \A i \in DOMAIN serverReceived[c] : serverReceived[c][i] = i - 1
    BY DEF InOrder
  <2>1. received[c] \in Seq(Packets) /\ serverReceived[c] \in Seq(Packets)
    BY DEF TypeOK, ClientTypeOK, ServerTypeOK
  <2>2. /\ DOMAIN received[c] = 1..Len(received[c])
        /\ DOMAIN serverReceived[c] = 1..Len(serverReceived[c])
    BY <2>1
  <2>3. UpCall(c) /\ ReceivedPrefix(c)
    BY DEF OrderInv, UpInv, DownInv
  <2>4. QED
    BY <2>2, <2>3 DEF UpCall, ReceivedPrefix
<1>3. QED
  BY <1>1, <1>2, InitInOrder, TypeOKHolds, ContractInvHolds, PTL DEF Spec
=============================================================================
