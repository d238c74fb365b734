----------------------------- MODULE PortCalls -----------------------------
(***************************************************************************)
(* The RPC and channel half of ClientPort and ServerPort, over the         *)
(* WebSocket transport.                                                    *)
(*                                                                         *)
(* A call is an rpc or a channel.  Both take their number from             *)
(* nextChannelId.  The server has one ServerPort per socket; a call's      *)
(* number reaches at most one of them, so the server's state is kept per   *)
(* call, with the socket it came on in `home`.                             *)
(***************************************************************************)
EXTENDS WsClientTransport

CONSTANTS
    MaxCalls,  \* Bound: calls made by the client.
    MaxSends,  \* Bound: packets sent on a channel, in each direction.
    Faults     \* Incompatibilities of the two ports that may occur.

ASSUME PortCallsAssumption == /\ MaxCalls \in Nat
                              /\ MaxSends \in Nat
                              /\ Faults \subseteq {"unhandled", "invalidResult"}

Calls == 0..(MaxCalls - 1)
Packets == 0..(MaxSends - 1)

VARIABLES
    nextChannelId,
    ongoingRpcs,             \* ClientPort.ongoingRpcs, by number.
    openChannels,            \* ClientPort.openChannels, by number.
    openCommunicationsCount,
    promise,                 \* The promise callRpc returned.
    channel,                 \* The status of the client's Channel object.
    events,                  \* Its onError and onClose events, in order.
    sent, received,          \* Packets through the client's Channel object.
    handler,                 \* The server's endpoint.handler for the call.
    home,                    \* The socket the call reached the server on.
    serverChannel,           \* The status of the server's Channel object.
    serverEvents,            \* Its onError and onClose events, in order.
    serverSent, serverReceived

clientVars == <<nextChannelId, ongoingRpcs, openChannels, openCommunicationsCount,
                promise, channel, events, sent, received>>
serverVars == <<handler, home, serverChannel, serverEvents, serverSent, serverReceived>>
vars == <<transportVars, clientVars, serverVars>>

CallMsg == [type : {"rpcCall", "channelCreate"}, id : Calls]
PacketMsg == [type : {"channelSend"}, id : Calls, packet : Packets]
EndMsg == [type : {"rpcResult", "rpcInvalidResult", "rpcError", "channelClose", "channelError"},
           id : Calls]

UpMsg == CallMsg \cup PacketMsg
DownMsg == EndMsg \cup PacketMsg

ChannelStatus == {"none", "Connected", "Errored", "Closed"}

ClientTypeOK ==
    /\ nextChannelId \in 0..MaxCalls
    /\ ongoingRpcs \subseteq Calls
    /\ openChannels \subseteq Calls
    /\ openCommunicationsCount \in Nat
    /\ promise \in [Calls -> {"none", "pending", "resolved", "rejected"}]
    /\ channel \in [Calls -> ChannelStatus]
    /\ events \in [Calls -> Seq({"error", "close"})]
    /\ sent \in [Calls -> 0..MaxSends]
    /\ received \in [Calls -> Seq(Packets)]

ServerTypeOK ==
    /\ handler \in [Calls -> {"none", "running", "returned", "threw"}]
    /\ home \in [Calls -> 0..MaxSockets]
    /\ serverChannel \in [Calls -> ChannelStatus]
    /\ serverEvents \in [Calls -> Seq({"error", "close"})]
    /\ serverSent \in [Calls -> 0..MaxSends]
    /\ serverReceived \in [Calls -> Seq(Packets)]

TypeOK == TransportTypeOK(UpMsg, DownMsg) /\ ClientTypeOK /\ ServerTypeOK

Init ==
    /\ TransportInit
    /\ nextChannelId = 0
    /\ ongoingRpcs = {} /\ openChannels = {} /\ openCommunicationsCount = 0
    /\ promise = [c \in Calls |-> "none"]
    /\ channel = [c \in Calls |-> "none"]
    /\ events = [c \in Calls |-> <<>>]
    /\ sent = [c \in Calls |-> 0]
    /\ received = [c \in Calls |-> <<>>]
    /\ handler = [c \in Calls |-> "none"]
    /\ home = [c \in Calls |-> 0]
    /\ serverChannel = [c \in Calls |-> "none"]
    /\ serverEvents = [c \in Calls |-> <<>>]
    /\ serverSent = [c \in Calls |-> 0]
    /\ serverReceived = [c \in Calls |-> <<>>]

-----------------------------------------------------------------------------
(* The client port.                                                        *)

(* Mutant: the channels are not counted. *)
UpdateOpenRpcsCount ==
    /\ openCommunicationsCount' = Cardinality(ongoingRpcs')
    /\ CommunicationsChange(openCommunicationsCount, openCommunicationsCount')

UpdateOpenCommunicationsCount ==
    /\ openCommunicationsCount' = Cardinality(ongoingRpcs') + Cardinality(openChannels')
    /\ CommunicationsChange(openCommunicationsCount, openCommunicationsCount')

(* Mutant: the number is incremented before it is taken. *)
CallRpcPreIncrement ==
    /\ nextChannelId < MaxCalls
    /\ nextChannelId' = nextChannelId + 1
    /\ Transmit([type |-> "rpcCall", id |-> nextChannelId'])
    /\ ongoingRpcs' = ongoingRpcs \cup {nextChannelId'}
    /\ UNCHANGED openChannels
    /\ UpdateOpenCommunicationsCount
    /\ UNCHANGED <<server, down, promise, channel, events, sent, received, serverVars>>

(* callRpc registers the call, sends it, and takes it back when send throws. *)
CallRpc ==
    /\ nextChannelId < MaxCalls
    /\ LET msg == [type |-> "rpcCall", id |-> nextChannelId]
       IN \/ /\ Transmit(msg)
             /\ ongoingRpcs' = ongoingRpcs \cup {nextChannelId}
             /\ promise' = [promise EXCEPT ![nextChannelId] = "pending"]
          \/ /\ TransmitThrows(msg)
             /\ UNCHANGED ongoingRpcs
             /\ promise' = [promise EXCEPT ![nextChannelId] = "rejected"]
    /\ nextChannelId' = nextChannelId + 1
    /\ UNCHANGED openChannels
    /\ UpdateOpenCommunicationsCount
    /\ UNCHANGED <<server, down, channel, events, sent, received, serverVars>>

(* createChannel sends first: when send throws there is no channel.        *)
CreateChannel ==
    /\ nextChannelId < MaxCalls
    /\ LET msg == [type |-> "channelCreate", id |-> nextChannelId]
       IN \/ /\ Transmit(msg)
             /\ openChannels' = openChannels \cup {nextChannelId}
             /\ channel' = [channel EXCEPT ![nextChannelId] = "Connected"]
             /\ UNCHANGED ongoingRpcs
             /\ UpdateOpenCommunicationsCount
          \/ /\ TransmitThrows(msg)
             /\ UNCHANGED <<ongoingRpcs, openChannels, openCommunicationsCount,
                            channel, dispose, shouldRef>>
    /\ nextChannelId' = nextChannelId + 1
    /\ UNCHANGED <<server, down, promise, events, sent, received, serverVars>>

(* Channel.send looks at no status: it may reopen a lost connection.       *)
ChannelSend(c) ==
    /\ channel[c] # "none"
    /\ sent[c] < MaxSends
    /\ LET msg == [type |-> "channelSend", id |-> c, packet |-> sent[c]]
       IN Transmit(msg) \/ TransmitThrows(msg)
    /\ sent' = [sent EXCEPT ![c] = @ + 1]
    /\ UNCHANGED <<server, down, dispose, shouldRef, nextChannelId, ongoingRpcs, openChannels,
                   openCommunicationsCount, promise, channel, events, received, serverVars>>

(* ClientPort.errored: every call the port knows of is told. *)
Errored ==
    /\ channel' = [c \in Calls |-> IF c \in openChannels /\ channel[c] = "Connected"
                                   THEN "Errored" ELSE channel[c]]
    /\ events' = [c \in Calls |-> IF c \in openChannels /\ channel[c] = "Connected"
                                  THEN Append(events[c], "error") ELSE events[c]]
    /\ promise' = [c \in Calls |-> IF c \in ongoingRpcs THEN "rejected" ELSE promise[c]]
    /\ ongoingRpcs' = {} /\ openChannels' = {}
    /\ openCommunicationsCount' = 0
    /\ UNCHANGED <<nextChannelId, sent, received>>

(* A socket event reaches errored, or stops in the transport. *)
ConnectionLost(s) ==
    /\ SocketErrors(s) \/ SocketCloses(s)
    /\ IF ReportsError
       THEN Errored /\ CommunicationsChange(openCommunicationsCount, 0)
       ELSE UNCHANGED <<clientVars, dispose, shouldRef>>
    /\ UNCHANGED serverVars

ConnectionOpens(s) ==
    /\ OnWsOpen(s, <<>>)
    /\ UNCHANGED <<dispose, shouldRef, clientVars, serverVars>>

StartDispose == DisposeWaits /\ UNCHANGED <<clientVars, serverVars>>

FinishDispose ==
    /\ DisposeCloses
    /\ Errored
    /\ shouldRef' = (IF openCommunicationsCount > 0 THEN FALSE ELSE shouldRef)
    /\ UNCHANGED serverVars

(* receivedRpcResult: a result the endpoint's schema refuses is dropped    *)
(* with a warning and the call stays ongoing.                              *)
ReceivedRpcResult(m) ==
    /\ m.type \in {"rpcResult", "rpcInvalidResult", "rpcError"}
    /\ m.id \in ongoingRpcs
    /\ m.type # "rpcInvalidResult"
    /\ promise' = [promise EXCEPT ![m.id] = IF m.type = "rpcResult" THEN "resolved"
                                            ELSE "rejected"]
    /\ ongoingRpcs' = ongoingRpcs \ {m.id}
    /\ UNCHANGED openChannels
    /\ UpdateOpenCommunicationsCount
    /\ UNCHANGED <<nextChannelId, channel, events, sent, received>>

ReceivedChannelSend(m) ==
    /\ m.type = "channelSend"
    /\ m.id \in openChannels
    /\ channel[m.id] = "Connected"
    /\ received' = [received EXCEPT ![m.id] = Append(@, m.packet)]
    /\ UNCHANGED <<dispose, shouldRef, nextChannelId, ongoingRpcs, openChannels,
                   openCommunicationsCount, promise, channel, events, sent>>

(* Mutant: an errored channel ends like a closed one. *)
ReceivedChannelEndAsClose(m) ==
    /\ m.type \in {"channelClose", "channelError"}
    /\ m.id \in openChannels
    /\ openChannels' = openChannels \ {m.id}
    /\ channel' = [channel EXCEPT ![m.id] = "Closed"]
    /\ events' = [events EXCEPT ![m.id] = Append(@, "close")]
    /\ UNCHANGED ongoingRpcs
    /\ UpdateOpenCommunicationsCount
    /\ UNCHANGED <<nextChannelId, promise, sent, received>>

(* receivedChannelClose and receivedChannelError; Channel.closed, unlike   *)
(* Channel.errored, looks at no status.                                    *)
ReceivedChannelEnd(m) ==
    /\ m.type \in {"channelClose", "channelError"}
    /\ m.id \in openChannels
    /\ openChannels' = openChannels \ {m.id}
    /\ IF m.type = "channelClose"
       THEN /\ channel' = [channel EXCEPT ![m.id] = "Closed"]
            /\ events' = [events EXCEPT ![m.id] = Append(@, "close")]
       ELSE IF channel[m.id] = "Connected"
       THEN /\ channel' = [channel EXCEPT ![m.id] = "Errored"]
            /\ events' = [events EXCEPT ![m.id] = Append(@, "error")]
       ELSE UNCHANGED <<channel, events>>
    /\ UNCHANGED ongoingRpcs
    /\ UpdateOpenCommunicationsCount
    /\ UNCHANGED <<nextChannelId, promise, sent, received>>

(* Messages the client port drops: for a call it does not know (any more), *)
(* or an invalid result.  The warning they raise only prints text.         *)
Dropped(m) ==
    \/ m.type = "rpcInvalidResult"
    \/ m.id \notin ongoingRpcs \cup openChannels

ClientReceives(s) ==
    /\ TakeMessage(s)
    /\ LET m == Head(down[s])
       IN IF status = "Connected" /\ ~Dropped(m)
          THEN \/ ReceivedRpcResult(m)
               \/ ReceivedChannelSend(m)
               \/ ReceivedChannelEnd(m)
          ELSE UNCHANGED <<clientVars, dispose, shouldRef>>
    /\ UNCHANGED serverVars

-----------------------------------------------------------------------------
(* The server port of each socket, and the handlers it runs.               *)

(* ServerPort.openChannels of the socket s. *)
ServerOpenChannels(s) ==
    {c \in Calls : home[c] = s /\ serverChannel[c] # "none" /\ handler[c] = "running"}

(* receivedRpcCall starts the handler; a call of an unknown endpoint, or   *)
(* one whose parameter does not parse, only raises a warning.              *)
ReceivedRpcCall(s, m) ==
    /\ m.type = "rpcCall"
    /\ \/ /\ handler' = [handler EXCEPT ![m.id] = "running"]
          /\ home' = [home EXCEPT ![m.id] = s]
       \/ /\ "unhandled" \in Faults
          /\ UNCHANGED <<handler, home>>
    /\ UNCHANGED <<serverChannel, serverEvents, serverSent, serverReceived>>

ReceivedChannelCreate(s, m) ==
    /\ m.type = "channelCreate"
    /\ \/ /\ m.id \notin ServerOpenChannels(s)
          /\ serverChannel' = [serverChannel EXCEPT ![m.id] = "Connected"]
          /\ handler' = [handler EXCEPT ![m.id] = "running"]
          /\ home' = [home EXCEPT ![m.id] = s]
       \/ /\ m.id \in ServerOpenChannels(s) \/ "unhandled" \in Faults
          /\ UNCHANGED <<serverChannel, handler, home>>
    /\ UNCHANGED <<serverEvents, serverSent, serverReceived>>

ServerReceivedChannelSend(s, m) ==
    /\ m.type = "channelSend"
    /\ serverReceived' =
         IF m.id \in ServerOpenChannels(s) /\ serverChannel[m.id] = "Connected"
         THEN [serverReceived EXCEPT ![m.id] = Append(@, m.packet)]
         ELSE serverReceived
    /\ UNCHANGED <<handler, home, serverChannel, serverEvents, serverSent>>

ServerReceives(s) ==
    /\ ServerTakeMessage(s)
    /\ LET m == Head(up[s])
       IN \/ ReceivedRpcCall(s, m)
          \/ ReceivedChannelCreate(s, m)
          \/ ServerReceivedChannelSend(s, m)
    /\ UNCHANGED <<down, clientVars>>

(* The handler of an rpc settles, and the server port answers. *)
RpcHandlerSettles(c) ==
    /\ handler[c] = "running" /\ serverChannel[c] = "none"
    /\ \E type \in {"rpcResult", "rpcError"}
                     \cup (IF "invalidResult" \in Faults THEN {"rpcInvalidResult"} ELSE {}) :
         /\ handler' = [handler EXCEPT ![c] = IF type = "rpcError" THEN "threw" ELSE "returned"]
         /\ down' = Answered(home[c], <<[type |-> type, id |-> c]>>)
    /\ UNCHANGED <<connectionVars, server, up, dispose, shouldRef, clientVars, home,
                   serverChannel, serverEvents, serverSent, serverReceived>>

(* The handler of a channel sends a packet, whatever the channel's status. *)
ServerChannelSend(c) ==
    /\ handler[c] = "running" /\ serverChannel[c] # "none"
    /\ serverSent[c] < MaxSends
    /\ serverSent' = [serverSent EXCEPT ![c] = @ + 1]
    /\ down' = Answered(home[c], <<[type |-> "channelSend", id |-> c, packet |-> serverSent[c]]>>)
    /\ UNCHANGED <<connectionVars, server, up, dispose, shouldRef, clientVars, handler, home,
                   serverChannel, serverEvents, serverReceived>>

(* The handler of a channel returns or throws: the server port tells the   *)
(* client, ends the Channel object and forgets the channel.                *)
ChannelHandlerReturns(c) ==
    /\ handler[c] = "running" /\ serverChannel[c] # "none"
    /\ handler' = [handler EXCEPT ![c] = "returned"]
    /\ down' = Answered(home[c], <<[type |-> "channelClose", id |-> c]>>)
    /\ serverChannel' = [serverChannel EXCEPT ![c] = "Closed"]
    /\ serverEvents' = [serverEvents EXCEPT ![c] = Append(@, "close")]
    /\ UNCHANGED <<connectionVars, server, up, dispose, shouldRef, clientVars, home,
                   serverSent, serverReceived>>

ChannelHandlerThrows(c) ==
    /\ handler[c] = "running" /\ serverChannel[c] # "none"
    /\ handler' = [handler EXCEPT ![c] = "threw"]
    /\ down' = Answered(home[c], <<[type |-> "channelError", id |-> c]>>)
    /\ IF serverChannel[c] = "Connected"
       THEN /\ serverChannel' = [serverChannel EXCEPT ![c] = "Errored"]
            /\ serverEvents' = [serverEvents EXCEPT ![c] = Append(@, "error")]
       ELSE UNCHANGED <<serverChannel, serverEvents>>
    /\ UNCHANGED <<connectionVars, server, up, dispose, shouldRef, clientVars, home,
                   serverSent, serverReceived>>

(* ServerPort.errored: the open channels of the socket are errored. *)
ServerConnectionLost(s) ==
    /\ ServerSocketCloses(s)
    /\ LET lost == {c \in ServerOpenChannels(s) : serverChannel[c] = "Connected"}
       IN /\ serverChannel' = [c \in Calls |-> IF c \in lost THEN "Errored" ELSE serverChannel[c]]
          /\ serverEvents' = [c \in Calls |-> IF c \in lost THEN Append(serverEvents[c], "error")
                                              ELSE serverEvents[c]]
    /\ UNCHANGED <<clientVars, handler, home, serverSent, serverReceived>>

-----------------------------------------------------------------------------
ClientCallStep ==
    \/ CallRpc
    \/ CreateChannel
    \/ \E c \in Calls : ChannelSend(c)
    \/ EnsureConnectedOrStartConnection /\ UNCHANGED <<clientVars, serverVars>>

DisposeStep == StartDispose \/ FinishDispose

NetworkStep ==
    \/ UrlSettles /\ UNCHANGED <<clientVars, serverVars>>
    \/ \E s \in Sockets : \/ ConnectionOpens(s)
                          \/ ConnectionLost(s)
                          \/ ClientReceives(s)
                          \/ ServerReceives(s)
                          \/ ServerConnectionLost(s)

HandlerStep ==
    \E c \in Calls : \/ RpcHandlerSettles(c)
                     \/ ServerChannelSend(c)
                     \/ ChannelHandlerReturns(c)
                     \/ ChannelHandlerThrows(c)

Next == ClientCallStep \/ DisposeStep \/ NetworkStep \/ HandlerStep

Spec == Init /\ [][Next]_vars
-----------------------------------------------------------------------------
(* Properties.                                                             *)

(* No call waits on a transport that is down and that nothing would bring  *)
(* up again: losing the connection told every call (ClientPort.errored).   *)
NoCallStranded ==
    status = "Disconnected" /\ ~disposed => ongoingRpcs = {} /\ openChannels = {}

(* The count of open communications is that of the calls awaiting an end,  *)
(* and the transport holds the process alive exactly while there are some  *)
(* (updateOpenCommunicationsCount).                                        *)
CountAgrees ==
    /\ openCommunicationsCount
         = Cardinality({c \in Calls : promise[c] = "pending" \/ channel[c] = "Connected"})
    /\ shouldRef <=> openCommunicationsCount > 0

(* Each side of a channel receives a prefix of what the other side sent,   *)
(* in order and without duplicates, over every reconnection.               *)
InOrder ==
    \A c \in Calls :
        /\ Len(received[c]) <= serverSent[c]
        /\ \A i \in DOMAIN received[c] : received[c][i] = i - 1
        /\ Len(serverReceived[c]) <= sent[c]
        /\ \A i \in DOMAIN serverReceived[c] : serverReceived[c][i] = i - 1

(* What the client knows of a call, read off its promise or its Channel. *)
Caller ==
    [c \in Calls |->
        IF promise[c] = "pending" \/ channel[c] = "Connected" THEN "pending"
        ELSE IF promise[c] = "resolved" \/ channel[c] = "Closed" THEN "succeeded"
        ELSE IF c < nextChannelId THEN "failed"
        ELSE "none"]

Contract == INSTANCE CallContract WITH caller <- Caller

(* The ports keep the contract of a call: executed at most once, success   *)
(* only after its handler returned, one outcome (callRpc, createChannel).  *)
KeepsContract == Contract!Spec

(* What happens if nothing else does: the network either delivers or       *)
(* fails, a url promise settles, a closed connection is noticed, and every *)
(* handler ends.  Runs are finite, so not stopping is all the fairness     *)
(* that is needed.                                                         *)
Progress ==
    \/ UrlSettles /\ UNCHANGED <<clientVars, serverVars>>
    \/ \E s \in Sockets :
         \/ client[s] = "opening" /\ (ConnectionOpens(s) \/ ConnectionLost(s))
         \/ (client[s] \in {"closing", "failed"} \/ server[s] = "closed") /\ ConnectionLost(s)
         \/ client[s] \in {"failed", "closed"} /\ ServerConnectionLost(s)
         \/ ClientReceives(s)
         \/ ServerReceives(s)
    \/ \E c \in Calls : RpcHandlerSettles(c) \/ ChannelHandlerReturns(c) \/ ChannelHandlerThrows(c)
    \/ dispose = "released" /\ FinishDispose

FairSpec == Spec /\ WF_vars(Progress)

(* Every call has ended, answered or failed, unless the transport is       *)
(* disposed of, which needs ports that understand each other (Faults = {});*)
(* and a disposal that waited for open communications is complete as long  *)
(* as the connection lasts (onHavingNoOpenCommunication).                  *)
Settled ==
    /\ \A c \in Calls : Caller[c] # "pending" \/ disposed
    /\ dispose = "waiting" => status = "Disconnected"

(* What the documentation says and the code does not do.                   *)

(* onClose fires "when the channel has been properly closed": not on a     *)
(* channel that errored (the server's Channel objects).                    *)
ClosedMeansProperlyClosed ==
    \A c \in Calls : serverChannel[c] = "Closed" => serverEvents[c] = <<"close">>

(* asyncDispose waits "until all communications are terminates", which the *)
(* loss of the connection brings about: so it completes.                   *)
DisposeEnds == dispose = "waiting" ~> dispose = "done"
=============================================================================
