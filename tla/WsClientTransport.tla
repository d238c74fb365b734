------------------------- MODULE WsClientTransport -------------------------
(***************************************************************************)
(* The WebSocket transport of a ClientPort, and the sockets it opens.      *)
(*                                                                         *)
(* The transport opens a socket lazily, when the first message is sent,    *)
(* queues what is sent while the socket is still opening, and reports      *)
(* every loss of the connection to the port, which may send again and so   *)
(* start the next socket while the previous one is still closing.          *)
(*                                                                         *)
(* This module has the transport's variables and one operator per method   *)
(* or socket event.  A port module extends it and conjoins to each event   *)
(* what its own callback (connected, errored, receivedMessage) does.       *)
(***************************************************************************)
EXTENDS Integers, Sequences, FiniteSets

CONSTANTS
    MaxSockets,      \* Bound: sockets opened over the life of the transport.
    SupportsRefing   \* Whether the runtime can ref/unref a socket (Node).

ASSUME TransportAssumption == /\ MaxSockets \in Nat \ {0}
                              /\ SupportsRefing \in BOOLEAN

Sockets == 1..MaxSockets

VARIABLES
    status,    \* WsClientTransportStatus.
    ws,        \* The socket `this.ws` refers to, 0 for null.
    created,   \* How many sockets were created: they are numbered from 1.
    url,       \* The url promise: not asked for, awaited by connect, settled.
    client,    \* Per socket, its phase at the client.
    server,    \* Per socket, its phase at the server.
    queued,    \* queuedMessages: sent while there was no open socket.
    up,        \* Per socket, the messages on their way to the server.
    down,      \* Per socket, the messages on their way to the client.
    dispose,   \* Progress of [Symbol.asyncDispose].
    shouldRef  \* Whether the socket keeps the process alive.

connectionVars == <<status, ws, created, url, client, queued>>
transportVars == <<connectionVars, server, up, down, dispose, shouldRef>>

disposed == dispose # "no"

(* Phases in which the client end of a socket can still come to use.       *)
Live == {"opening", "open"}

TransportTypeOK(Up, Down) ==
    /\ status \in {"Disconnected", "Connecting", "Connected"}
    /\ ws \in 0..MaxSockets
    /\ created \in 0..MaxSockets
    /\ url \in {"idle", "awaited", "settled"}
    /\ client \in [Sockets -> {"none", "opening", "open", "closing", "failed", "closed"}]
    /\ server \in [Sockets -> {"none", "open", "closed"}]
    /\ queued \in Seq(Up)
    /\ up \in [Sockets -> Seq(Up)]
    /\ down \in [Sockets -> Seq(Down)]
    /\ dispose \in {"no", "waiting", "released", "done"}
    /\ shouldRef \in BOOLEAN

(* The url is a string (settled) or a promise; nothing is opened yet.      *)
TransportInit ==
    /\ status = "Disconnected" /\ ws = 0 /\ created = 0
    /\ url \in {"idle", "settled"}
    /\ client = [s \in Sockets |-> "none"]
    /\ server = [s \in Sockets |-> "none"]
    /\ queued = <<>>
    /\ up = [s \in Sockets |-> <<>>]
    /\ down = [s \in Sockets |-> <<>>]
    /\ dispose = "no" /\ shouldRef = FALSE

-----------------------------------------------------------------------------
(* Opening a connection.                                                   *)

(* new WebSocket(url), once the url is known. *)
OpenSocket ==
    /\ created < MaxSockets
    /\ created' = created + 1
    /\ ws' = created'
    /\ client' = [client EXCEPT ![created'] = "opening"]

(* Mutant: a connection that is still being made does not count. *)
ConnectUnlessConnected ==
    /\ status # "Connected" /\ ~disposed
    /\ status' = "Connecting"
    /\ \/ /\ url = "settled"
          /\ OpenSocket
          /\ UNCHANGED url
       \/ /\ url = "idle"
          /\ url' = "awaited"
          /\ UNCHANGED <<ws, created, client>>

(* connect(): a settled url costs a microtask only, no event comes first.  *)
Connect ==
    /\ status = "Disconnected" /\ ~disposed
    /\ status' = "Connecting"
    /\ \/ /\ url = "settled"
          /\ OpenSocket
          /\ UNCHANGED url
       \/ /\ url = "idle"
          /\ url' = "awaited"
          /\ UNCHANGED <<ws, created, client>>

EnsureConnectedOrStartConnection ==
    /\ Connect
    /\ UNCHANGED <<queued, server, up, down, dispose, shouldRef>>

(* The url promise settles, and a waiting connect() opens its socket: it   *)
(* looks at neither `status` nor `disposed` again.                         *)
UrlSettles ==
    /\ url # "settled"
    /\ url' = "settled"
    /\ IF url = "awaited" THEN OpenSocket ELSE UNCHANGED <<ws, created, client>>
    /\ UNCHANGED <<status, queued, server, up, down, dispose, shouldRef>>

-----------------------------------------------------------------------------
(* Sending.                                                                *)

(* What a socket carries to a server that already closed it is lost.       *)
Carried(s, msgs) ==
    [up EXCEPT ![s] = IF server[s] = "open" THEN @ \o msgs ELSE @]

(* sendViaTransport(msg) returning normally. *)
Transmit(msg) ==
    \/ /\ status = "Connected"
       /\ up' = Carried(ws, <<msg>>)
       /\ UNCHANGED connectionVars
    \/ /\ status = "Connecting"
       /\ queued' = Append(queued, msg)
       /\ UNCHANGED <<status, ws, created, url, client, up>>
    \/ /\ Connect
       /\ queued' = Append(queued, msg)
       /\ UNCHANGED up

(* sendViaTransport(msg) throwing: connect() refuses, after the push. *)
TransmitThrows(msg) ==
    /\ status = "Disconnected" /\ disposed
    /\ queued' = Append(queued, msg)
    /\ UNCHANGED <<status, ws, created, url, client, up>>

-----------------------------------------------------------------------------
(* Socket events.  A released dispose continues in a microtask, so no      *)
(* event of a socket comes before it.                                      *)

EventLoopTurn == dispose # "released"

(* Mutant: the queue is sent on opening, and kept. *)
OnWsOpenKeepingQueue(s, sentByConnected) ==
    /\ EventLoopTurn
    /\ client[s] = "opening"
    /\ client' = [client EXCEPT ![s] = "open"]
    /\ server' = [server EXCEPT ![s] = "open"]
    /\ status' = "Connected"
    /\ up' = [up EXCEPT ![ws] = @ \o queued \o sentByConnected]
    /\ UNCHANGED <<ws, created, url, queued, down>>

(* The handshake succeeds: onWsOpen sends the queued messages, then what   *)
(* `connected` sends.                                                      *)
OnWsOpen(s, sentByConnected) ==
    /\ EventLoopTurn
    /\ client[s] = "opening"
    /\ client' = [client EXCEPT ![s] = "open"]
    /\ server' = [server EXCEPT ![s] = "open"]
    /\ status' = "Connected"
    /\ up' = [up EXCEPT ![ws] = @ \o queued \o sentByConnected]
    /\ queued' = <<>>
    /\ UNCHANGED <<ws, created, url, down>>

(* Mutant: an error during the handshake is not passed on. *)
ReportsErrorOnceConnected == status = "Connected" /\ ~disposed

(* onWsError passes the error to the port unless the connection is already *)
(* down or is being disposed of.                                           *)
ReportsError == status # "Disconnected" /\ ~disposed

(* An `error` or `close` event of s.  The listener is not told which       *)
(* socket it is called for: it closes whichever socket `ws` is by now.     *)
OnWsError(s, phase) ==
    /\ EventLoopTurn
    /\ client' = [t \in Sockets |->
                    IF t = s THEN phase
                    ELSE IF t = ws /\ ReportsError /\ client[t] \in Live THEN "closing"
                    ELSE client[t]]
    /\ status' = "Disconnected"
    /\ down' = [down EXCEPT ![s] = <<>>]
    /\ UNCHANGED <<ws, created, url, queued, server, up>>

(* The connection of s fails; its close event is still to come. *)
SocketErrors(s) == client[s] \in Live /\ OnWsError(s, "failed")

(* The close event of s: the server's doing, or the end of a close(). *)
SocketCloses(s) == client[s] \in {"open", "closing", "failed"} /\ OnWsError(s, "closed")

(* The client takes the next message from s; a closing socket still        *)
(* delivers.  onWsMessage hands it to the port only when Connected.        *)
TakeMessage(s) ==
    /\ EventLoopTurn
    /\ client[s] \in {"open", "closing"}
    /\ down[s] # <<>>
    /\ down' = [down EXCEPT ![s] = Tail(@)]
    /\ UNCHANGED <<connectionVars, server, up>>

(* The server takes the next message from s. *)
ServerTakeMessage(s) ==
    /\ server[s] = "open"
    /\ up[s] # <<>>
    /\ up' = [up EXCEPT ![s] = Tail(@)]
    /\ UNCHANGED <<connectionVars, server, dispose, shouldRef>>

(* What the server sends on s; lost when either end is gone. *)
Answered(s, msgs) ==
    [down EXCEPT ![s] = IF server[s] = "open" /\ client[s] \in {"open", "closing"}
                        THEN @ \o msgs ELSE @]

(* The server's end of s closes; WsServerTransport reports it once. *)
ServerSocketCloses(s) ==
    /\ server[s] = "open"
    /\ server' = [server EXCEPT ![s] = "closed"]
    /\ up' = [up EXCEPT ![s] = <<>>]
    /\ UNCHANGED <<connectionVars, down, dispose, shouldRef>>

-----------------------------------------------------------------------------
(* Open communications and disposal.                                       *)

(* The effect of a change of the port's number of open communications from *)
(* `before` to `after`.                                                    *)
CommunicationsChange(before, after) ==
    /\ shouldRef' = IF after = 0 /\ before > 0 THEN FALSE
                    ELSE IF after = 1 /\ before = 0 THEN TRUE
                    ELSE shouldRef
    /\ dispose' = IF after = 0 /\ before > 0 /\ dispose = "waiting"
                  THEN "released" ELSE dispose

(* asyncDispose closes at once, or first waits for the communications.     *)
DisposeWaits ==
    /\ dispose = "no"
    /\ shouldRef /\ SupportsRefing
    /\ dispose' = "waiting"
    /\ UNCHANGED <<connectionVars, server, up, down, shouldRef>>

(* The last part of asyncDispose; the port's errored is called in it. *)
DisposeCloses ==
    /\ \/ dispose = "released"
       \/ dispose = "no" /\ ~(shouldRef /\ SupportsRefing)
    /\ dispose' = "done"
    /\ client' = [t \in Sockets |->
                    IF t = ws /\ client[t] \in Live THEN "closing" ELSE client[t]]
    /\ ws' = 0
    /\ status' = "Disconnected"
    /\ UNCHANGED <<created, url, queued, server, up, down>>
-----------------------------------------------------------------------------
(* What every port may rely on.                                            *)

(* At most one socket of the transport is alive, the one `ws` refers to,   *)
(* and the transport is Connected only over an open socket and Connecting  *)
(* only while a handshake or the url is awaited (WsClientTransport.status).*)
SingleConnection ==
    /\ \A s \in Sockets : client[s] \in Live => s = ws
    /\ status = "Connected" => ws \in Sockets /\ client[ws] = "open"
    /\ status = "Connecting" => url = "awaited" \/ (ws \in Sockets /\ client[ws] = "opening")
=============================================================================
