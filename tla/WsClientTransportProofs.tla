----------------------- MODULE WsClientTransportProofs -----------------------
(***************************************************************************)
(* What the ports' proofs need of the transport, for every number of       *)
(* sockets and whatever messages it carries: it has one connection at a    *)
(* time, a socket that is not open carries nothing, and where the messages *)
(* to the server are after each of its steps.                              *)
(***************************************************************************)
EXTENDS WsClientTransport, SequencesExt, FiniteSetTheorems, TLAPS

(* What SingleConnection needs to be inductive: sockets are numbered in    *)
(* the order they are created, none is created before the url is known,    *)
(* and a transport that is down, unless disposed of, has no live socket    *)
(* and asked for no url.                                                   *)
ConnectionInv ==
    /\ SingleConnection
    /\ \A s \in Sockets : client[s] # "none" => s <= created
    /\ url # "settled" => created = 0
    /\ status = "Disconnected" /\ ~disposed
         => url # "awaited" /\ \A s \in Sockets : client[s] \notin Live

(* The part of the type invariant the connection depends on. *)
ConnectionTypeOK ==
    /\ status \in {"Disconnected", "Connecting", "Connected"}
    /\ ws \in 0..MaxSockets
    /\ created \in 0..MaxSockets
    /\ url \in {"idle", "awaited", "settled"}
    /\ client \in [Sockets -> {"none", "opening", "open", "closing", "failed", "closed"}]

(* Disposal is never taken back. *)
StaysDisposed == disposed => disposed'

(* A connection starts from nothing alive (WsClientTransport.connect). *)
LEMMA ConnectKeeps ==
    ASSUME ConnectionTypeOK, ConnectionInv, Connect, StaysDisposed
    PROVE  ConnectionTypeOK' /\ ConnectionInv'
<1>0. MaxSockets \in Nat
  BY TransportAssumption
<1>1. CASE url = "settled" /\ OpenSocket /\ UNCHANGED url
  BY <1>0, <1>1 DEF Connect, OpenSocket, ConnectionTypeOK, ConnectionInv, SingleConnection,
     Sockets, Live, disposed, StaysDisposed
<1>2. CASE url = "idle" /\ url' = "awaited" /\ UNCHANGED <<ws, created, client>>
  BY <1>0, <1>2 DEF Connect, ConnectionTypeOK, ConnectionInv, SingleConnection,
     Sockets, Live, disposed, StaysDisposed
<1>3. QED
  BY <1>1, <1>2 DEF Connect

(* The url settles: a waiting connect() opens the first socket. *)
LEMMA UrlSettlesKeeps ==
    ASSUME ConnectionTypeOK, ConnectionInv, UrlSettles
    PROVE  ConnectionTypeOK' /\ ConnectionInv'
<1>0. MaxSockets \in Nat
  BY TransportAssumption
<1>1. CASE url = "awaited" /\ OpenSocket
  BY <1>0, <1>1 DEF UrlSettles, OpenSocket, ConnectionTypeOK, ConnectionInv, SingleConnection,
     Sockets, Live, disposed
<1>2. CASE url = "idle" /\ UNCHANGED <<ws, created, client>>
  BY <1>0, <1>2 DEF UrlSettles, ConnectionTypeOK, ConnectionInv, SingleConnection,
     Sockets, Live, disposed
<1>3. QED
  BY <1>1, <1>2 DEF UrlSettles, ConnectionTypeOK

(* The socket that opens is the one `ws` refers to. *)
LEMMA OnWsOpenKeeps ==
    ASSUME ConnectionTypeOK, ConnectionInv, StaysDisposed,
           NEW s \in Sockets, NEW msgs, OnWsOpen(s, msgs)
    PROVE  ConnectionTypeOK' /\ ConnectionInv'
  BY TransportAssumption DEF OnWsOpen, ConnectionTypeOK, ConnectionInv, SingleConnection,
     Sockets, Live, disposed, StaysDisposed

(* An error leaves no live socket, unless the transport is being disposed. *)
LEMMA OnWsErrorKeeps ==
    ASSUME ConnectionTypeOK, ConnectionInv, StaysDisposed,
           NEW s \in Sockets, NEW phase \in {"failed", "closed"},
           client[s] # "none", OnWsError(s, phase)
    PROVE  ConnectionTypeOK' /\ ConnectionInv'
  BY TransportAssumption DEF OnWsError, ReportsError, ConnectionTypeOK, ConnectionInv,
     SingleConnection, Sockets, Live, disposed, StaysDisposed

LEMMA DisposeClosesKeeps ==
    ASSUME ConnectionTypeOK, ConnectionInv, DisposeCloses
    PROVE  ConnectionTypeOK' /\ ConnectionInv'
  BY TransportAssumption DEF DisposeCloses, ConnectionTypeOK, ConnectionInv, SingleConnection,
     Sockets, Live, disposed

LEMMA IdleConnectionKeeps ==
    ASSUME ConnectionTypeOK, ConnectionInv, StaysDisposed,
           UNCHANGED <<status, ws, created, url, client>>
    PROVE  ConnectionTypeOK' /\ ConnectionInv'
  BY DEF ConnectionTypeOK, ConnectionInv, SingleConnection, disposed, StaysDisposed

LEMMA SendKeeps ==
    ASSUME ConnectionTypeOK, ConnectionInv, StaysDisposed,
           NEW msg, Transmit(msg) \/ TransmitThrows(msg)
    PROVE  ConnectionTypeOK' /\ ConnectionInv'
<1>1. CASE Connect
  BY <1>1, ConnectKeeps
<1>2. CASE UNCHANGED <<status, ws, created, url, client>>
  BY <1>2, IdleConnectionKeeps
<1>3. QED
  BY <1>1, <1>2 DEF Transmit, TransmitThrows, connectionVars

LEMMA CommunicationsChangeKeepsDisposed ==
    ASSUME NEW before, NEW after, CommunicationsChange(before, after)
    PROVE  StaysDisposed
  BY DEF CommunicationsChange, StaysDisposed, disposed

-----------------------------------------------------------------------------
(* Sequences.                                                              *)

LEMMA AppendPoints ==
    ASSUME NEW S, NEW q \in Seq(S), NEW m \in S
    PROVE  /\ Append(q, m) \in Seq(S) /\ Len(q) \in Nat /\ Len(Append(q, m)) = Len(q) + 1
           /\ \A k \in 1..Len(q) : Append(q, m)[k] = q[k] /\ q[k] \in S
           /\ Append(q, m)[Len(q) + 1] = m
  OBVIOUS

LEMMA TailPoints ==
    ASSUME NEW S, NEW q \in Seq(S), q # <<>>
    PROVE  /\ Tail(q) \in Seq(S) /\ Len(q) \in Nat /\ Len(q) >= 1 /\ Len(Tail(q)) = Len(q) - 1
           /\ \A k \in 1..Len(Tail(q)) : k + 1 \in 1..Len(q) /\ Tail(q)[k] = q[k + 1]
           /\ \A k \in 1..Len(q) : q[k] \in S
           /\ Head(q) = q[1] /\ 1 \in 1..Len(q)
  OBVIOUS

LEMMA ConcatPoints ==
    ASSUME NEW S, NEW q \in Seq(S), NEW r \in Seq(S)
    PROVE  /\ q \o r \in Seq(S) /\ Len(q) \in Nat /\ Len(r) \in Nat
           /\ Len(q \o r) = Len(q) + Len(r)
           /\ \A k \in 1..Len(q) : (q \o r)[k] = q[k]
           /\ \A k \in (Len(q) + 1)..(Len(q) + Len(r)) : (q \o r)[k] = r[k - Len(q)]
  OBVIOUS

Carries(q, m) == \E k \in 1..Len(q) : q[k] = m
Once(q, m) == \A j, k \in 1..Len(q) : q[j] = m /\ q[k] = m => j = k

LEMMA CarriesAppend ==
    ASSUME NEW S, NEW q \in Seq(S), NEW m \in S, NEW x
    PROVE  /\ Carries(Append(q, m), x) <=> Carries(q, x) \/ x = m
           /\ Once(q, x) /\ (x = m => ~Carries(q, x)) => Once(Append(q, m), x)
<1> DEFINE r == Append(q, m)
<1>1. /\ Len(q) \in Nat /\ Len(r) = Len(q) + 1
      /\ \A k \in 1..Len(q) : r[k] = q[k]
      /\ r[Len(q) + 1] = m
  BY AppendPoints
<1> HIDE DEF r
<1>2. \A k \in 1..Len(r) : k \in 1..Len(q) \/ k = Len(q) + 1
  BY <1>1
<1>3. \A k \in 1..Len(q) : k \in 1..Len(r)
  BY <1>1
<1>4. Len(q) + 1 \in 1..Len(r)
  BY <1>1
<1>5. Carries(r, x) <=> Carries(q, x) \/ x = m
  BY <1>1, <1>2, <1>3, <1>4 DEF Carries
<1>6. ASSUME Once(q, x), x = m => ~Carries(q, x) PROVE Once(r, x)
  BY <1>1, <1>2, <1>6 DEF Carries, Once
<1>7. QED
  BY <1>5, <1>6 DEF r

LEMMA CarriesTail ==
    ASSUME NEW S, NEW q \in Seq(S), q # <<>>, NEW x
    PROVE  /\ Carries(q, x) <=> Carries(Tail(q), x) \/ x = Head(q)
           /\ Once(q, x) => Once(Tail(q), x) /\ (x = Head(q) => ~Carries(Tail(q), x))
<1> DEFINE t == Tail(q)
<1>1. /\ Len(q) \in Nat /\ Len(q) >= 1 /\ Len(t) = Len(q) - 1
      /\ \A k \in 1..Len(t) : k + 1 \in 1..Len(q) /\ t[k] = q[k + 1]
      /\ Head(q) = q[1] /\ 1 \in 1..Len(q)
  BY TailPoints
<1> HIDE DEF t
<1>2. \A k \in 1..Len(q) : k = 1 \/ (k - 1 \in 1..Len(t) /\ t[k - 1] = q[k])
  <2> SUFFICES ASSUME NEW k \in 1..Len(q), k # 1
               PROVE  k - 1 \in 1..Len(t) /\ t[k - 1] = q[k]
    OBVIOUS
  <2>1. k - 1 \in 1..Len(t) /\ (k - 1) + 1 = k
    BY <1>1
  <2>2. QED
    BY <1>1, <2>1
<1>3. Carries(q, x) <=> Carries(t, x) \/ x = Head(q)
  BY <1>1, <1>2 DEF Carries
<1>4. ASSUME Once(q, x) PROVE Once(t, x) /\ (x = Head(q) => ~Carries(t, x))
  <2>1. \A j, k \in 1..Len(t) : t[j] = x /\ t[k] = x => j = k
    <3> SUFFICES ASSUME NEW j \in 1..Len(t), NEW k \in 1..Len(t), t[j] = x, t[k] = x
                 PROVE  j = k
      OBVIOUS
    <3>1. j + 1 = k + 1
      BY <1>1, <1>4 DEF Once
    <3>2. QED
      BY <3>1
  <2>2. \A k \in 1..Len(t) : k + 1 # 1
    BY <1>1
  <2>3. QED
    BY <1>1, <1>4, <2>1, <2>2 DEF Once, Carries
<1>5. QED
  BY <1>3, <1>4 DEF t

(* SetToSeq puts every element of a finite set at one place. *)
LEMMA SetToSeqPoints ==
    ASSUME NEW S, IsFiniteSet(S)
    PROVE  /\ SetToSeq(S) \in Seq(S)
           /\ \A x \in S : \E k \in 1..Len(SetToSeq(S)) : SetToSeq(S)[k] = x
           /\ \A j, k \in 1..Len(SetToSeq(S)) : SetToSeq(S)[j] = SetToSeq(S)[k] => j = k
<1> DEFINE n == Cardinality(S)
           t == SetToSeq(S)
<1>1. n \in Nat /\ ExistsBijection(1..n, S)
  BY FS_CardinalityType
<1>2. \E f \in [1..n -> S] : IsInjective(f)
  BY <1>1 DEF ExistsBijection, Bijection, Injection
<1>3. t \in [1..n -> S] /\ IsInjective(t)
  BY <1>2 DEF SetToSeq
<1>4. IsFiniteSet(1..n) /\ Cardinality(1..n) = n
  BY <1>1, FS_Interval
<1> HIDE DEF t
<1>5. t \in Seq(S) /\ Len(t) = n
  BY <1>1, <1>3
<1>6. t \in Injection(1..n, S)
  BY <1>3 DEF Injection
<1>7. t \in Surjection(1..n, S)
  BY <1>4, <1>6, FS_Injection
<1>8. QED
  BY <1>3, <1>5, <1>7 DEF Surjection, IsInjective, t

-----------------------------------------------------------------------------
(* Messages on their way to the server.                                    *)

(* They are in the queue (0) or on a socket. *)
Places == 0..MaxSockets
Wire == [l \in Places |-> IF l = 0 THEN queued ELSE up[l]]

(* Where the next message to the server goes. *)
Current == IF status = "Connected" THEN ws ELSE 0

(* A socket that is not open carries nothing to the server, and an open    *)
(* connection leaves nothing queued.                                       *)
WiresFollowSockets ==
    /\ \A s \in Sockets : server[s] # "open" => up[s] = <<>>
    /\ \A s \in Sockets : client[s] \in {"none", "opening"} => server[s] = "none"
    /\ status = "Connected" => queued = <<>>

(* Nothing will connect the transport (again). *)
Deaf ==
    /\ disposed /\ status # "Connected" /\ url # "awaited"
    /\ \A s \in Sockets : client[s] # "opening"

LEMMA WiresType ==
    ASSUME NEW Up, NEW Down, TransportTypeOK(Up, Down)
    PROVE  /\ Wire \in [Places -> Seq(Up)]
           /\ Sockets \subseteq Places /\ 0 \in Places /\ 0 \notin Sockets
           /\ Places = {0} \cup Sockets
           /\ ws \in Places /\ Current \in Places
  BY TransportAssumption DEF TransportTypeOK, Wire, Places, Sockets, Current

(* The socket that opens is ws, and it carries nothing yet. *)
LEMMA OpeningSocket ==
    ASSUME ConnectionInv, WiresFollowSockets, NEW s \in Sockets, client[s] = "opening"
    PROVE  s = ws /\ up[s] = <<>> /\ server[s] = "none" /\ Current = 0
  BY DEF ConnectionInv, SingleConnection, Live, WiresFollowSockets, Current

(* A socket is created under a number that was free. *)
LEMMA CreatedSocket ==
    ASSUME ConnectionTypeOK, ConnectionInv, Connect \/ UrlSettles
    PROVE  \A s \in Sockets : \/ client'[s] = client[s]
                              \/ client[s] = "none" /\ client'[s] = "opening"
<1>0. MaxSockets \in Nat /\ created \in 0..MaxSockets
      /\ client \in [Sockets -> {"none", "opening", "open", "closing", "failed", "closed"}]
  BY TransportAssumption DEF ConnectionTypeOK
<1>1. CASE OpenSocket
  <2>1. created + 1 \in Sockets /\ client[created + 1] = "none"
    BY <1>0, <1>1 DEF OpenSocket, ConnectionInv, Sockets
  <2>2. QED
    BY <1>0, <1>1, <2>1 DEF OpenSocket
<1>2. CASE UNCHANGED client
  BY <1>2
<1>3. QED
  BY <1>1, <1>2 DEF Connect, UrlSettles

-----------------------------------------------------------------------------
(* The steps of the transport, whichever port takes them.                  *)

Sends == (\E msg : Transmit(msg) \/ TransmitThrows(msg)) /\ UNCHANGED server

SocketStep(s) ==
    \/ \E msgs : OnWsOpen(s, msgs)
    \/ SocketErrors(s) \/ SocketCloses(s)
    \/ ServerTakeMessage(s) \/ ServerSocketCloses(s)

Quiet == UNCHANGED <<status, ws, created, url, client, queued, server, up>>

TransportStep ==
    \/ Quiet
    \/ Sends
    \/ EnsureConnectedOrStartConnection \/ UrlSettles \/ DisposeCloses
    \/ \E s \in Sockets : SocketStep(s)

LEMMA StepKeepsConnection ==
    ASSUME ConnectionTypeOK, ConnectionInv, StaysDisposed, TransportStep
    PROVE  ConnectionTypeOK' /\ ConnectionInv'
<1>1. CASE UNCHANGED <<status, ws, created, url, client>>
  BY <1>1, IdleConnectionKeeps
<1>2. CASE Sends
  BY <1>2, SendKeeps DEF Sends
<1>3. CASE EnsureConnectedOrStartConnection
  BY <1>3, ConnectKeeps DEF EnsureConnectedOrStartConnection
<1>4. CASE UrlSettles
  BY <1>4, UrlSettlesKeeps
<1>5. CASE DisposeCloses
  BY <1>5, DisposeClosesKeeps
<1>6. ASSUME NEW s \in Sockets, NEW msgs, OnWsOpen(s, msgs)
      PROVE  ConnectionTypeOK' /\ ConnectionInv'
  BY <1>6, OnWsOpenKeeps
<1>7. ASSUME NEW s \in Sockets, SocketErrors(s) \/ SocketCloses(s)
      PROVE  ConnectionTypeOK' /\ ConnectionInv'
  BY <1>7, OnWsErrorKeeps DEF SocketErrors, SocketCloses, Live
<1>8. QED
  BY <1>1, <1>2, <1>3, <1>4, <1>5, <1>6, <1>7 DEF TransportStep, Quiet, SocketStep, ServerTakeMessage,
     ServerSocketCloses, connectionVars

LEMMA StepKeepsWires ==
    ASSUME NEW Up, NEW Down, TransportTypeOK(Up, Down), ConnectionTypeOK, ConnectionInv,
           WiresFollowSockets, TransportStep
    PROVE  WiresFollowSockets'
<1> USE DEF WiresFollowSockets
<1>1. CASE Quiet
  BY <1>1 DEF Quiet
<1>2. ASSUME NEW msg, Transmit(msg) \/ TransmitThrows(msg), UNCHANGED server
      PROVE  WiresFollowSockets'
  <2>1. CASE Connect /\ queued' = Append(queued, msg) /\ UNCHANGED up
    BY <1>2, <2>1, CreatedSocket DEF Connect
  <2>2. CASE status = "Connected" /\ up' = Carried(ws, <<msg>>) /\ UNCHANGED connectionVars
    BY <1>2, <2>2 DEF Carried, connectionVars, TransportTypeOK
  <2>3. CASE status # "Connected" /\ UNCHANGED <<status, client, up>>
    BY <1>2, <2>3
  <2>4. QED
    BY <1>2, <2>1, <2>2, <2>3 DEF Transmit, TransmitThrows
<1>3. CASE EnsureConnectedOrStartConnection
  BY <1>3, CreatedSocket DEF EnsureConnectedOrStartConnection, Connect
<1>4. CASE UrlSettles
  BY <1>4, CreatedSocket DEF UrlSettles
<1>5. CASE DisposeCloses
  BY <1>5 DEF DisposeCloses, TransportTypeOK, Live
<1>6. ASSUME NEW s \in Sockets, NEW msgs, OnWsOpen(s, msgs)
      PROVE  WiresFollowSockets'
  BY <1>6, OpeningSocket DEF OnWsOpen, TransportTypeOK
<1>7. ASSUME NEW s \in Sockets, SocketErrors(s) \/ SocketCloses(s)
      PROVE  WiresFollowSockets'
  BY <1>7 DEF SocketErrors, SocketCloses, OnWsError, Live, TransportTypeOK
<1>8. ASSUME NEW s \in Sockets, ServerTakeMessage(s) \/ ServerSocketCloses(s)
      PROVE  WiresFollowSockets'
  BY <1>8 DEF ServerTakeMessage, ServerSocketCloses, connectionVars, TransportTypeOK
<1>9. QED
  BY <1>1, <1>2, <1>3, <1>4, <1>5, <1>6, <1>7, <1>8 DEF TransportStep, Sends, SocketStep

LEMMA StepKeepsServerType ==
    ASSUME NEW Up, NEW Down, TransportTypeOK(Up, Down), TransportStep
    PROVE  server' \in [Sockets -> {"none", "open", "closed"}]
  BY DEF TransportTypeOK, TransportStep, Quiet, Sends, EnsureConnectedOrStartConnection, UrlSettles,
     DisposeCloses, SocketStep, OnWsOpen, SocketErrors, SocketCloses, OnWsError, ServerTakeMessage,
     ServerSocketCloses

LEMMA DeafStays ==
    ASSUME Deaf, StaysDisposed, TransportStep
    PROVE  Deaf'
<1>1. disposed'
  BY DEF Deaf, StaysDisposed
<1>2. CASE UNCHANGED <<status, url, client>>
  BY <1>1, <1>2 DEF Deaf
<1>3. CASE Sends
  BY <1>2, <1>3 DEF Sends, Transmit, TransmitThrows, Connect, Deaf, connectionVars
<1>4. CASE EnsureConnectedOrStartConnection
  BY <1>4 DEF EnsureConnectedOrStartConnection, Connect, Deaf
<1>5. CASE UrlSettles
  BY <1>1, <1>5 DEF UrlSettles, Deaf
<1>6. CASE DisposeCloses
  BY <1>1, <1>6 DEF DisposeCloses, Deaf
<1>7. ASSUME NEW s \in Sockets, NEW msgs, OnWsOpen(s, msgs) PROVE Deaf'
  BY <1>7 DEF OnWsOpen, Deaf
<1>8. ASSUME NEW s \in Sockets, SocketErrors(s) \/ SocketCloses(s) PROVE Deaf'
  BY <1>1, <1>8 DEF SocketErrors, SocketCloses, OnWsError, Deaf
<1>9. QED
  BY <1>2, <1>3, <1>4, <1>5, <1>6, <1>7, <1>8 DEF TransportStep, Quiet, SocketStep,
     ServerTakeMessage, ServerSocketCloses, connectionVars

-----------------------------------------------------------------------------
(* What a step does to the messages on their way to the server.            *)

LEMMA SendWires ==
    ASSUME NEW Up, NEW Down, TransportTypeOK(Up, Down), ConnectionInv,
           NEW msg \in Up, Transmit(msg) \/ TransmitThrows(msg)
    PROVE  /\ Current' = Current
           /\ \A l \in Places : \/ Wire'[l] = Wire[l]
                                \/ l = Current /\ Wire'[l] = Append(Wire[l], msg)
           /\ \/ Wire'[Current] = Append(Wire[Current], msg)
              \/ Current \in Sockets /\ server[Current] # "open"
<1>0. MaxSockets \in Nat /\ queued \in Seq(Up) /\ up \in [Sockets -> Seq(Up)]
  BY TransportAssumption DEF TransportTypeOK
<1>1. CASE status = "Connected" /\ up' = Carried(ws, <<msg>>) /\ UNCHANGED connectionVars
  <2>1. ws \in Sockets /\ Current = ws /\ Current' = ws /\ queued' = queued
    BY <1>1 DEF connectionVars, ConnectionInv, SingleConnection, Current
  <2>2. up[ws] \o <<msg>> = Append(up[ws], msg)
    BY <1>0, <2>1
  <2>3. /\ up'[ws] = IF server[ws] = "open" THEN Append(up[ws], msg) ELSE up[ws]
        /\ \A l \in Sockets \ {ws} : up'[l] = up[l]
    BY <1>0, <1>1, <2>1, <2>2 DEF Carried
  <2>4. \A l \in Places : Wire[l] = (IF l = 0 THEN queued ELSE up[l])
                          /\ Wire'[l] = (IF l = 0 THEN queued' ELSE up'[l])
    BY DEF Wire, Places
  <2>5. QED
    BY <2>1, <2>3, <2>4, WiresType
<1>2. CASE queued' = Append(queued, msg) /\ UNCHANGED up /\ status # "Connected"
             /\ status' # "Connected"
  BY <1>0, <1>2 DEF Wire, Places, Current
<1>3. QED
  BY <1>1, <1>2 DEF Transmit, TransmitThrows, Connect

LEMMA OpenWires ==
    ASSUME NEW Up, NEW Down, TransportTypeOK(Up, Down), ConnectionInv, WiresFollowSockets,
           NEW s \in Sockets, NEW msgs \in Seq(Up), OnWsOpen(s, msgs)
    PROVE  /\ s \in Places /\ s # 0 /\ s = ws /\ Current = 0 /\ Current' = s
           /\ Wire[s] = <<>> /\ Wire'[s] = Wire[0] \o msgs /\ Wire'[0] = <<>>
           /\ \A l \in Places \ {0, s} : Wire'[l] = Wire[l]
<1>0. queued \in Seq(Up) /\ up \in [Sockets -> Seq(Up)]
  BY DEF TransportTypeOK
<1>1. s = ws /\ up[s] = <<>> /\ Current = 0
  BY OpeningSocket DEF OnWsOpen
<1>2. /\ status' = "Connected" /\ ws' = ws /\ queued' = <<>>
      /\ up' = [up EXCEPT ![ws] = @ \o queued \o msgs]
  BY DEF OnWsOpen
<1>3. up[s] \o queued \o msgs = queued \o msgs
  BY <1>0, <1>1
<1>4. up'[s] = queued \o msgs /\ \A l \in Sockets \ {s} : up'[l] = up[l]
  BY <1>0, <1>1, <1>2, <1>3
<1>5. \A l \in Places : /\ Wire[l] = (IF l = 0 THEN queued ELSE up[l])
                        /\ Wire'[l] = (IF l = 0 THEN queued' ELSE up'[l])
  BY DEF Wire, Places
<1>6. QED
  BY <1>1, <1>2, <1>4, <1>5, WiresType DEF Current

LEMMA TakeWires ==
    ASSUME NEW Up, NEW Down, TransportTypeOK(Up, Down), NEW s \in Sockets, ServerTakeMessage(s)
    PROVE  /\ s \in Places /\ Wire[s] # <<>> /\ Wire'[s] = Tail(Wire[s])
           /\ Head(up[s]) = Wire[s][1] /\ 1 \in 1..Len(Wire[s]) /\ server[s] = "open"
           /\ \A l \in Places \ {s} : Wire'[l] = Wire[l]
           /\ Current' = Current
<1>0. queued \in Seq(Up) /\ up \in [Sockets -> Seq(Up)]
  BY DEF TransportTypeOK
<1>1. /\ server[s] = "open" /\ up[s] # <<>> /\ up' = [up EXCEPT ![s] = Tail(@)]
      /\ queued' = queued /\ status' = status /\ ws' = ws
  BY DEF ServerTakeMessage, connectionVars
<1>2. \A l \in Places : /\ Wire[l] = (IF l = 0 THEN queued ELSE up[l])
                        /\ Wire'[l] = (IF l = 0 THEN queued' ELSE up'[l])
  BY DEF Wire, Places
<1>3. Head(up[s]) = up[s][1] /\ 1 \in 1..Len(up[s])
  BY <1>0, <1>1
<1>4. QED
  BY <1>0, <1>1, <1>2, <1>3, WiresType DEF Current

LEMMA CloseWires ==
    ASSUME NEW Up, NEW Down, TransportTypeOK(Up, Down), NEW s \in Sockets, ServerSocketCloses(s)
    PROVE  /\ s \in Places /\ Wire'[s] = <<>>
           /\ \A l \in Places \ {s} : Wire'[l] = Wire[l]
           /\ Current' = Current
<1>0. up \in [Sockets -> Seq(Up)]
  BY DEF TransportTypeOK
<1>1. up' = [up EXCEPT ![s] = <<>>] /\ queued' = queued /\ status' = status /\ ws' = ws
  BY DEF ServerSocketCloses, connectionVars
<1>2. \A l \in Places : /\ Wire[l] = (IF l = 0 THEN queued ELSE up[l])
                        /\ Wire'[l] = (IF l = 0 THEN queued' ELSE up'[l])
  BY DEF Wire, Places
<1>3. QED
  BY <1>0, <1>1, <1>2, WiresType DEF Current

(* Every other step leaves the wires alone, and Current may only be lost.  *)
LEMMA OtherWires ==
    ASSUME UNCHANGED <<queued, up>>
    PROVE  Wire' = Wire
  BY DEF Wire

-----------------------------------------------------------------------------
(* Whether a message is on its way to the server, and whether it is so     *)
(* once.                                                                   *)

OnWire(m) == \E l \in Places : Carries(Wire[l], m)

Alone(m) ==
    /\ \A l \in Places : Once(Wire[l], m)
    /\ \A l1, l2 \in Places : Carries(Wire[l1], m) /\ Carries(Wire[l2], m) => l1 = l2

LEMMA SendOnWire ==
    ASSUME NEW Up, NEW Down, TransportTypeOK(Up, Down), ConnectionInv,
           NEW msg \in Up, Transmit(msg) \/ TransmitThrows(msg), NEW x
    PROVE  /\ OnWire(x)' => OnWire(x) \/ x = msg
           /\ Alone(x) /\ (x = msg => ~OnWire(x)) => Alone(x)'
<1>1. \A l \in Places : \/ Wire'[l] = Wire[l]
                        \/ l = Current /\ Wire'[l] = Append(Wire[l], msg)
  BY SendWires
<1>2. \A l \in Places : Wire[l] \in Seq(Up)
  BY WiresType
<1>3. \A l \in Places :
        /\ Carries(Append(Wire[l], msg), x) <=> Carries(Wire[l], x) \/ x = msg
        /\ Once(Wire[l], x) /\ (x = msg => ~Carries(Wire[l], x)) => Once(Append(Wire[l], msg), x)
  BY <1>2, CarriesAppend
<1>4. \A l \in Places :
        /\ Carries(Wire'[l], x) => Carries(Wire[l], x) \/ (x = msg /\ l = Current)
        /\ Once(Wire[l], x) /\ (x = msg => ~Carries(Wire[l], x)) => Once(Wire'[l], x)
  BY <1>1, <1>3
<1>5. QED
  BY <1>4 DEF OnWire, Alone, Places

LEMMA OpenOnWire ==
    ASSUME NEW Up, NEW Down, TransportTypeOK(Up, Down), ConnectionInv, WiresFollowSockets,
           NEW s \in Sockets, NEW msgs \in Seq(Up), OnWsOpen(s, msgs), NEW x, ~Carries(msgs, x)
    PROVE  (OnWire(x)' => OnWire(x)) /\ (Alone(x) => Alone(x)')
<1> DEFINE q == Wire[0]
           r == q \o msgs
<1>1. /\ s \in Places /\ s # 0 /\ Wire[s] = <<>> /\ Wire'[s] = r /\ Wire'[0] = <<>>
      /\ \A l \in Places \ {0, s} : Wire'[l] = Wire[l]
  BY OpenWires
<1>2. q \in Seq(Up) /\ 0 \in Places
  BY WiresType
<1>3. /\ Len(q) \in Nat /\ Len(msgs) \in Nat /\ Len(r) = Len(q) + Len(msgs)
      /\ \A k \in 1..Len(q) : r[k] = q[k]
      /\ \A k \in (Len(q) + 1)..(Len(q) + Len(msgs)) : r[k] = msgs[k - Len(q)]
  BY <1>2, ConcatPoints
<1> HIDE DEF q, r
<1>4. \A k \in 1..Len(r) : r[k] = x => k \in 1..Len(q) /\ q[k] = x
  <2> SUFFICES ASSUME NEW k \in 1..Len(r), r[k] = x PROVE k \in 1..Len(q) /\ q[k] = x
    OBVIOUS
  <2>1. CASE k <= Len(q)
    BY <1>3, <2>1
  <2>2. CASE k > Len(q)
    <3>1. k - Len(q) \in 1..Len(msgs) /\ k \in (Len(q) + 1)..(Len(q) + Len(msgs))
      BY <1>3, <2>2
    <3>2. msgs[k - Len(q)] = x
      BY <1>3, <3>1
    <3>3. QED
      BY <3>1, <3>2 DEF Carries
  <2>3. QED
    BY <1>3, <2>1, <2>2
<1>5. (Carries(r, x) => Carries(q, x)) /\ (Once(q, x) => Once(r, x))
  BY <1>4 DEF Carries, Once
<1>6. ~Carries(<<>>, x) /\ Once(<<>>, x)
  BY DEF Carries, Once
<1>7. \A l \in Places : /\ Carries(Wire'[l], x) => Carries(Wire[IF l = s THEN 0 ELSE l], x)
                        /\ l # 0 \/ ~Carries(Wire'[l], x)
                        /\ Once(Wire[IF l = s THEN 0 ELSE l], x) => Once(Wire'[l], x)
  BY <1>1, <1>5, <1>6 DEF q
<1>8. OnWire(x)' => OnWire(x)
  BY <1>2, <1>7 DEF OnWire, Places
<1>9. ASSUME Alone(x) PROVE Alone(x)'
  <2>1. \A l \in Places : Once(Wire'[l], x)
    BY <1>2, <1>7, <1>9 DEF Alone
  <2>2. \A l1, l2 \in Places : Carries(Wire'[l1], x) /\ Carries(Wire'[l2], x) => l1 = l2
    BY <1>1, <1>2, <1>7, <1>9 DEF Alone
  <2>3. QED
    BY <2>1, <2>2 DEF Alone, Places
<1>10. QED
  BY <1>8, <1>9

LEMMA TakeOnWire ==
    ASSUME NEW Up, NEW Down, TransportTypeOK(Up, Down), NEW s \in Sockets, ServerTakeMessage(s), NEW x
    PROVE  /\ OnWire(Head(up[s])) /\ Head(up[s]) \in Up
           /\ OnWire(x)' => OnWire(x)
           /\ Alone(x) => Alone(x)' /\ (x = Head(up[s]) => ~OnWire(x)')
<1> DEFINE m == Head(up[s])
<1>1. /\ s \in Places /\ Wire[s] # <<>> /\ Wire'[s] = Tail(Wire[s])
      /\ m = Wire[s][1] /\ 1 \in 1..Len(Wire[s])
      /\ \A l \in Places \ {s} : Wire'[l] = Wire[l]
  BY TakeWires
<1>2. Wire[s] \in Seq(Up)
  BY <1>1, WiresType
<1>3. m = Head(Wire[s]) /\ m \in Up
  BY <1>1, <1>2
<1> HIDE DEF m
<1>4. /\ Carries(Wire[s], x) <=> Carries(Wire'[s], x) \/ x = m
      /\ Once(Wire[s], x) => Once(Wire'[s], x) /\ (x = m => ~Carries(Wire'[s], x))
  BY <1>1, <1>2, <1>3, CarriesTail
<1>5. OnWire(m)
  BY <1>1 DEF OnWire, Carries
<1>6. \A l \in Places : /\ Carries(Wire'[l], x) => Carries(Wire[l], x)
                        /\ Once(Wire[l], x) => Once(Wire'[l], x)
  BY <1>1, <1>4
<1>7. OnWire(x)' => OnWire(x)
  BY <1>6 DEF OnWire, Places
<1>8. ASSUME Alone(x) PROVE Alone(x)' /\ (x = m => ~OnWire(x)')
  <2>1. Alone(x)'
    BY <1>6, <1>8 DEF Alone, Places
  <2>2. ASSUME x = m, NEW l \in Places, Carries(Wire'[l], x) PROVE FALSE
    <3>1. l = s
      BY <1>1, <1>4, <1>6, <1>8, <2>2 DEF Alone
    <3>2. QED
      BY <1>1, <1>4, <1>8, <2>2, <3>1 DEF Alone
  <2>3. QED
    BY <2>1, <2>2 DEF OnWire, Places
<1>9. QED
  BY <1>3, <1>5, <1>7, <1>8 DEF m

LEMMA CloseOnWire ==
    ASSUME NEW Up, NEW Down, TransportTypeOK(Up, Down), NEW s \in Sockets, ServerSocketCloses(s), NEW x
    PROVE  (OnWire(x)' => OnWire(x)) /\ (Alone(x) => Alone(x)')
<1>1. Wire'[s] = <<>> /\ \A l \in Places \ {s} : Wire'[l] = Wire[l]
  BY CloseWires
<1>2. ~Carries(<<>>, x) /\ Once(<<>>, x)
  BY DEF Carries, Once
<1>3. \A l \in Places : /\ Carries(Wire'[l], x) => Carries(Wire[l], x)
                        /\ Once(Wire[l], x) => Once(Wire'[l], x)
  BY <1>1, <1>2
<1>4. QED
  BY <1>3 DEF OnWire, Alone, Places

LEMMA SameOnWire ==
    ASSUME UNCHANGED <<queued, up>>, NEW x
    PROVE  (OnWire(x)' <=> OnWire(x)) /\ (Alone(x) => Alone(x)')
<1>1. Wire' = Wire
  BY OtherWires
<1>2. QED
  BY <1>1 DEF OnWire, Alone, Places

-----------------------------------------------------------------------------
(* Types.                                                                  *)

LEMMA TransportInitTypes ==
    ASSUME NEW Up, NEW Down, TransportInit
    PROVE  TransportTypeOK(Up, Down) /\ ConnectionTypeOK /\ ConnectionInv /\ WiresFollowSockets
<1>0. MaxSockets \in Nat
  BY TransportAssumption
<1>1. <<>> \in Seq(Up) /\ <<>> \in Seq(Down)
  OBVIOUS
<1>2. up \in [Sockets -> Seq(Up)] /\ down \in [Sockets -> Seq(Down)] /\ queued \in Seq(Up)
  BY <1>1 DEF TransportInit
<1>3. /\ client \in [Sockets -> {"none", "opening", "open", "closing", "failed", "closed"}]
      /\ server \in [Sockets -> {"none", "open", "closed"}]
  BY DEF TransportInit
<1>4. /\ ws \in 0..MaxSockets /\ created \in 0..MaxSockets
      /\ status \in {"Disconnected", "Connecting", "Connected"}
      /\ url \in {"idle", "awaited", "settled"}
      /\ dispose \in {"no", "waiting", "released", "done"}
  BY <1>0 DEF TransportInit
<1>5. shouldRef \in BOOLEAN
  BY DEF TransportInit
<1>6. TransportTypeOK(Up, Down) /\ ConnectionTypeOK
  BY <1>2, <1>3, <1>4, <1>5 DEF TransportTypeOK, ConnectionTypeOK
<1>7. ConnectionInv /\ WiresFollowSockets
  BY DEF TransportInit, ConnectionInv, SingleConnection, Live, disposed, WiresFollowSockets
<1>8. QED
  BY <1>6, <1>7

LEMMA CommunicationsChangeType ==
    ASSUME NEW before, NEW after, CommunicationsChange(before, after),
           dispose \in {"no", "waiting", "released", "done"}, shouldRef \in BOOLEAN
    PROVE  dispose' \in {"no", "waiting", "released", "done"} /\ shouldRef' \in BOOLEAN
  BY DEF CommunicationsChange

LEMMA SendTypes ==
    ASSUME NEW Up, NEW Down, TransportTypeOK(Up, Down), NEW msg \in Up,
           Transmit(msg) \/ TransmitThrows(msg)
    PROVE  queued' \in Seq(Up) /\ up' \in [Sockets -> Seq(Up)]
<1>1. /\ \A q \in Seq(Up) : q \o <<msg>> \in Seq(Up)
      /\ Append(queued, msg) \in Seq(Up)
  BY DEF TransportTypeOK
<1>2. CASE up' = Carried(ws, <<msg>>) /\ UNCHANGED queued
  BY <1>1, <1>2 DEF TransportTypeOK, Carried
<1>3. CASE queued' = Append(queued, msg) /\ UNCHANGED up
  BY <1>1, <1>3 DEF TransportTypeOK
<1>4. QED
  BY <1>2, <1>3 DEF Transmit, TransmitThrows, connectionVars

LEMMA AnsweredTypes ==
    ASSUME NEW Up, NEW Down, TransportTypeOK(Up, Down), NEW msgs \in Seq(Down), NEW s
    PROVE  Answered(s, msgs) \in [Sockets -> Seq(Down)]
<1>1. \A q \in Seq(Down) : q \o msgs \in Seq(Down)
  OBVIOUS
<1>2. QED
  BY <1>1 DEF TransportTypeOK, Answered
=============================================================================
