----------------------- MODULE WritableSignalsProofs -----------------------
(***************************************************************************)
(* Proofs about WritableSignals, for every number of sockets,              *)
(* subscriptions and writes: the write loop runs while writes wait, what   *)
(* passes for fresh is the server's value with these writes, and what      *)
(* becomes of the writes implements WriteContract.                         *)
(***************************************************************************)
EXTENDS WritableSignals, WsClientTransportProofs

(* The messages, without a bound on the writes in one of them. *)
OtherMsg == [type : {"subscribe", "unsubscribe"}, id : SubscribeIds]
WriteMsg == [type : {"update"}, id : SubscribeIds, updates : Seq(Updates), tag : Updates]
SomeUpMsg == OtherMsg \cup WriteMsg
ReplaceMsg == [type : {"replace"}, id : SubscribeIds, value : Seq(Updates), tag : Tags]
PatchMsg == [type : {"patch"}, id : SubscribeIds, updates : Seq(Updates), tag : Tags]
ErrorMsg == [type : {"error"}, id : SubscribeIds]
SomeDownMsg == ReplaceMsg \cup PatchMsg \cup ErrorMsg

(* The type invariant, without the bounds on sequences. *)
WriterTypes ==
    /\ nextWritableSubscribeId \in 0..MaxSubscribeIds
    /\ openWritableSignalSubscriptions \subseteq SubscribeIds
    /\ firstUpdateReceived \subseteq SubscribeIds
    /\ recoverable \in BOOLEAN
    /\ subscribers \in 0..MaxSubscribers
    /\ upstream \in SubscribeIds \cup {None}
    /\ error \in {"none", "transport", "server"}
    /\ innerValue \in Seq(Int) /\ innerStale \in BOOLEAN
    /\ outerValue \in Seq(Int) /\ outerStale \in BOOLEAN
    /\ queuedUpdates \in Seq(Updates)
    /\ numHandledUpdates \in 0..Len(queuedUpdates)
    /\ loop \in {"idle", "next", "pulling", "pulled", "writing"}
    /\ nextUpdate \in 0..MaxUpdates
    /\ outcome \in [Updates -> {"none", "ignored", "queued", "resolved", "rejected"}]

ServerTypes ==
    /\ source \in Seq(Updates) \cup {NotAvailable}
    /\ subscription \in [SubscribeIds -> {"none", "starting", "open", "closed", "failed"}]
    /\ initialized \in [SubscribeIds -> BOOLEAN]
    /\ home \in [SubscribeIds -> 0..MaxSockets]
    /\ toClose \subseteq SubscribeIds

Types == TransportTypeOK(SomeUpMsg, SomeDownMsg) /\ WriterTypes /\ ServerTypes

(* The writes of the loop's round, which wait for their echo. *)
Round == SubSeq(queuedUpdates, 1, numHandledUpdates)

Ascends(q) == \A i, j \in DOMAIN q : i < j => q[i] < q[j]

(* The loop runs over a subscription that had an update, or waits for its  *)
(* connection.                                                             *)
LoopInv ==
    /\ openWritableSignalSubscriptions = IF upstream = None THEN {} ELSE {upstream}
    /\ upstream # None => ~hasError
    /\ ~innerStale => upstream # None /\ upstream \in firstUpdateReceived
    /\ queuedUpdates # <<>> => loop # "idle"
    /\ loop # "idle" => upstream # None \/ hasError
    /\ loop \in {"writing", "pulled"} => ~innerStale
    /\ loop \in {"pulling", "pulled", "writing"} => queuedUpdates # <<>>
    /\ IF loop = "writing" THEN numHandledUpdates > 0 ELSE numHandledUpdates = 0

ViewInv ==
    ~outerStale => /\ ~innerStale /\ isAvailable(innerValue)
                   /\ outerValue = innerValue \o queuedUpdates

(* Each write is in the queue until it settles, in the order of the calls. *)
QueueInv ==
    /\ Ascends(queuedUpdates)
    /\ \A u \in Updates : /\ outcome[u] = "none" <=> u >= nextUpdate
                          /\ outcome[u] = "queued" <=> u \in ToSet(queuedUpdates)

(* What a write on its way to the server may find there. *)
WriteAgrees(m) ==
    /\ m.updates # <<>> /\ m.tag = m.updates[1] /\ Ascends(m.updates)
    /\ isAvailable(source)
    /\ \A u \in ToSet(m.updates) : u \notin ToSet(source) /\ outcome[u] \in {"queued", "rejected"}
    /\ ToSet(m.updates) \cap ToSet(queuedUpdates) # {} => m.updates = Round

(* A write is on its way once, and never in two messages. *)
WiresInv ==
    /\ \A m \in WriteMsg : OnWire(m) => WriteAgrees(m) /\ Alone(m)
    /\ \A m1, m2 \in WriteMsg :
         OnWire(m1) /\ OnWire(m2) /\ ToSet(m1.updates) \cap ToSet(m2.updates) # {} => m1 = m2

(* What was applied: a round is applied as a whole. *)
SourceInv ==
    isAvailable(source) =>
        \A u \in ToSet(source) :
            /\ outcome[u] \notin {"none", "ignored"}
            /\ u \in ToSet(queuedUpdates) =>
                 u \in ToSet(Round) /\ ToSet(Round) \subseteq ToSet(source)

(* What the client is told: only of a value, and of writes in it. *)
EchoAgrees(m, v) == m.type # "error" => isAvailable(v) /\ (m.tag # None => m.tag \in ToSet(v))

EchoInv ==
    /\ \A s \in Sockets : \A k \in 1..Len(down[s]) : EchoAgrees(down[s][k], source)
    /\ firstUpdateReceived # {} => isAvailable(source)

WriteInv ==
    /\ ConnectionInv /\ WiresFollowSockets
    /\ LoopInv /\ ViewInv /\ QueueInv /\ WiresInv /\ SourceInv /\ EchoInv

LEMMA Bounds ==
    /\ MaxSockets \in Nat /\ MaxSubscribeIds \in Nat /\ MaxSubscribers \in Nat /\ MaxUpdates \in Nat
    /\ Updates \subseteq Int /\ None \notin SubscribeIds /\ None \notin Updates
    /\ \A u \in Seq(Updates) : u \in Seq(Int)
<1>1. MaxSockets \in Nat /\ MaxSubscribeIds \in Nat /\ MaxSubscribers \in Nat /\ MaxUpdates \in Nat
  BY TransportAssumption, WritableSignalsAssumption
<1>2. Updates \subseteq Int /\ None \notin SubscribeIds /\ None \notin Updates
  BY <1>1 DEF Updates, SubscribeIds, None
<1>3. ASSUME NEW q \in Seq(Updates) PROVE q \in Seq(Int)
  <2>1. Len(q) \in Nat /\ q \in [1..Len(q) -> Updates]
    OBVIOUS
  <2>2. q \in [1..Len(q) -> Int]
    BY <1>2, <2>1
  <2>3. QED
    BY <2>1, <2>2
<1>4. QED
  BY <1>1, <1>2, <1>3

-----------------------------------------------------------------------------
(* The queue.                                                              *)

Handled(q, h) == SubSeq(q, 1, h)
Others(q, h) == SubSeq(q, h + 1, Len(q))

(* The writes of the round come before the others. *)
LEMMA RoundSplits ==
    ASSUME NEW q \in Seq(Updates), NEW h \in 0..Len(q),
           NEW r, r = Handled(q, h), NEW o, o = Others(q, h)
    PROVE  /\ r \in Seq(Updates) /\ Len(r) = h /\ o \in Seq(Updates) /\ Len(o) = Len(q) - h
           /\ ToSet(q) = ToSet(r) \cup ToSet(o)
           /\ ToSet(q) \subseteq Updates
           /\ h > 0 => r # <<>> /\ r[1] = Head(q)
           /\ h = Len(q) => r = q
           /\ h = 0 => o = q /\ r = <<>> /\ ToSet(r) = {}
           /\ Ascends(q) => /\ Ascends(r) /\ Ascends(o)
                            /\ \A u \in ToSet(r), v \in ToSet(o) : u < v
<1>1. /\ r \in Seq(Updates) /\ Len(r) = h /\ DOMAIN r = 1..h
      /\ \A k \in 1..h : k \in DOMAIN q /\ r[k] = q[k]
  BY DEF Handled
<1>2. /\ o \in Seq(Updates) /\ Len(o) = Len(q) - h /\ DOMAIN o = 1..(Len(q) - h)
      /\ \A k \in 1..(Len(q) - h) : k + h \in DOMAIN q /\ o[k] = q[k + h]
  BY DEF Others
<1>3. Len(q) \in Nat /\ h \in Nat /\ DOMAIN q = 1..Len(q) /\ \A k \in DOMAIN q : q[k] \in Updates
  OBVIOUS
<1>4. \A k \in DOMAIN q : k \in 1..h \/ (k - h \in 1..(Len(q) - h) /\ (k - h) + h = k)
  BY <1>3
<1>5. ToSet(q) \subseteq Updates
  BY <1>3 DEF ToSet
<1>6. h > 0 => r # <<>> /\ r[1] = Head(q)
  <2> SUFFICES ASSUME h > 0 PROVE r # <<>> /\ r[1] = Head(q)
    OBVIOUS
  <2>1. 1 \in 1..h /\ Len(<<>>) = 0
    BY <1>3
  <2>2. r[1] = q[1] /\ 1 \in DOMAIN q
    BY <1>1, <2>1
  <2>3. q # <<>>
    BY <1>3
  <2>4. QED
    BY <1>1, <2>1, <2>2, <2>3
<1>7. h = Len(q) => r = q
  BY DEF Handled
<1>8. h = 0 => o = q /\ r = <<>>
  BY <1>1 DEF Others
<1>9. ToSet(<<>>) = {}
  BY DEF ToSet
<1> HIDE DEF ToSet
<1>10. ToSet(q) = ToSet(r) \cup ToSet(o)
  <2>1. \A u \in ToSet(q) : u \in ToSet(r) \/ u \in ToSet(o)
    <3> SUFFICES ASSUME NEW k \in DOMAIN q PROVE q[k] \in ToSet(r) \/ q[k] \in ToSet(o)
      BY DEF ToSet
    <3>1. CASE k \in 1..h
      BY <1>1, <3>1 DEF ToSet
    <3>2. CASE k - h \in 1..(Len(q) - h) /\ (k - h) + h = k
      <4>1. o[k - h] = q[k]
        BY <1>2, <3>2
      <4>2. QED
        BY <1>2, <3>2, <4>1 DEF ToSet
    <3>3. QED
      BY <1>4, <3>1, <3>2
  <2>2. \A u \in ToSet(r) : u \in ToSet(q)
    BY <1>1 DEF ToSet
  <2>3. \A u \in ToSet(o) : u \in ToSet(q)
    BY <1>2 DEF ToSet
  <2>4. QED
    BY <2>1, <2>2, <2>3
<1>11. ASSUME Ascends(q)
       PROVE  Ascends(r) /\ Ascends(o) /\ \A u \in ToSet(r), v \in ToSet(o) : u < v
  <2>1. Ascends(r)
    BY <1>1, <1>11 DEF Ascends
  <2>2. Ascends(o)
    <3> SUFFICES ASSUME NEW i \in DOMAIN o, NEW j \in DOMAIN o, i < j PROVE o[i] < o[j]
      BY DEF Ascends
    <3>1. i + h \in DOMAIN q /\ j + h \in DOMAIN q
      BY <1>2
    <3>2. i + h < j + h
      <4>1. i \in 1..(Len(q) - h) /\ j \in 1..(Len(q) - h)
        BY <1>2
      <4>2. QED
        BY <1>3, <4>1
    <3>3. q[i + h] < q[j + h]
      BY <1>11, <3>1, <3>2 DEF Ascends
    <3>4. QED
      BY <1>2, <3>3
  <2>3. ASSUME NEW i \in DOMAIN r, NEW j \in DOMAIN o PROVE r[i] < o[j]
    <3>1. i \in DOMAIN q /\ j + h \in DOMAIN q
      BY <1>1, <1>2
    <3>2. i < j + h
      <4>1. i \in 1..h /\ j \in 1..(Len(q) - h)
        BY <1>1, <1>2
      <4>2. QED
        BY <1>3, <4>1
    <3>3. q[i] < q[j + h]
      BY <1>11, <3>1, <3>2 DEF Ascends
    <3>4. QED
      BY <1>1, <1>2, <3>3
  <2>4. \A u \in ToSet(r), v \in ToSet(o) : u < v
    BY <2>3 DEF ToSet
  <2>5. QED
    BY <2>1, <2>2, <2>4
<1>12. QED
  BY <1>1, <1>2, <1>5, <1>6, <1>7, <1>8, <1>9, <1>10, <1>11

(* A new write is queued behind the others. *)
LEMMA AppendSplits ==
    ASSUME NEW q \in Seq(Updates), NEW n \in Updates, NEW h \in 0..Len(q), NEW a, a = Append(q, n)
    PROVE  /\ a \in Seq(Updates) /\ a # <<>> /\ Len(a) = Len(q) + 1 /\ h \in 0..Len(a)
           /\ ToSet(a) = ToSet(q) \cup {n}
           /\ SubSeq(a, 1, h) = SubSeq(q, 1, h)
           /\ q = <<>> => a = <<n>>
           /\ Ascends(q) /\ (\A u \in ToSet(q) : u < n) => Ascends(a)
<1>1. /\ a \in Seq(Updates) /\ Len(a) = Len(q) + 1 /\ Len(q) \in Nat
      /\ \A k \in 1..Len(q) : a[k] = q[k] /\ q[k] \in Updates
      /\ a[Len(q) + 1] = n
  BY AppendPoints
<1>2. DOMAIN a = 1..(Len(q) + 1) /\ DOMAIN q = 1..Len(q)
  BY <1>1
<1>3. a # <<>> /\ h \in 0..Len(a) /\ (q = <<>> => a = <<n>>)
  <2>1. q = <<>> => a = <<n>>
    OBVIOUS
  <2>2. Len(a) # 0 /\ Len(<<>>) = 0 /\ h \in 0..(Len(q) + 1)
    BY <1>1
  <2>3. QED
    BY <1>1, <2>1, <2>2
<1>4. \A k \in DOMAIN a : k \in DOMAIN q \/ k = Len(q) + 1
  BY <1>2
<1>5. \A k \in DOMAIN q : k \in DOMAIN a /\ k < Len(q) + 1
  BY <1>1, <1>2
<1>6. Len(q) + 1 \in DOMAIN a
  BY <1>1, <1>2
<1> HIDE DEF Ascends
<1>7. ToSet(a) = ToSet(q) \cup {n}
  <2>1. \A u \in ToSet(a) : u \in ToSet(q) \/ u = n
    BY <1>1, <1>2, <1>4 DEF ToSet
  <2>2. \A u \in ToSet(q) : u \in ToSet(a)
    BY <1>1, <1>2, <1>5 DEF ToSet
  <2>3. n \in ToSet(a)
    BY <1>1, <1>6 DEF ToSet
  <2>4. QED
    BY <2>1, <2>2, <2>3
<1>8. ASSUME Ascends(q), \A u \in ToSet(q) : u < n PROVE Ascends(a)
  <2> SUFFICES ASSUME NEW i \in DOMAIN a, NEW j \in DOMAIN a, i < j PROVE a[i] < a[j]
    BY DEF Ascends
  <2>1. i \in DOMAIN q
    BY <1>1, <1>2, <1>4
  <2>2. CASE j \in DOMAIN q
    BY <1>1, <1>2, <1>8, <2>1, <2>2 DEF Ascends
  <2>3. CASE j = Len(q) + 1
    <3>1. q[i] \in ToSet(q)
      BY <2>1 DEF ToSet
    <3>2. QED
      BY <1>1, <1>2, <1>8, <2>1, <2>3, <3>1
  <2>4. QED
    BY <1>4, <2>2, <2>3
<1> DEFINE r == SubSeq(q, 1, h)
           s == SubSeq(a, 1, h)
<1>9. SubSeq(a, 1, h) = SubSeq(q, 1, h)
  <2>1. r \in Seq(Updates) /\ Len(r) = h /\ \A k \in 1..h : r[k] = q[k] /\ k \in 1..Len(q)
    OBVIOUS
  <2>2. s \in Seq(Updates) /\ Len(s) = h /\ \A k \in 1..h : s[k] = a[k]
    BY <1>1, <1>3
  <2> HIDE DEF r, s
  <2>3. \A k \in 1..h : s[k] = r[k]
    BY <1>1, <2>1, <2>2
  <2>4. r = s
    BY <2>1, <2>2, <2>3
  <2>5. QED
    BY <2>4 DEF r, s
<1>10. QED
  BY <1>1, <1>3, <1>7, <1>8, <1>9

-----------------------------------------------------------------------------
(* The steps, by what they do to the writes.                               *)

Still == UNCHANGED <<queuedUpdates, numHandledUpdates, nextUpdate, outcome>>

SendsNoWrite == \E msg \in OtherMsg : SafeSend(msg)

(* A write waits for its turn. *)
Appends ==
    /\ nextUpdate \in Updates /\ nextUpdate' = nextUpdate + 1
    /\ queuedUpdates' = Append(queuedUpdates, nextUpdate)
    /\ outcome' = [outcome EXCEPT ![nextUpdate] = "queued"]

Ignores ==
    /\ nextUpdate \in Updates /\ nextUpdate' = nextUpdate + 1
    /\ outcome' = [outcome EXCEPT ![nextUpdate] = "ignored"]
    /\ UNCHANGED <<queuedUpdates, numHandledUpdates, queued, up, source>>

Queues ==
    /\ Appends
    /\ SendsNoWrite \/ UNCHANGED <<queued, up>>
    /\ UNCHANGED <<numHandledUpdates, source>>

RoundMsg(updates) ==
    [type |-> "update", id |-> upstream, updates |-> updates, tag |-> Head(updates)]

(* All the writes that wait are sent. *)
SendsRound ==
    /\ Appends \/ UNCHANGED <<queuedUpdates, nextUpdate, outcome>>
    /\ numHandledUpdates = 0 /\ numHandledUpdates' = Len(queuedUpdates')
    /\ queuedUpdates' # <<>>
    /\ upstream \in firstUpdateReceived
    /\ SafeSend(RoundMsg(queuedUpdates'))
    /\ UNCHANGED source

Settles(result) ==
    /\ numHandledUpdates > 0 /\ numHandledUpdates' = 0
    /\ outcome' = Settled(outcome, Round, result)
    /\ queuedUpdates' = SubSeq(queuedUpdates, numHandledUpdates + 1, Len(queuedUpdates))
    /\ UNCHANGED <<nextUpdate, queued, up, source>>

Echoed(s) ==
    down[s] # <<>> /\ Head(down[s]).type # "error" /\ Head(down[s]).tag = Head(queuedUpdates)

Finishes == Settles("resolved") /\ \E s \in Sockets : Echoed(s)

GivesUp == Settles("rejected")

(* The writes stay as they are. *)
Moves ==
    /\ Still /\ UNCHANGED source
    /\ \/ UNCHANGED <<queued, up>>
       \/ SendsNoWrite
       \/ \E s \in Sockets : ServerSocketCloses(s)
       \/ \E s \in Sockets, msgs \in Seq(OtherMsg) : OnWsOpen(s, msgs)

LEMMA RegisterFacts ==
    ASSUME Types, Register
    PROVE  /\ SubscribeMsg \in OtherMsg /\ upstream' = nextWritableSubscribeId
           /\ upstream' \in SubscribeIds /\ nextWritableSubscribeId' \in 0..MaxSubscribeIds
           /\ openWritableSignalSubscriptions' = openWritableSignalSubscriptions \cup {upstream'}
<1>1. nextWritableSubscribeId \in SubscribeIds /\ nextWritableSubscribeId + 1 \in 0..MaxSubscribeIds
  BY Bounds DEF Register, SubscribeIds, Types, WriterTypes
<1>2. QED
  BY <1>1 DEF Register, SubscribeMsg, OtherMsg

LEMMA UpdateSteps ==
    ASSUME Types, LoopInv, Update
    PROVE  Ignores \/ Queues \/ SendsRound
<1>1. nextUpdate \in Updates /\ nextUpdate' = nextUpdate + 1
  BY Bounds DEF Update, Types, WriterTypes, Updates
<1>2. UNCHANGED source
  BY DEF Update, serverVars
<1>3. CASE hasError
  BY <1>1, <1>2, <1>3 DEF Update, Ignores, connectionVars
<1>4. CASE ~hasError /\ MayStartLoop /\ ~innerStale
  <2>1. Write(<<nextUpdate>>, [outcome EXCEPT ![nextUpdate] = "queued"])
    BY <1>4 DEF Update
  <2>2. upstream \in openWritableSignalSubscriptions \cap firstUpdateReceived
    BY <1>4 DEF LoopInv
  <2>3. queuedUpdates = <<>> /\ numHandledUpdates = 0
    BY <1>4 DEF LoopInv, MayStartLoop
  <2>4. Append(queuedUpdates, nextUpdate) = <<nextUpdate>>
    BY <2>3
  <2>5. <<nextUpdate>> # <<>> /\ Len(<<nextUpdate>>) = 1
    OBVIOUS
  <2>6. QED
    BY <1>1, <1>2, <2>1, <2>2, <2>3, <2>4, <2>5 DEF Write, SendsRound, Appends, RoundMsg
<1>5. CASE ~hasError /\ ~(MayStartLoop /\ ~innerStale)
  <2>1. Appends /\ UNCHANGED numHandledUpdates
    BY <1>1, <1>5 DEF Update, Appends
  <2>2. CASE SubscribeInner
    <3>1. Register => SubscribeMsg \in OtherMsg
      BY RegisterFacts
    <3>2. QED
      BY <1>2, <2>1, <2>2, <3>1 DEF SubscribeInner, Queues, SendsNoWrite, connectionVars
  <2>3. CASE UNCHANGED <<connectionVars, up>>
    BY <1>2, <2>1, <2>3 DEF Queues, connectionVars
  <2>4. QED
    BY <1>5, <2>2, <2>3 DEF Update
<1>6. QED
  BY <1>3, <1>4, <1>5

(* The loop sends what waits as soon as it has a fresh value. *)
LEMMA LoopSteps ==
    ASSUME Types, LoopInv, LoopContinues \/ LoopPulled
    PROVE  SendsRound \/ Moves
<1>1. UNCHANGED source /\ nextUpdate' = nextUpdate
  BY DEF LoopContinues, LoopPulled, serverVars
<1>2. CASE Write(queuedUpdates, outcome) /\ queuedUpdates # <<>> /\ ~innerStale
  <2>1. numHandledUpdates = 0
    BY DEF LoopInv, LoopContinues, LoopPulled
  <2>2. upstream \in openWritableSignalSubscriptions \cap firstUpdateReceived
    BY <1>2 DEF LoopInv
  <2>3. QED
    BY <1>1, <1>2, <2>1, <2>2 DEF Write, SendsRound, RoundMsg
<1>3. CASE UNCHANGED <<connectionVars, up, queuedUpdates, numHandledUpdates, outcome>>
  BY <1>1, <1>3 DEF Moves, Still, connectionVars
<1>4. CASE UnsubscribeInner /\ UNCHANGED <<queuedUpdates, numHandledUpdates, outcome>>
  <2>1. upstream # None => [type |-> "unsubscribe", id |-> upstream] \in OtherMsg
    BY DEF OtherMsg, Types, WriterTypes
  <2>2. QED
    BY <1>1, <1>4, <2>1 DEF UnsubscribeInner, Moves, Still, SendsNoWrite, connectionVars
<1>5. LoopPulled => queuedUpdates # <<>> /\ ~innerStale
  BY DEF LoopPulled, LoopInv
<1>6. QED
  BY <1>2, <1>3, <1>4, <1>5 DEF LoopContinues, LoopPulled

LEMMA ReceiveSteps ==
    ASSUME Types, LoopInv, NEW s \in Sockets, ClientReceives(s)
    PROVE  Finishes \/ GivesUp \/ Moves
<1> DEFINE m == Head(down[s])
<1>1. UNCHANGED <<queued, up, source>> /\ down[s] # <<>>
  BY DEF ClientReceives, TakeMessage, connectionVars, serverVars
<1>2. CASE ReceivedWritableSignalUpdate(m)
  <2>1. nextUpdate' = nextUpdate /\ m.type # "error"
    BY <1>2 DEF ReceivedWritableSignalUpdate
  <2>2. CASE FinishWrite(m)
    <3>1. numHandledUpdates > 0
      BY <2>2 DEF FinishWrite, LoopInv
    <3>2. Echoed(s)
      BY <1>1, <2>1, <2>2 DEF FinishWrite, Echoed
    <3>3. QED
      BY <1>1, <2>1, <2>2, <3>1, <3>2 DEF FinishWrite, Finishes, Settles, Round
  <2>3. CASE PassiveUpdate(m)
    BY <1>1, <2>1, <2>3 DEF PassiveUpdate, Moves, Still
  <2>4. QED
    BY <1>2, <2>2, <2>3 DEF ReceivedWritableSignalUpdate
<1>3. CASE SignalErrors("server")
  BY <1>1, <1>3 DEF SignalErrors, LoopInv, GivesUp, Settles, Round, Moves, Still
<1>4. CASE UNCHANGED clientVars
  BY <1>1, <1>4 DEF clientVars, writeVars, Moves, Still
<1>5. QED
  BY <1>2, <1>3, <1>4 DEF ClientReceives, ReceivedWritableSignalError

LEMMA LostSteps ==
    ASSUME Types, LoopInv, NEW s \in Sockets, ConnectionLost(s)
    PROVE  GivesUp \/ Moves
<1>1. UNCHANGED <<queued, up, source>>
  BY DEF ConnectionLost, SocketErrors, SocketCloses, OnWsError, serverVars
<1>2. CASE SignalErrors("transport")
  BY <1>1, <1>2 DEF SignalErrors, LoopInv, GivesUp, Settles, Round, Moves, Still
<1>3. CASE UNCHANGED writeVars
  BY <1>1, <1>3 DEF writeVars, Moves, Still
<1>4. QED
  BY <1>2, <1>3 DEF ConnectionLost, Errored, clientVars

LEMMA OtherSteps ==
    ASSUME Types, LoopInv, NEW s \in Sockets,
           \/ Subscribe \/ Unsubscribe \/ ConnectStep
           \/ ConnectionOpens(s) \/ ServerConnectionLost(s)
           \/ \E i \in SubscribeIds : SignalHandlerReturns(i) \/ SignalHandlerThrows(i)
           \/ UNCHANGED vars
    PROVE  Moves
<1> USE DEF Moves, Still
<1>1. Register => SubscribeMsg \in OtherMsg
  BY RegisterFacts
<1>2. upstream # None => [type |-> "unsubscribe", id |-> upstream] \in OtherMsg
  BY DEF OtherMsg, Types, WriterTypes
<1>3. CASE Subscribe
  BY <1>1, <1>3 DEF Subscribe, SubscribeInner, SendsNoWrite, writeVars, serverVars, connectionVars
<1>4. CASE Unsubscribe
  BY <1>2, <1>4 DEF Unsubscribe, UnsubscribeInner, SendsNoWrite, serverVars, connectionVars
<1>5. CASE ConnectionOpens(s)
  <2>1. UNCHANGED <<queuedUpdates, numHandledUpdates, nextUpdate, outcome, source>>
    BY <1>5 DEF ConnectionOpens, writeVars, serverVars
  <2>2. CASE Register /\ OnWsOpen(s, <<SubscribeMsg>>)
    <3>1. <<SubscribeMsg>> \in Seq(OtherMsg)
      BY <1>1, <2>2
    <3>2. QED
      BY <2>1, <2>2, <3>1
  <2>3. CASE OnWsOpen(s, <<>>)
    <3>1. <<>> \in Seq(OtherMsg)
      OBVIOUS
    <3>2. QED
      BY <2>1, <2>3, <3>1
  <2>4. QED
    BY <1>5, <2>2, <2>3 DEF ConnectionOpens
<1>6. CASE ServerConnectionLost(s)
  BY <1>6 DEF ServerConnectionLost, clientVars, writeVars
<1>7. CASE ConnectStep \/ UNCHANGED vars
  BY <1>7 DEF ConnectStep, EnsureConnectedOrStartConnection, clientVars, writeVars, serverVars, vars,
     transportVars, connectionVars
<1>8. ASSUME NEW i \in SubscribeIds, SignalHandlerReturns(i) \/ SignalHandlerThrows(i) PROVE Moves
  BY <1>8 DEF SignalHandlerReturns, SignalHandlerThrows, clientVars, writeVars, connectionVars
<1>9. QED
  BY <1>3, <1>4, <1>5, <1>6, <1>7, <1>8

LEMMA StepKinds ==
    ASSUME Types, LoopInv, [Next]_vars
    PROVE  \/ Ignores \/ Queues \/ SendsRound \/ Finishes \/ GivesUp \/ Moves
           \/ \E s \in Sockets : ServerReceives(s)
           \/ SourceBecomesAvailable
<1>1. 1 \in Sockets
  BY TransportAssumption DEF Sockets
<1>2. CASE ApplicationStep
  BY <1>1, <1>2, UpdateSteps, OtherSteps DEF ApplicationStep
<1>3. CASE LoopStep
  BY <1>3, LoopSteps DEF LoopStep
<1>4. CASE NetworkStep
  BY <1>4, ReceiveSteps, LostSteps, OtherSteps DEF NetworkStep
<1>5. CASE ConnectStep \/ ServerStep \/ UNCHANGED vars
  BY <1>1, <1>5, OtherSteps DEF ServerStep
<1>6. QED
  BY <1>2, <1>3, <1>4, <1>5 DEF Next

(* The write the server takes is applied, or has no effect. *)
LEMMA TakeSteps ==
    ASSUME Types, NEW s \in Sockets, ServerReceives(s)
    PROVE  /\ Still /\ ServerTakeMessage(s) /\ Head(up[s]) \in SomeUpMsg
           /\ \/ source' = source
              \/ /\ Head(up[s]) \in WriteMsg /\ isAvailable(source)
                 /\ source' = source \o Head(up[s]).updates
<1> DEFINE m == Head(up[s])
<1>1. ServerTakeMessage(s) /\ UNCHANGED clientVars
  BY DEF ServerReceives
<1>2. m \in SomeUpMsg
  <2>1. TransportTypeOK(SomeUpMsg, SomeDownMsg)
    BY DEF Types
  <2>2. QED
    BY <1>1, <2>1, TakeOnWire
<1>3. m.type = "update" => m \in WriteMsg
  BY <1>2 DEF SomeUpMsg, OtherMsg
<1> HIDE DEF m
<1>4. \/ ReceivedWritableSignalSubscribe(s, m)
      \/ ReceivedWritableSignalUnsubscribe(m)
      \/ ServerReceivedWritableSignalUpdate(m)
  BY DEF ServerReceives, m
<1>5. source' = source \/ (m.type = "update" /\ isAvailable(source) /\ source' = source \o m.updates)
  BY <1>4 DEF ReceivedWritableSignalSubscribe, ReceivedWritableSignalUnsubscribe,
     ServerReceivedWritableSignalUpdate, SourceChanges
<1>6. QED
  BY <1>1, <1>2, <1>3, <1>5 DEF Still, clientVars, writeVars, m

-----------------------------------------------------------------------------
(* Types.                                                                  *)

LEMMA NextStaysDisposed ==
    ASSUME [Next]_vars
    PROVE  StaysDisposed
<1>1. CASE UNCHANGED dispose
  BY <1>1 DEF StaysDisposed, disposed
<1>2. CASE UpdateOpenCommunicationsCount
  BY <1>2, CommunicationsChangeKeepsDisposed DEF UpdateOpenCommunicationsCount
<1>3. CASE CommunicationsChange(openCommunicationsCount, 0)
  BY <1>3, CommunicationsChangeKeepsDisposed
<1>4. SubscribeInner => UNCHANGED dispose \/ UpdateOpenCommunicationsCount
  BY DEF SubscribeInner, Register, NotRegistered
<1>5. CASE ApplicationStep \/ LoopStep
  BY <1>1, <1>2, <1>4, <1>5 DEF ApplicationStep, LoopStep, Subscribe, Unsubscribe, Update, NotRegistered,
     LoopContinues, LoopPulled
<1>6. CASE ConnectStep \/ ServerStep \/ UNCHANGED vars
  BY <1>1, <1>6 DEF ConnectStep, ServerStep, EnsureConnectedOrStartConnection, SourceBecomesAvailable,
     SignalHandlerReturns, SignalHandlerThrows, vars, transportVars
<1>7. ASSUME NEW s \in Sockets, ClientReceives(s) PROVE StaysDisposed
  BY <1>1, <1>2, <1>7 DEF ClientReceives, ReceivedWritableSignalUpdate, ReceivedWritableSignalError
<1>8. ASSUME NEW s \in Sockets, ConnectionOpens(s) \/ ConnectionLost(s) \/ ServerReceives(s)
                              \/ ServerConnectionLost(s)
      PROVE  StaysDisposed
  BY <1>1, <1>2, <1>3, <1>8 DEF ConnectionOpens, Register, NotRegistered, ConnectionLost,
     ServerReceives, ServerTakeMessage, ServerConnectionLost, ServerSocketCloses
<1>9. QED
  BY <1>5, <1>6, <1>7, <1>8 DEF Next, NetworkStep

LEMMA NextIsTransportStep ==
    ASSUME [Next]_vars
    PROVE  TransportStep
<1> USE DEF TransportStep
<1>1. ASSUME NEW msg, SafeSend(msg), UNCHANGED server PROVE TransportStep
  BY <1>1 DEF SafeSend, Sends
<1>2. CASE UNCHANGED <<connectionVars, up, server>>
  BY <1>2 DEF connectionVars, Quiet
<1>3. CASE SubscribeInner /\ UNCHANGED server
  BY <1>1, <1>2, <1>3 DEF SubscribeInner
<1>4. CASE UnsubscribeInner /\ UNCHANGED server
  BY <1>1, <1>2, <1>4 DEF UnsubscribeInner
<1>5. ASSUME NEW updates, NEW promises, Write(updates, promises), UNCHANGED server
      PROVE  TransportStep
  BY <1>1, <1>2, <1>5 DEF Write
<1>6. CASE ApplicationStep
  BY <1>2, <1>3, <1>4, <1>5, <1>6 DEF ApplicationStep, Subscribe, Unsubscribe, Update
<1>7. CASE LoopStep
  BY <1>2, <1>4, <1>5, <1>7 DEF LoopStep, LoopContinues, LoopPulled
<1>8. CASE ConnectStep
  BY <1>8 DEF ConnectStep
<1>9. ASSUME NEW s \in Sockets, ClientReceives(s) PROVE TransportStep
  BY <1>2, <1>9 DEF ClientReceives, TakeMessage
<1>10. ASSUME NEW s \in Sockets, \/ ConnectionOpens(s) \/ ConnectionLost(s)
                                 \/ ServerReceives(s) \/ ServerConnectionLost(s)
       PROVE  TransportStep
  BY <1>10 DEF ConnectionOpens, ConnectionLost, ServerReceives, ServerConnectionLost, SocketStep
<1>11. CASE ServerStep \/ UNCHANGED vars
  BY <1>2, <1>11 DEF ServerStep, SourceBecomesAvailable, SignalHandlerReturns, SignalHandlerThrows,
     vars, transportVars
<1>12. QED
  BY <1>6, <1>7, <1>8, <1>9, <1>10, <1>11 DEF Next, NetworkStep

LEMMA RoundMsgType ==
    ASSUME NEW q \in Seq(Updates), q # <<>>, upstream \in SubscribeIds
    PROVE  RoundMsg(q) \in WriteMsg
<1>1. Head(q) \in Updates
  OBVIOUS
<1>2. QED
  BY <1>1 DEF RoundMsg, WriteMsg

LEMMA UpTypes ==
    ASSUME Types, LoopInv, [Next]_vars
    PROVE  queued' \in Seq(SomeUpMsg) /\ up' \in [Sockets -> Seq(SomeUpMsg)]
<1>0. /\ TransportTypeOK(SomeUpMsg, SomeDownMsg)
      /\ queued \in Seq(SomeUpMsg) /\ up \in [Sockets -> Seq(SomeUpMsg)]
  BY DEF Types, TransportTypeOK
<1>1. CASE UNCHANGED <<queued, up>>
  BY <1>0, <1>1
<1>2. ASSUME NEW msg \in SomeUpMsg, SafeSend(msg)
      PROVE  queued' \in Seq(SomeUpMsg) /\ up' \in [Sockets -> Seq(SomeUpMsg)]
  BY <1>0, <1>2, SendTypes DEF SafeSend
<1>3. CASE SendsNoWrite
  BY <1>2, <1>3 DEF SendsNoWrite, SomeUpMsg
<1>4. CASE SendsRound
  <2>1. queuedUpdates' \in Seq(Updates)
    <3>1. queuedUpdates \in Seq(Updates)
      BY DEF Types, WriterTypes
    <3>2. nextUpdate \in Updates => Append(queuedUpdates, nextUpdate) \in Seq(Updates)
      BY <3>1
    <3>3. QED
      BY <1>4, <3>1, <3>2 DEF SendsRound, Appends
  <2>2. upstream \in SubscribeIds
    BY <1>4 DEF SendsRound, Types, WriterTypes
  <2>3. RoundMsg(queuedUpdates') \in SomeUpMsg
    BY <1>4, <2>1, <2>2, RoundMsgType DEF SendsRound, SomeUpMsg
  <2>4. QED
    BY <1>2, <1>4, <2>3 DEF SendsRound
<1>5. ASSUME NEW s \in Sockets, NEW msgs \in Seq(OtherMsg), OnWsOpen(s, msgs)
      PROVE  queued' \in Seq(SomeUpMsg) /\ up' \in [Sockets -> Seq(SomeUpMsg)]
  <2>1. msgs \in Seq(SomeUpMsg)
    BY DEF SomeUpMsg
  <2>2. \A q \in Seq(SomeUpMsg) : q \o queued \o msgs \in Seq(SomeUpMsg)
    BY <1>0, <2>1
  <2>3. up' = [up EXCEPT ![ws] = @ \o queued \o msgs] /\ queued' = <<>>
    BY <1>5 DEF OnWsOpen
  <2>4. <<>> \in Seq(SomeUpMsg)
    OBVIOUS
  <2>5. up' \in [Sockets -> Seq(SomeUpMsg)]
    BY <1>0, <2>2, <2>3
  <2>6. QED
    BY <2>3, <2>4, <2>5
<1>6. ASSUME NEW s \in Sockets, ServerTakeMessage(s) \/ ServerSocketCloses(s)
      PROVE  queued' \in Seq(SomeUpMsg) /\ up' \in [Sockets -> Seq(SomeUpMsg)]
  <2>1. \A q \in Seq(SomeUpMsg) : q # <<>> => Tail(q) \in Seq(SomeUpMsg)
    OBVIOUS
  <2>2. <<>> \in Seq(SomeUpMsg)
    OBVIOUS
  <2>3. QED
    BY <1>0, <1>6, <2>1, <2>2 DEF ServerTakeMessage, ServerSocketCloses, connectionVars
<1>7. QED
  BY <1>1, <1>3, <1>4, <1>5, <1>6, StepKinds, TakeSteps DEF Ignores, Queues, Finishes, GivesUp, Settles,
     Moves, SourceBecomesAvailable, connectionVars

LEMMA DisposeTypes ==
    ASSUME Types, [Next]_vars
    PROVE  dispose' \in {"no", "waiting", "released", "done"} /\ shouldRef' \in BOOLEAN
<1>0. dispose \in {"no", "waiting", "released", "done"} /\ shouldRef \in BOOLEAN
  BY DEF Types, TransportTypeOK
<1>1. CASE UNCHANGED <<dispose, shouldRef>>
  BY <1>0, <1>1
<1>2. CASE UpdateOpenCommunicationsCount
  BY <1>0, <1>2, CommunicationsChangeType DEF UpdateOpenCommunicationsCount
<1>3. CASE CommunicationsChange(openCommunicationsCount, 0)
  BY <1>0, <1>3, CommunicationsChangeType
<1>4. SubscribeInner => UNCHANGED <<dispose, shouldRef>> \/ UpdateOpenCommunicationsCount
  BY DEF SubscribeInner, Register, NotRegistered
<1>5. CASE ApplicationStep \/ LoopStep
  BY <1>1, <1>2, <1>4, <1>5 DEF ApplicationStep, LoopStep, Subscribe, Unsubscribe, Update, NotRegistered,
     LoopContinues, LoopPulled
<1>6. CASE ConnectStep \/ ServerStep \/ UNCHANGED vars
  BY <1>1, <1>6 DEF ConnectStep, ServerStep, EnsureConnectedOrStartConnection, SourceBecomesAvailable,
     SignalHandlerReturns, SignalHandlerThrows, vars, transportVars
<1>7. ASSUME NEW s \in Sockets, ClientReceives(s)
      PROVE  UNCHANGED <<dispose, shouldRef>> \/ UpdateOpenCommunicationsCount
  BY <1>7 DEF ClientReceives, ReceivedWritableSignalUpdate, ReceivedWritableSignalError
<1>8. ASSUME NEW s \in Sockets, ConnectionOpens(s) \/ ConnectionLost(s) \/ ServerReceives(s)
                              \/ ServerConnectionLost(s)
      PROVE  \/ UNCHANGED <<dispose, shouldRef>> \/ UpdateOpenCommunicationsCount
             \/ CommunicationsChange(openCommunicationsCount, 0)
  BY <1>8 DEF ConnectionOpens, Register, NotRegistered, ConnectionLost, ServerReceives,
     ServerTakeMessage, ServerConnectionLost, ServerSocketCloses
<1>9. QED
  BY <1>1, <1>2, <1>3, <1>5, <1>6, <1>7, <1>8 DEF Next, NetworkStep

-----------------------------------------------------------------------------
(* The server's value, and what the client is told of it.                  *)

LEMMA WritesAreValues ==
    ASSUME NEW v \in Seq(Updates)
    PROVE  isAvailable(v)
<1>1. CASE v = <<>>
  BY <1>1 DEF isAvailable, NotAvailable
<1>2. CASE v # <<>>
  <2>1. v[1] \in Updates /\ <<None>>[1] = None
    BY <1>2
  <2>2. QED
    BY <2>1, Bounds DEF isAvailable, NotAvailable
<1>3. QED
  BY <1>1, <1>2

(* The value is never taken back. *)
LEMMA SourceGrows ==
    ASSUME Types, LoopInv, [Next]_vars
    PROVE  /\ source' \in Seq(Updates) \cup {NotAvailable}
           /\ isAvailable(source) => /\ isAvailable(source')
                                     /\ ToSet(source) \subseteq ToSet(source')
<1>0. source \in Seq(Updates) \cup {NotAvailable}
  BY DEF Types, ServerTypes
<1>1. CASE source' = source
  BY <1>0, <1>1
<1>2. ASSUME NEW m \in WriteMsg, isAvailable(source), source' = source \o m.updates
      PROVE  source' \in Seq(Updates) /\ isAvailable(source') /\ ToSet(source) \subseteq ToSet(source')
  <2>1. source \in Seq(Updates) /\ m.updates \in Seq(Updates)
    BY <1>0, <1>2 DEF isAvailable, WriteMsg
  <2>2. /\ source' \in Seq(Updates)
        /\ \A k \in DOMAIN source : k \in DOMAIN source' /\ source'[k] = source[k]
    BY <1>2, <2>1
  <2>3. \A u \in ToSet(source) : u \in ToSet(source')
    BY <2>2 DEF ToSet
  <2>4. QED
    BY <2>2, <2>3, WritesAreValues
<1>3. CASE SourceBecomesAvailable
  BY <1>3 DEF SourceBecomesAvailable, SourceChanges
<1>4. ASSUME NEW s \in Sockets, ServerReceives(s)
      PROVE  source' = source \/ \E m \in WriteMsg : isAvailable(source) /\ source' = source \o m.updates
  BY <1>4, TakeSteps
<1>5. QED
  BY <1>1, <1>2, <1>3, <1>4, StepKinds DEF Ignores, Queues, SendsRound, Finishes, GivesUp, Settles, Moves

LEMMA UpdateMsgType ==
    ASSUME NEW i \in SubscribeIds, NEW v \in Seq(Updates), NEW updates \in Seq(Updates), NEW tag \in Tags,
           NEW m, m = UpdateMsg(i, v, updates, tag)
    PROVE  m \in SomeDownMsg /\ m.type # "error" /\ m.tag = tag /\ m.id = i
  BY DEF UpdateMsg, SomeDownMsg, ReplaceMsg, PatchMsg

LEMMA AnsweredPoints ==
    ASSUME Types, NEW s \in Sockets, NEW t, NEW msgs \in Seq(SomeDownMsg)
    PROVE  Answered(t, msgs)[s] =
             IF s = t /\ server[s] = "open" /\ client[s] \in {"open", "closing"}
             THEN down[s] \o msgs ELSE down[s]
  BY DEF Answered, Types, TransportTypeOK

(* A change of the server's value is told on every socket. *)
LEMMA ChangeSends ==
    ASSUME Types, NEW v \in Seq(Updates), NEW updates \in Seq(Updates), NEW tag \in Tags,
           SourceChanges(v, updates, tag), NEW s \in Sockets
    PROVE  \E r \in Seq(SomeDownMsg) :
             /\ down'[s] = down[s] \o r \/ down'[s] = down[s]
             /\ \A k \in 1..Len(r) : r[k].type # "error" /\ r[k].tag = tag
<1> DEFINE told == {i \in Open : home[i] = s}
           msgs == {UpdateMsg(i, v, updates, tag) : i \in told}
           f == [i \in told |-> UpdateMsg(i, v, updates, tag)]
           r == SetToSeq(msgs)
<1>1. told \subseteq SubscribeIds
  BY DEF Open
<1>2. IsFiniteSet(told)
  <2>1. IsFiniteSet(SubscribeIds)
    BY Bounds, FS_Interval DEF SubscribeIds
  <2>2. QED
    BY <1>1, <2>1, FS_Subset
<1>3. f \in Surjection(told, msgs)
  BY DEF Surjection
<1>4. IsFiniteSet(msgs)
  BY <1>2, <1>3, FS_Surjection
<1>5. \A m \in msgs : m \in SomeDownMsg /\ m.type # "error" /\ m.tag = tag
  BY <1>1, UpdateMsgType
<1>6. r \in Seq(msgs)
  BY <1>4, SetToSeqPoints
<1>7. down'[s] = Answered(s, r)[s]
  BY DEF SourceChanges
<1> HIDE DEF msgs, r
<1>8. r \in Seq(SomeDownMsg) /\ \A k \in 1..Len(r) : r[k] \in msgs
  BY <1>5, <1>6
<1>9. down'[s] = down[s] \o r \/ down'[s] = down[s]
  BY <1>7, <1>8, AnsweredPoints
<1>10. QED
  BY <1>5, <1>8, <1>9

(* What a step does to the messages on their way to the client. *)
DownMoves(s) ==
    \/ down'[s] = down[s]
    \/ down[s] # <<>> /\ down'[s] = Tail(down[s])
    \/ down'[s] = <<>>
    \/ \E r \in Seq(SomeDownMsg) : /\ down'[s] = down[s] \o r
                                   /\ \A k \in 1..Len(r) : EchoAgrees(r[k], source')

LEMMA ChangeMoves ==
    ASSUME Types, NEW v \in Seq(Updates), NEW updates \in Seq(Updates), NEW tag \in Tags,
           SourceChanges(v, updates, tag), tag # None => tag \in ToSet(v), NEW s \in Sockets
    PROVE  DownMoves(s)
<1>1. PICK r \in Seq(SomeDownMsg) :
             /\ down'[s] = down[s] \o r \/ down'[s] = down[s]
             /\ \A k \in 1..Len(r) : r[k].type # "error" /\ r[k].tag = tag
  BY ChangeSends
<1>2. source' = v /\ isAvailable(v)
  BY WritesAreValues DEF SourceChanges
<1>3. \A k \in 1..Len(r) : EchoAgrees(r[k], source')
  BY <1>1, <1>2 DEF EchoAgrees
<1>4. QED
  BY <1>1, <1>3 DEF DownMoves

LEMMA AnswerMoves ==
    ASSUME Types, NEW m \in SomeDownMsg, NEW t, down' = Answered(t, <<m>>), EchoAgrees(m, source'),
           NEW s \in Sockets
    PROVE  DownMoves(s)
<1> DEFINE r == <<m>>
<1>1. r \in Seq(SomeDownMsg) /\ \A k \in 1..Len(r) : EchoAgrees(r[k], source')
  OBVIOUS
<1>2. down' = Answered(t, r)
  OBVIOUS
<1> HIDE DEF r
<1>3. down'[s] = down[s] \o r \/ down'[s] = down[s]
  BY <1>1, <1>2, AnsweredPoints
<1>4. QED
  BY <1>1, <1>3 DEF DownMoves

LEMMA DownSteps ==
    ASSUME Types, LoopInv, WiresInv, [Next]_vars, NEW s \in Sockets
    PROVE  DownMoves(s) /\ down' = [t \in Sockets |-> down'[t]]
<1>0. /\ TransportTypeOK(SomeUpMsg, SomeDownMsg) /\ down \in [Sockets -> Seq(SomeDownMsg)]
      /\ source \in Seq(Updates) \cup {NotAvailable}
  BY DEF Types, TransportTypeOK, ServerTypes
<1> DEFINE Goal == DownMoves(s) /\ down' = [t \in Sockets |-> down'[t]]
<1>1. CASE down' = down
  BY <1>0, <1>1 DEF DownMoves
<1>2. ASSUME NEW t \in Sockets, ClientReceives(t) PROVE Goal
  BY <1>0, <1>2 DEF ClientReceives, TakeMessage, DownMoves
<1>3. ASSUME NEW t \in Sockets, ConnectionLost(t) PROVE Goal
  BY <1>0, <1>3 DEF ConnectionLost, SocketErrors, SocketCloses, OnWsError, DownMoves
<1>4. ASSUME NEW v, NEW updates, NEW tag, SourceChanges(v, updates, tag)
      PROVE  down' = [t \in Sockets |-> down'[t]]
  BY <1>4 DEF SourceChanges
<1>5. CASE SourceBecomesAvailable
  <2>1. <<>> \in Seq(Updates) /\ None \in Tags
    BY DEF Tags
  <2>2. SourceChanges(<<>>, <<>>, None)
    BY <1>5 DEF SourceBecomesAvailable
  <2>3. QED
    BY <1>4, <2>1, <2>2, ChangeMoves
<1>6. ASSUME NEW t, NEW msgs, down' = Answered(t, msgs) PROVE down' = [x \in Sockets |-> down'[x]]
  BY <1>0, <1>6 DEF Answered
<1>7. ASSUME NEW i \in SubscribeIds, SignalHandlerReturns(i) PROVE Goal
  <2>1. CASE isAvailable(source) /\ down' = Answered(home[i], <<UpdateMsg(i, source, <<>>, None)>>)
    <3>1. source \in Seq(Updates) /\ <<>> \in Seq(Updates) /\ None \in Tags
      BY <1>0, <2>1 DEF Tags, isAvailable
    <3>2. PICK m : m = UpdateMsg(i, source, <<>>, None)
      OBVIOUS
    <3> DEFINE noWrites == <<>>
    <3>3. noWrites \in Seq(Updates) /\ m = UpdateMsg(i, source, noWrites, None)
      BY <3>1, <3>2
    <3> HIDE DEF noWrites
    <3>4. m \in SomeDownMsg /\ m.tag = None
      BY <3>1, <3>3, UpdateMsgType
    <3>5. source' = source
      BY <1>7 DEF SignalHandlerReturns
    <3>6. EchoAgrees(m, source')
      BY <2>1, <3>4, <3>5 DEF EchoAgrees
    <3>7. down' = Answered(home[i], <<m>>)
      BY <2>1, <3>2
    <3>8. QED
      BY <1>6, <3>4, <3>6, <3>7, AnswerMoves
  <2>2. QED
    BY <1>1, <1>7, <2>1 DEF SignalHandlerReturns
<1>8. ASSUME NEW i \in SubscribeIds, SignalHandlerThrows(i) PROVE Goal
  <2> DEFINE m == [type |-> "error", id |-> i]
  <2>1. m \in SomeDownMsg /\ m.type = "error"
    BY DEF SomeDownMsg, ErrorMsg
  <2>2. down' = Answered(home[i], <<m>>)
    BY <1>8 DEF SignalHandlerThrows
  <2> HIDE DEF m
  <2>3. EchoAgrees(m, source')
    BY <2>1 DEF EchoAgrees
  <2>4. QED
    BY <1>6, <2>1, <2>2, <2>3, AnswerMoves
<1>9. ASSUME NEW t \in Sockets, ServerReceives(t) PROVE Goal
  <2> DEFINE m == Head(up[t])
  <2>1. m \in SomeUpMsg /\ OnWire(m)
    BY <1>0, <1>9, TakeOnWire, TakeSteps
  <2>2. \/ ReceivedWritableSignalSubscribe(t, m)
        \/ ReceivedWritableSignalUnsubscribe(m)
        \/ ServerReceivedWritableSignalUpdate(m)
    BY <1>9 DEF ServerReceives
  <2> HIDE DEF m
  <2>3. CASE down' = down
    BY <1>1, <2>3
  <2>4. CASE ServerReceivedWritableSignalUpdate(m)
    <3>1. m \in WriteMsg
      BY <2>1, <2>4 DEF ServerReceivedWritableSignalUpdate, SomeUpMsg, OtherMsg
    <3>2. m.updates \in Seq(Updates) /\ m.tag \in Tags /\ m.tag \in Updates
      BY <3>1 DEF WriteMsg, Tags
    <3>3. isAvailable(source) /\ m.updates # <<>> /\ m.tag = m.updates[1]
      BY <2>1, <3>1 DEF WiresInv, WriteAgrees
    <3>4. CASE SourceChanges(source \o m.updates, m.updates, m.tag)
      <4>1. source \in Seq(Updates)
        BY <1>0, <3>3 DEF isAvailable
      <4>2. source \o m.updates \in Seq(Updates)
        BY <3>2, <4>1
      <4>3. m.tag \in ToSet(source \o m.updates)
        <5>1. /\ Len(source) + 1 \in DOMAIN (source \o m.updates)
              /\ (source \o m.updates)[Len(source) + 1] = m.updates[1]
          BY <3>2, <3>3, <4>1
        <5>2. QED
          BY <3>3, <5>1 DEF ToSet
      <4>4. DownMoves(s)
        BY <3>2, <3>4, <4>2, <4>3, ChangeMoves
      <4>5. QED
        BY <1>4, <3>4, <4>4
    <3>5. QED
      BY <2>3, <2>4, <3>3, <3>4 DEF ServerReceivedWritableSignalUpdate
  <2>5. QED
    BY <2>2, <2>3, <2>4 DEF ReceivedWritableSignalSubscribe, ReceivedWritableSignalUnsubscribe
<1>10. CASE ApplicationStep \/ LoopStep \/ ConnectStep \/ UNCHANGED vars
  BY <1>1, <1>10 DEF ApplicationStep, Subscribe, Unsubscribe, Update, LoopStep, LoopContinues, LoopPulled,
     ConnectStep, EnsureConnectedOrStartConnection, vars, transportVars
<1>11. ASSUME NEW t \in Sockets, ConnectionOpens(t) \/ ServerConnectionLost(t) PROVE Goal
  BY <1>1, <1>11 DEF ConnectionOpens, OnWsOpen, ServerConnectionLost, ServerSocketCloses
<1>12. QED
  BY <1>2, <1>3, <1>5, <1>7, <1>8, <1>9, <1>10, <1>11 DEF Next, NetworkStep, ServerStep

LEMMA DownTypes ==
    ASSUME Types, LoopInv, WiresInv, [Next]_vars
    PROVE  down' \in [Sockets -> Seq(SomeDownMsg)]
<1>0. down \in [Sockets -> Seq(SomeDownMsg)]
  BY DEF Types, TransportTypeOK
<1>1. ASSUME NEW s \in Sockets PROVE down'[s] \in Seq(SomeDownMsg)
  <2>1. down[s] \in Seq(SomeDownMsg) /\ <<>> \in Seq(SomeDownMsg)
    BY <1>0
  <2>2. down[s] # <<>> => Tail(down[s]) \in Seq(SomeDownMsg)
    BY <2>1
  <2>3. \A r \in Seq(SomeDownMsg) : down[s] \o r \in Seq(SomeDownMsg)
    BY <2>1
  <2>4. DownMoves(s)
    BY DownSteps
  <2>5. QED
    BY <2>1, <2>2, <2>3, <2>4 DEF DownMoves
<1>2. 1 \in Sockets
  BY TransportAssumption DEF Sockets
<1>3. down' = [t \in Sockets |-> down'[t]]
  BY <1>2, DownSteps
<1>4. QED
  BY <1>1, <1>3

LEMMA EchoKept ==
    ASSUME Types, LoopInv, WiresInv, EchoInv, [Next]_vars
    PROVE  EchoInv'
<1>1. isAvailable(source) => isAvailable(source') /\ ToSet(source) \subseteq ToSet(source')
  BY SourceGrows
<1>2. \A m : EchoAgrees(m, source) => EchoAgrees(m, source')
  BY <1>1 DEF EchoAgrees
<1>3. ASSUME NEW s \in Sockets, NEW k \in 1..Len(down'[s]) PROVE EchoAgrees(down'[s][k], source')
  <2> DEFINE q == down[s]
             p == down'[s]
  <2>1. q \in Seq(SomeDownMsg) /\ \A j \in 1..Len(q) : EchoAgrees(q[j], source)
    BY DEF EchoInv, Types, TransportTypeOK
  <2>2. DownMoves(s)
    BY DownSteps
  <2>3. k \in 1..Len(p)
    BY <1>3
  <2> HIDE DEF q, p
  <2>4. CASE p = q
    BY <1>2, <2>1, <2>3, <2>4 DEF p
  <2>5. CASE q # <<>> /\ p = Tail(q)
    <3>1. k + 1 \in 1..Len(q) /\ p[k] = q[k + 1]
      BY <2>1, <2>3, <2>5, TailPoints
    <3>2. QED
      BY <1>2, <2>1, <3>1 DEF p
  <2>6. CASE p = <<>>
    BY <2>3, <2>6
  <2>7. ASSUME NEW r \in Seq(SomeDownMsg), p = q \o r, \A j \in 1..Len(r) : EchoAgrees(r[j], source')
        PROVE  EchoAgrees(p[k], source')
    <3>1. /\ Len(q) \in Nat /\ Len(r) \in Nat /\ Len(p) = Len(q) + Len(r)
          /\ \A j \in 1..Len(q) : p[j] = q[j]
          /\ \A j \in (Len(q) + 1)..(Len(q) + Len(r)) : p[j] = r[j - Len(q)]
      BY <2>1, <2>7, ConcatPoints
    <3>2. CASE k <= Len(q)
      <4>1. k \in 1..Len(q)
        BY <2>3, <3>1, <3>2
      <4>2. QED
        BY <1>2, <2>1, <3>1, <4>1
    <3>3. CASE k > Len(q)
      <4>1. k \in (Len(q) + 1)..(Len(q) + Len(r)) /\ k - Len(q) \in 1..Len(r)
        BY <2>3, <3>1, <3>3
      <4>2. QED
        BY <2>7, <3>1, <4>1
    <3>4. QED
      BY <2>3, <3>1, <3>2, <3>3
  <2>8. QED
    BY <2>2, <2>4, <2>5, <2>6, <2>7 DEF DownMoves, q, p
<1>4. firstUpdateReceived' # {} => isAvailable(source')
  <2>1. CASE firstUpdateReceived' = firstUpdateReceived
    BY <1>1, <2>1 DEF EchoInv
  <2>2. ASSUME NEW s \in Sockets, ClientReceives(s), ReceivedWritableSignalUpdate(Head(down[s]))
        PROVE  isAvailable(source')
    <3>1. down[s] \in Seq(SomeDownMsg) /\ down[s] # <<>>
      BY <2>2 DEF Types, TransportTypeOK, ClientReceives, TakeMessage
    <3>2. Head(down[s]) = down[s][1] /\ 1 \in 1..Len(down[s])
      BY <3>1
    <3>3. EchoAgrees(Head(down[s]), source) /\ Head(down[s]).type # "error"
      BY <2>2, <3>2 DEF EchoInv, ReceivedWritableSignalUpdate
    <3>4. QED
      BY <1>1, <3>3 DEF EchoAgrees
  <2>3. firstUpdateReceived' = firstUpdateReceived
          \/ \E s \in Sockets : ClientReceives(s) /\ ReceivedWritableSignalUpdate(Head(down[s]))
    <3> USE DEF clientVars, portVars
    <3>1. CASE ApplicationStep \/ LoopStep \/ ConnectStep \/ ServerStep \/ UNCHANGED vars
      BY <3>1 DEF ApplicationStep, Subscribe, Unsubscribe, Update, LoopStep, LoopContinues, LoopPulled,
         ConnectStep, ServerStep, SourceBecomesAvailable, SignalHandlerReturns, SignalHandlerThrows, vars
    <3>2. CASE NetworkStep
      BY <3>2 DEF NetworkStep, ConnectionOpens, ConnectionLost, Errored, ClientReceives,
         ReceivedWritableSignalError, ServerReceives, ServerConnectionLost
    <3>3. QED
      BY <3>1, <3>2 DEF Next
  <2>4. QED
    BY <2>1, <2>2, <2>3
<1>5. QED
  BY <1>3, <1>4 DEF EchoInv, Sockets


LEMMA QueueTypesKept ==
    ASSUME Types, LoopInv, [Next]_vars
    PROVE  /\ queuedUpdates' \in Seq(Updates) /\ numHandledUpdates' \in 0..Len(queuedUpdates')
           /\ nextUpdate' \in 0..MaxUpdates
           /\ outcome' \in [Updates -> {"none", "ignored", "queued", "resolved", "rejected"}]
<1> DEFINE Goal == /\ queuedUpdates' \in Seq(Updates) /\ numHandledUpdates' \in 0..Len(queuedUpdates')
                   /\ nextUpdate' \in 0..MaxUpdates
                   /\ outcome' \in [Updates -> {"none", "ignored", "queued", "resolved", "rejected"}]
<1>0. /\ queuedUpdates \in Seq(Updates) /\ numHandledUpdates \in 0..Len(queuedUpdates)
      /\ nextUpdate \in 0..MaxUpdates /\ MaxUpdates \in Nat
      /\ outcome \in [Updates -> {"none", "ignored", "queued", "resolved", "rejected"}]
  BY Bounds DEF Types, WriterTypes
<1>1. nextUpdate \in Updates => nextUpdate + 1 \in 0..MaxUpdates
  BY <1>0 DEF Updates
<1>2. ASSUME nextUpdate \in Updates
      PROVE  LET a == Append(queuedUpdates, nextUpdate)
             IN a \in Seq(Updates) /\ numHandledUpdates \in 0..Len(a) /\ Len(a) \in 0..Len(a)
  <2>1. PICK a : a = Append(queuedUpdates, nextUpdate)
    OBVIOUS
  <2>2. a \in Seq(Updates) /\ numHandledUpdates \in 0..Len(a)
    BY <1>0, <1>2, <2>1, AppendSplits
  <2>3. Len(a) \in 0..Len(a)
    BY <2>2
  <2>4. QED
    BY <2>1, <2>2, <2>3
<1>3. CASE Still
  BY <1>0, <1>3 DEF Still
<1>4. CASE Ignores
  BY <1>0, <1>1, <1>4 DEF Ignores
<1>5. CASE Queues
  BY <1>0, <1>1, <1>2, <1>5 DEF Queues, Appends
<1>6. CASE SendsRound
  <2>1. Len(queuedUpdates) \in 0..Len(queuedUpdates)
    BY <1>0
  <2>2. QED
    BY <1>0, <1>1, <1>2, <1>6, <2>1 DEF SendsRound, Appends
<1>7. ASSUME NEW result \in {"resolved", "rejected"}, Settles(result) PROVE Goal
  <2>1. queuedUpdates' \in Seq(Updates)
    BY <1>0, <1>7 DEF Settles
  <2>2. Len(queuedUpdates') \in Nat
    BY <2>1
  <2>3. 0 \in 0..Len(queuedUpdates')
    BY <2>2
  <2>4. outcome' \in [Updates -> {"none", "ignored", "queued", "resolved", "rejected"}]
    BY <1>0, <1>7 DEF Settles, Settled
  <2>5. QED
    BY <1>0, <1>7, <2>1, <2>3, <2>4 DEF Settles
<1>8. SourceBecomesAvailable => Still
  BY DEF SourceBecomesAvailable, clientVars, writeVars, Still
<1>9. QED
  BY <1>3, <1>4, <1>5, <1>6, <1>7, <1>8, StepKinds, TakeSteps DEF Finishes, GivesUp, Moves

(* The value the application sees, of a queue and a value of the server. *)
LEMMA OptimisticType ==
    ASSUME Types, NEW v \in Seq(Int), NEW q \in Seq(Updates)
    PROVE  OptimisticValue(v, q) \in Seq(Int)
<1>1. q \in Seq(Int)
  BY Bounds
<1>2. v \o q \in Seq(Int)
  BY <1>1
<1>3. QED
  BY <1>2 DEF OptimisticValue, WithUpdates, Types, WriterTypes

LEMMA AppliedType ==
    ASSUME NEW v \in Seq(Int), NEW m \in SomeDownMsg
    PROVE  Applied(v, m) \in Seq(Int)
<1>1. CASE m \in ReplaceMsg
  BY <1>1, Bounds DEF Applied, ReplaceMsg
<1>2. CASE m \in PatchMsg
  <2>1. m.updates \in Seq(Int) /\ m.type = "patch"
    BY <1>2, Bounds DEF PatchMsg
  <2>2. v \o m.updates \in Seq(Int)
    BY <2>1
  <2>3. QED
    BY <2>1, <2>2 DEF Applied
<1>3. CASE m \in ErrorMsg
  BY <1>3 DEF Applied, ErrorMsg
<1>4. QED
  BY <1>1, <1>2, <1>3 DEF SomeDownMsg

ValueTypes ==
    /\ innerValue \in Seq(Int) /\ innerStale \in BOOLEAN
    /\ outerValue \in Seq(Int) /\ outerStale \in BOOLEAN

LEMMA ValueTypesKept ==
    ASSUME Types, LoopInv, [Next]_vars
    PROVE  ValueTypes'
<1>0. /\ ValueTypes /\ queuedUpdates \in Seq(Updates) /\ queuedUpdates' \in Seq(Updates)
      /\ nextUpdate \in Updates => Append(queuedUpdates, nextUpdate) \in Seq(Updates)
  BY QueueTypesKept DEF Types, WriterTypes, ValueTypes
<1>1. ASSUME UNCHANGED <<innerValue, outerValue>>, innerStale' \in BOOLEAN, outerStale' \in BOOLEAN
      PROVE  ValueTypes'
  BY <1>0, <1>1 DEF ValueTypes
<1>2. CASE UnsubscribeInner /\ UNCHANGED <<innerValue, outerValue>>
  BY <1>0, <1>1, <1>2 DEF UnsubscribeInner, ValueTypes
<1>3. CASE UNCHANGED <<innerValue, innerStale, outerValue, outerStale>>
  BY <1>0, <1>1, <1>3 DEF ValueTypes
<1>4. CASE Update
  <2>1. nextUpdate \in Updates
    BY <1>4, Bounds DEF Update, Updates, Types, WriterTypes
  <2>2. PICK q : q = Append(queuedUpdates, nextUpdate)
    OBVIOUS
  <2>3. OptimisticValue(innerValue, q) \in Seq(Int)
    BY <1>0, <2>1, <2>2, OptimisticType DEF ValueTypes
  <2>4. QED
    BY <1>0, <1>4, <2>2, <2>3 DEF Update, ValueTypes
<1>5. CASE Subscribe \/ Unsubscribe \/ LoopStep \/ ConnectStep \/ ServerStep \/ UNCHANGED vars
  BY <1>2, <1>3, <1>5 DEF Subscribe, Unsubscribe, LoopStep, LoopContinues, LoopPulled, ConnectStep,
     ServerStep, SourceBecomesAvailable, SignalHandlerReturns, SignalHandlerThrows, vars,
     clientVars, innerVars, writeVars
<1>6. ASSUME NEW cause, SignalErrors(cause) PROVE ValueTypes'
  BY <1>1, <1>6 DEF SignalErrors
<1>7. ASSUME NEW m \in SomeDownMsg, ReceivedWritableSignalUpdate(m) PROVE ValueTypes'
  <2>1. innerValue' \in Seq(Int) /\ innerStale' \in BOOLEAN
    BY <1>0, <1>7, AppliedType DEF ReceivedWritableSignalUpdate, ValueTypes
  <2>2. OptimisticValue(innerValue', queuedUpdates') \in Seq(Int)
    BY <1>0, <2>1, OptimisticType
  <2>3. outerValue' = OptimisticValue(innerValue', queuedUpdates')
    BY <1>7 DEF ReceivedWritableSignalUpdate, FinishWrite, PassiveUpdate
  <2>4. outerStale' \in BOOLEAN
    BY <1>0, <1>7 DEF ReceivedWritableSignalUpdate, ValueTypes
  <2>5. QED
    BY <2>1, <2>2, <2>3, <2>4 DEF ValueTypes
<1>8. ASSUME NEW s \in Sockets, ClientReceives(s) PROVE ValueTypes'
  <2>1. down[s] \in Seq(SomeDownMsg) /\ down[s] # <<>>
    BY <1>8 DEF ClientReceives, TakeMessage, Types, TransportTypeOK
  <2>2. Head(down[s]) \in SomeDownMsg
    BY <2>1
  <2>3. QED
    BY <1>3, <1>6, <1>7, <1>8, <2>2 DEF ClientReceives, ReceivedWritableSignalError, clientVars,
       innerVars, writeVars
<1>9. ASSUME NEW s \in Sockets, ConnectionLost(s) PROVE ValueTypes'
  BY <1>3, <1>6, <1>9 DEF ConnectionLost, Errored, clientVars, innerVars, writeVars
<1>10. ASSUME NEW s \in Sockets, \/ ConnectionOpens(s) \/ ServerReceives(s)
                                 \/ ServerConnectionLost(s)
       PROVE  ValueTypes'
  BY <1>3, <1>10 DEF ConnectionOpens, ServerReceives, ServerConnectionLost, clientVars, innerVars, writeVars
<1>11. QED
  BY <1>4, <1>5, <1>8, <1>9, <1>10 DEF Next, ApplicationStep, NetworkStep

LinkTypes ==
    /\ nextWritableSubscribeId \in 0..MaxSubscribeIds
    /\ openWritableSignalSubscriptions \subseteq SubscribeIds
    /\ firstUpdateReceived \subseteq SubscribeIds
    /\ recoverable \in BOOLEAN
    /\ subscribers \in 0..MaxSubscribers
    /\ upstream \in SubscribeIds \cup {None}
    /\ error \in {"none", "transport", "server"}
    /\ loop \in {"idle", "next", "pulling", "pulled", "writing"}

LEMMA LinkTypesKept ==
    ASSUME Types, LoopInv, [Next]_vars
    PROVE  LinkTypes'
<1>0. LinkTypes
  BY DEF Types, WriterTypes, LinkTypes
<1>1. Register => /\ upstream' \in SubscribeIds /\ nextWritableSubscribeId' \in 0..MaxSubscribeIds
                  /\ openWritableSignalSubscriptions' \subseteq SubscribeIds
  BY <1>0, RegisterFacts DEF LinkTypes
<1>2. SubscribeInner => /\ upstream' \in SubscribeIds \cup {None}
                        /\ nextWritableSubscribeId' \in 0..MaxSubscribeIds
                        /\ openWritableSignalSubscriptions' \subseteq SubscribeIds
  BY <1>0, <1>1 DEF SubscribeInner, NotRegistered, LinkTypes
<1>3. UnsubscribeInner => /\ upstream' \in SubscribeIds \cup {None} /\ recoverable' \in BOOLEAN
                          /\ openWritableSignalSubscriptions' \subseteq SubscribeIds
  BY <1>0 DEF UnsubscribeInner, LinkTypes
<1>4. CASE Subscribe
  <2>1. subscribers' \in 0..MaxSubscribers
    BY <1>0, <1>4, Bounds DEF Subscribe, LinkTypes
  <2>2. QED
    BY <1>0, <1>2, <1>4, <2>1 DEF Subscribe, LinkTypes, writeVars
<1>5. CASE Unsubscribe
  <2>1. subscribers' \in 0..MaxSubscribers
    BY <1>0, <1>5, Bounds DEF Unsubscribe, LinkTypes
  <2>2. QED
    BY <1>0, <1>3, <1>5, <2>1 DEF Unsubscribe, LinkTypes
<1>6. ASSUME NEW updates, NEW promises, Write(updates, promises)
      PROVE  loop' \in {"next", "writing"}
  BY <1>6 DEF Write
<1>7. CASE Update
  BY <1>0, <1>2, <1>6, <1>7 DEF Update, NotRegistered, LinkTypes
<1>8. CASE LoopStep
  BY <1>0, <1>3, <1>6, <1>8 DEF LoopStep, LoopContinues, LoopPulled, LinkTypes, portVars, innerVars
<1>9. CASE ConnectStep \/ ServerStep \/ UNCHANGED vars
  BY <1>0, <1>9 DEF ConnectStep, ServerStep, SourceBecomesAvailable, SignalHandlerReturns,
     SignalHandlerThrows, vars, clientVars, portVars, innerVars, writeVars, LinkTypes
<1>10. ASSUME NEW cause \in {"transport", "server"}, SignalErrors(cause)
       PROVE  /\ error' \in {"none", "transport", "server"} /\ upstream' = None
              /\ loop' \in {"idle", "next", "pulling", "pulled", "writing"}
              /\ subscribers' = subscribers
  BY <1>0, <1>10 DEF SignalErrors, LinkTypes
<1>11. ASSUME NEW s \in Sockets, ClientReceives(s) PROVE LinkTypes'
  <2>1. CASE ReceivedWritableSignalUpdate(Head(down[s]))
    <3>1. loop' \in {"idle", "next", "pulling", "pulled", "writing"}
      BY <1>0, <2>1 DEF ReceivedWritableSignalUpdate, FinishWrite, PassiveUpdate, LinkTypes
    <3>2. QED
      BY <1>0, <2>1, <3>1 DEF ReceivedWritableSignalUpdate, LinkTypes
  <2>2. CASE ReceivedWritableSignalError(Head(down[s]))
    BY <1>0, <1>10, <2>2 DEF ReceivedWritableSignalError, LinkTypes
  <2>3. CASE UNCHANGED clientVars
    BY <1>0, <2>3 DEF clientVars, portVars, innerVars, writeVars, LinkTypes
  <2>4. QED
    BY <1>11, <2>1, <2>2, <2>3 DEF ClientReceives
<1>12. ASSUME NEW s \in Sockets, ConnectionLost(s) PROVE LinkTypes'
  <2>1. CASE Errored
    BY <1>0, <1>10, <2>1 DEF Errored, innerVars, writeVars, LinkTypes
  <2>2. CASE UNCHANGED clientVars
    BY <1>0, <2>2 DEF clientVars, portVars, innerVars, writeVars, LinkTypes
  <2>3. QED
    BY <1>12, <2>1, <2>2 DEF ConnectionLost
<1>13. ASSUME NEW s \in Sockets, ConnectionOpens(s) PROVE LinkTypes'
  BY <1>0, <1>1, <1>13 DEF ConnectionOpens, NotRegistered, writeVars, LinkTypes
<1>14. ASSUME NEW s \in Sockets, ServerReceives(s) \/ ServerConnectionLost(s) PROVE LinkTypes'
  BY <1>0, <1>14 DEF ServerReceives, ServerConnectionLost, clientVars, portVars, innerVars, writeVars, LinkTypes
<1>15. QED
  BY <1>4, <1>5, <1>7, <1>8, <1>9, <1>11, <1>12, <1>13, <1>14 DEF Next, ApplicationStep, NetworkStep

LEMMA ServerTypesKept ==
    ASSUME Types, LoopInv, [Next]_vars
    PROVE  ServerTypes'
<1> DEFINE States == {"none", "starting", "open", "closed", "failed"}
           Goal == /\ subscription' \in [SubscribeIds -> States]
                   /\ initialized' \in [SubscribeIds -> BOOLEAN]
                   /\ home' \in [SubscribeIds -> 0..MaxSockets]
                   /\ toClose' \subseteq SubscribeIds
<1>0. ServerTypes /\ TransportTypeOK(SomeUpMsg, SomeDownMsg)
  BY DEF Types
<1>1. source' \in Seq(Updates) \cup {NotAvailable}
  BY SourceGrows
<1>2. CASE UNCHANGED <<subscription, initialized, home, toClose>>
  BY <1>0, <1>1, <1>2 DEF ServerTypes
<1>3. ASSUME NEW v, NEW updates, NEW tag, SourceChanges(v, updates, tag)
      PROVE  initialized' \in [SubscribeIds -> BOOLEAN]
  BY <1>0, <1>3 DEF SourceChanges, ServerTypes
<1>4. CASE ApplicationStep \/ LoopStep \/ ConnectStep \/ UNCHANGED vars
  BY <1>2, <1>4 DEF ApplicationStep, Subscribe, Unsubscribe, Update, LoopStep, LoopContinues, LoopPulled,
     ConnectStep, vars, serverVars
<1>5. CASE ServerStep
  <2>1. CASE SourceBecomesAvailable
    BY <1>0, <1>1, <1>3, <2>1 DEF SourceBecomesAvailable, ServerTypes
  <2>2. ASSUME NEW i \in SubscribeIds, SignalHandlerReturns(i) PROVE Goal
    BY <1>0, <2>2 DEF SignalHandlerReturns, ServerTypes, isAvailable
  <2>3. ASSUME NEW i \in SubscribeIds, SignalHandlerThrows(i) PROVE Goal
    BY <1>0, <2>3 DEF SignalHandlerThrows, ServerTypes
  <2>4. QED
    BY <1>0, <1>1, <1>5, <2>1, <2>2, <2>3 DEF ServerStep, ServerTypes
<1>6. ASSUME NEW s \in Sockets, ServerReceives(s) PROVE Goal
  <2> DEFINE m == Head(up[s])
  <2>1. m \in SomeUpMsg
    BY <1>6, TakeSteps
  <2>2. m.id \in SubscribeIds
    BY <2>1 DEF SomeUpMsg, OtherMsg, WriteMsg
  <2>3. s \in 0..MaxSockets
    BY Bounds DEF Sockets
  <2> HIDE DEF m
  <2>4. CASE ReceivedWritableSignalSubscribe(s, m)
    BY <1>0, <2>2, <2>3, <2>4 DEF ReceivedWritableSignalSubscribe, ServerTypes
  <2>5. CASE ReceivedWritableSignalUnsubscribe(m)
    BY <1>0, <2>2, <2>5 DEF ReceivedWritableSignalUnsubscribe, ServerTypes
  <2>6. CASE ServerReceivedWritableSignalUpdate(m)
    BY <1>0, <1>3, <2>6 DEF ServerReceivedWritableSignalUpdate, ServerTypes
  <2>7. QED
    BY <1>6, <2>4, <2>5, <2>6 DEF ServerReceives, m
<1>7. ASSUME NEW s \in Sockets, ServerConnectionLost(s) PROVE Goal
  BY <1>0, <1>7 DEF ServerConnectionLost, ServerTypes
<1>8. ASSUME NEW s \in Sockets, ConnectionOpens(s) \/ ConnectionLost(s) \/ ClientReceives(s)
      PROVE  UNCHANGED <<subscription, initialized, home, toClose>>
  BY <1>8 DEF ConnectionOpens, ConnectionLost, ClientReceives, serverVars
<1>9. QED
  BY <1>0, <1>1, <1>2, <1>4, <1>5, <1>6, <1>7, <1>8 DEF Next, NetworkStep, ServerTypes

LEMMA TypesKept ==
    ASSUME Types, ConnectionInv, WiresFollowSockets, LoopInv, WiresInv, [Next]_vars
    PROVE  Types' /\ ConnectionInv' /\ WiresFollowSockets'
<1>1. TransportTypeOK(SomeUpMsg, SomeDownMsg) /\ ConnectionTypeOK
  BY DEF Types, TransportTypeOK, ConnectionTypeOK
<1>2. TransportStep /\ StaysDisposed
  BY NextIsTransportStep, NextStaysDisposed
<1>3. ConnectionTypeOK' /\ ConnectionInv'
  BY <1>1, <1>2, StepKeepsConnection
<1>4. WiresFollowSockets'
  BY <1>1, <1>2, StepKeepsWires
<1>5. server' \in [Sockets -> {"none", "open", "closed"}]
  BY <1>1, <1>2, StepKeepsServerType
<1>6. TransportTypeOK(SomeUpMsg, SomeDownMsg)'
  BY <1>3, <1>5, UpTypes, DownTypes, DisposeTypes DEF TransportTypeOK, ConnectionTypeOK
<1>7. WriterTypes'
  BY LinkTypesKept, ValueTypesKept, QueueTypesKept DEF LinkTypes, ValueTypes, WriterTypes
<1>8. QED
  BY <1>3, <1>4, <1>6, <1>7, ServerTypesKept DEF Types

-----------------------------------------------------------------------------
(* The loop and the view.                                                  *)

LEMMA RegisterLinks ==
    ASSUME Types, LoopInv, Register, upstream = None
    PROVE  /\ upstream' # None /\ openWritableSignalSubscriptions' = {upstream'}
           /\ innerStale
<1>1. upstream' \in SubscribeIds /\ openWritableSignalSubscriptions' = openWritableSignalSubscriptions \cup {upstream'}
  BY RegisterFacts
<1>2. upstream' # None
  BY <1>1, Bounds
<1>3. QED
  BY <1>1, <1>2 DEF LoopInv, Types, WriterTypes

LEMMA SubscribeLinks ==
    ASSUME Types, LoopInv, SubscribeInner
    PROVE  /\ openWritableSignalSubscriptions' = IF upstream' = None THEN {} ELSE {upstream'}
           /\ ~innerStale => upstream' = upstream
           /\ upstream' # None \/ hasError
           /\ upstream' # None => ~hasError
<1>1. CASE upstream = None /\ ~hasError
  BY <1>1, RegisterLinks DEF SubscribeInner
<1>2. CASE ~(upstream = None /\ ~hasError)
  BY <1>2 DEF SubscribeInner, NotRegistered, LoopInv
<1>3. QED
  BY <1>1, <1>2

(* A round is sent over a subscription that had an update. *)
LEMMA WriteLinks ==
    ASSUME Types, LoopInv, ~innerStale, NEW updates \in Seq(Updates), updates # <<>>, NEW promises,
           Write(updates, promises)
    PROVE  /\ loop' = "writing" /\ queuedUpdates' = updates /\ numHandledUpdates' > 0
<1>1. upstream \in openWritableSignalSubscriptions \cap firstUpdateReceived
  BY DEF LoopInv
<1>2. Len(updates) > 0
  OBVIOUS
<1>3. QED
  BY <1>1, <1>2 DEF Write

LEMMA UpdateKeepsLoop ==
    ASSUME Types, LoopInv, Update
    PROVE  LoopInv'
<1>1. nextUpdate \in Updates /\ queuedUpdates \in Seq(Updates)
  BY Bounds DEF Update, Updates, Types, WriterTypes
<1>2. PICK q : q = Append(queuedUpdates, nextUpdate)
  OBVIOUS
<1>3. q # <<>> /\ <<nextUpdate>> # <<>> /\ <<nextUpdate>> \in Seq(Updates)
  <2>1. q # <<>>
    BY <1>1, <1>2
  <2>2. <<nextUpdate>> # <<>> /\ <<nextUpdate>> \in Seq(Updates)
    BY <1>1
  <2>3. QED
    BY <2>1, <2>2
<1>4. UNCHANGED <<firstUpdateReceived, innerStale, error>>
  BY DEF Update
<1>5. CASE hasError
  BY <1>4, <1>5 DEF Update, NotRegistered, LoopInv, hasError
<1>6. CASE ~hasError /\ MayStartLoop /\ ~innerStale
  <2>1. Write(<<nextUpdate>>, [outcome EXCEPT ![nextUpdate] = "queued"]) /\ NotRegistered
    BY <1>6 DEF Update
  <2>2. loop' = "writing" /\ queuedUpdates' # <<>> /\ numHandledUpdates' > 0
    BY <1>3, <1>6, <2>1, WriteLinks
  <2>3. QED
    BY <1>4, <1>6, <2>1, <2>2 DEF NotRegistered, LoopInv, hasError
<1>7. CASE ~hasError /\ MayStartLoop /\ innerStale
  <2>1. /\ SubscribeInner /\ loop' = "pulling" /\ queuedUpdates' = q /\ UNCHANGED numHandledUpdates
        /\ loop = "idle"
    BY <1>2, <1>7 DEF Update, MayStartLoop
  <2>2. QED
    BY <1>3, <1>4, <1>7, <2>1, SubscribeLinks DEF LoopInv, hasError
<1>8. CASE ~hasError /\ ~MayStartLoop
  <2>1. NotRegistered /\ UNCHANGED <<loop, numHandledUpdates>> /\ queuedUpdates' = q /\ loop # "idle"
    BY <1>2, <1>8 DEF Update, MayStartLoop
  <2>2. QED
    BY <1>3, <1>4, <2>1 DEF NotRegistered, LoopInv, hasError
<1>9. QED
  BY <1>5, <1>6, <1>7, <1>8

LEMMA LoopStepKeepsLoop ==
    ASSUME Types, LoopInv, LoopStep
    PROVE  LoopInv'
<1>1. queuedUpdates \in Seq(Updates) /\ UNCHANGED <<firstUpdateReceived, error>>
  BY DEF LoopStep, LoopContinues, LoopPulled, Types, WriterTypes, portVars, innerVars
<1>2. CASE LoopContinues /\ queuedUpdates = <<>>
  BY <1>1, <1>2 DEF LoopContinues, UnsubscribeInner, LoopInv, hasError
<1>3. CASE LoopContinues /\ queuedUpdates # <<>> /\ innerStale
  BY <1>1, <1>3 DEF LoopContinues, LoopInv, hasError
<1>4. CASE LoopContinues /\ queuedUpdates # <<>> /\ ~innerStale
  <2>1. Write(queuedUpdates, outcome) /\ UNCHANGED <<openWritableSignalSubscriptions, upstream, innerStale>>
    BY <1>4 DEF LoopContinues
  <2>2. loop' = "writing" /\ queuedUpdates' = queuedUpdates /\ numHandledUpdates' > 0
    BY <1>1, <1>4, <2>1, WriteLinks
  <2>3. QED
    BY <1>1, <1>4, <2>1, <2>2 DEF LoopInv, hasError, LoopContinues
<1>5. CASE LoopPulled
  <2>1. Write(queuedUpdates, outcome) /\ UNCHANGED <<openWritableSignalSubscriptions, upstream, innerStale>>
    BY <1>5 DEF LoopPulled, portVars, innerVars
  <2>2. queuedUpdates # <<>> /\ ~innerStale
    BY <1>5 DEF LoopPulled, LoopInv
  <2>3. loop' = "writing" /\ queuedUpdates' = queuedUpdates /\ numHandledUpdates' > 0
    BY <1>1, <2>1, <2>2, WriteLinks
  <2>4. QED
    BY <1>1, <1>5, <2>1, <2>2, <2>3 DEF LoopInv, hasError, LoopPulled
<1>6. QED
  BY <1>2, <1>3, <1>4, <1>5 DEF LoopStep

LEMMA ErrorKeepsLoop ==
    ASSUME Types, LoopInv, ~Microtask, NEW cause \in {"transport", "server"}, SignalErrors(cause),
           openWritableSignalSubscriptions' = {}
    PROVE  LoopInv'
<1>1. upstream' = None /\ innerStale' = TRUE /\ error' # "none" /\ loop \notin {"next", "pulled"}
  BY DEF SignalErrors, Microtask
<1>2. CASE loop = "writing"
  BY <1>1, <1>2 DEF SignalErrors, LoopInv, hasError
<1>3. CASE loop # "writing"
  BY <1>1, <1>3 DEF SignalErrors, LoopInv, hasError
<1>4. QED
  BY <1>2, <1>3

LEMMA ReceivedUpdateKeepsLoop ==
    ASSUME Types, LoopInv, NEW m, ReceivedWritableSignalUpdate(m)
    PROVE  LoopInv'
<1>1. /\ upstream = m.id /\ upstream # None
      /\ firstUpdateReceived' = firstUpdateReceived \cup {m.id} /\ innerStale' = FALSE
      /\ UNCHANGED <<openWritableSignalSubscriptions, upstream, error>>
  BY DEF ReceivedWritableSignalUpdate, LoopInv
<1>2. CASE FinishWrite(m)
  BY <1>1, <1>2 DEF FinishWrite, LoopInv, hasError
<1>3. CASE PassiveUpdate(m)
  BY <1>1, <1>3 DEF PassiveUpdate, LoopInv, hasError
<1>4. QED
  BY <1>2, <1>3 DEF ReceivedWritableSignalUpdate

LEMMA LoopKept ==
    ASSUME Types, LoopInv, [Next]_vars
    PROVE  LoopInv'
<1>1. CASE UNCHANGED <<openWritableSignalSubscriptions, firstUpdateReceived, upstream, innerStale, error,
                       queuedUpdates, numHandledUpdates, loop>>
  BY <1>1 DEF LoopInv, hasError
<1>2. CASE Subscribe
  BY <1>2, SubscribeLinks DEF Subscribe, LoopInv, hasError, writeVars
<1>3. CASE Unsubscribe
  BY <1>3 DEF Unsubscribe, UnsubscribeInner, LoopInv, hasError
<1>4. ASSUME NEW s \in Sockets, ClientReceives(s) PROVE LoopInv'
  <2> DEFINE m == Head(down[s])
  <2>1. CASE ReceivedWritableSignalError(m)
    <3>1. openWritableSignalSubscriptions' = {}
      BY <2>1 DEF ReceivedWritableSignalError, LoopInv
    <3>2. QED
      BY <1>4, <2>1, <3>1, ErrorKeepsLoop DEF ReceivedWritableSignalError, ClientReceives
  <2>2. QED
    BY <1>1, <1>4, <2>1, ReceivedUpdateKeepsLoop DEF ClientReceives, clientVars, portVars, innerVars, writeVars
<1>5. ASSUME NEW s \in Sockets, ConnectionLost(s) PROVE LoopInv'
  <2>1. CASE Errored /\ openWritableSignalSubscriptions # {}
    BY <1>5, <2>1, ErrorKeepsLoop DEF Errored, ConnectionLost
  <2>2. CASE Errored /\ openWritableSignalSubscriptions = {}
    BY <1>1, <2>2 DEF Errored, innerVars, writeVars
  <2>3. QED
    BY <1>1, <1>5, <2>1, <2>2 DEF ConnectionLost, clientVars, portVars, innerVars, writeVars
<1>6. ASSUME NEW s \in Sockets, ConnectionOpens(s) PROVE LoopInv'
  <2>0. UNCHANGED <<firstUpdateReceived, innerStale, queuedUpdates, numHandledUpdates, loop>>
    BY <1>6 DEF ConnectionOpens, writeVars
  <2>1. CASE recoverable /\ hasError /\ (subscribers > 0 \/ loop # "idle")
    <3>1. upstream = None
      BY <2>1 DEF LoopInv
    <3>2. Register /\ error' = "none"
      BY <1>6, <2>1 DEF ConnectionOpens
    <3>3. QED
      BY <2>0, <3>1, <3>2, RegisterLinks DEF LoopInv, hasError
  <2>2. CASE ~(recoverable /\ hasError /\ (subscribers > 0 \/ loop # "idle"))
    <3>1. NotRegistered /\ error' = IF recoverable THEN "none" ELSE error
      BY <1>6, <2>2 DEF ConnectionOpens
    <3>2. QED
      BY <2>0, <2>2, <3>1 DEF NotRegistered, LoopInv, hasError
  <2>3. QED
    BY <2>1, <2>2
<1>7. CASE ConnectStep \/ ServerStep \/ UNCHANGED vars
  BY <1>1, <1>7 DEF ConnectStep, ServerStep, SourceBecomesAvailable, SignalHandlerReturns,
     SignalHandlerThrows, vars, clientVars, portVars, innerVars, writeVars
<1>8. ASSUME NEW s \in Sockets, ServerReceives(s) \/ ServerConnectionLost(s) PROVE LoopInv'
  BY <1>1, <1>8 DEF ServerReceives, ServerConnectionLost, clientVars, portVars, innerVars, writeVars
<1>9. QED
  BY <1>2, <1>3, <1>4, <1>5, <1>6, <1>7, <1>8, UpdateKeepsLoop, LoopStepKeepsLoop
  DEF Next, ApplicationStep, NetworkStep

(* A value that has become available stays so. *)
LEMMA PatchKeepsAvailable ==
    ASSUME NEW v \in Seq(Int), isAvailable(v), NEW updates \in Seq(Updates)
    PROVE  isAvailable(v \o updates)
<1> DEFINE w == v \o updates
<1>1. CASE v = <<>>
  <2>1. w = updates
    BY <1>1
  <2>2. QED
    BY <2>1, WritesAreValues
<1>2. CASE v # <<>> /\ w = NotAvailable
  <2>1. updates \in Seq(Int)
    BY Bounds
  <2>2. Len(v) \in Nat /\ Len(updates) \in Nat /\ Len(w) = Len(v) + Len(updates) /\ Len(v) > 0
    BY <1>2, <2>1
  <2>3. Len(w) = 1 /\ w[1] = None
    BY <1>2 DEF NotAvailable
  <2>4. Len(v) = 1 /\ v[1] = w[1]
    <3>1. \A k \in 1..Len(v) : w[k] = v[k]
      BY <2>1, ConcatPoints
    <3> HIDE DEF w
    <3>2. Len(v) = 1
      <4>1. \A a, b \in Nat : a > 0 /\ a + b = 1 => a = 1
        OBVIOUS
      <4>2. Len(v) + Len(updates) = 1
        BY <2>2, <2>3
      <4>3. QED
        BY <2>2, <4>1, <4>2
    <3>3. 1 \in 1..Len(v)
      BY <3>2
    <3>4. QED
      BY <3>1, <3>2, <3>3
  <2>5. v = <<None>>
    BY <2>3, <2>4
  <2>6. QED
    BY <2>5 DEF isAvailable, NotAvailable
<1>3. QED
  BY <1>1, <1>2 DEF isAvailable

LEMMA AppliedIsAvailable ==
    ASSUME NEW v \in Seq(Int), isAvailable(v), NEW m \in SomeDownMsg
    PROVE  isAvailable(Applied(v, m))
<1>1. m \in ReplaceMsg => isAvailable(m.value)
  BY WritesAreValues DEF ReplaceMsg
<1>2. m \in PatchMsg => isAvailable(v \o m.updates)
  BY PatchKeepsAvailable DEF PatchMsg
<1>3. QED
  BY <1>1, <1>2 DEF Applied, SomeDownMsg, ReplaceMsg, PatchMsg, ErrorMsg

LEMMA ViewKept ==
    ASSUME Types, LoopInv, ViewInv, [Next]_vars
    PROVE  ViewInv'
<1> USE DEF ViewInv
<1>1. CASE UNCHANGED <<innerValue, innerStale, outerValue, outerStale, queuedUpdates>>
  BY <1>1 DEF isAvailable
<1>2. CASE outerStale'
  BY <1>2
<1>3. CASE Update /\ ~hasError
  <2>1. UNCHANGED <<innerValue, innerStale, outerStale>>
    BY <1>3 DEF Update
  <2>2. outerValue' = OptimisticValue(innerValue, Append(queuedUpdates, nextUpdate))
    BY <1>3 DEF Update
  <2>3. queuedUpdates' = Append(queuedUpdates, nextUpdate)
    <3>1. CASE MayStartLoop /\ ~innerStale
      <4>1. queuedUpdates = <<>>
        BY <3>1 DEF MayStartLoop, LoopInv
      <4>2. upstream \in openWritableSignalSubscriptions \cap firstUpdateReceived
        BY <3>1 DEF LoopInv
      <4>3. queuedUpdates' = <<nextUpdate>>
        BY <1>3, <3>1, <4>2 DEF Update, Write
      <4>4. QED
        BY <4>1, <4>3
    <3>2. QED
      BY <1>3, <3>1 DEF Update
  <2>4. QED
    BY <2>1, <2>2, <2>3 DEF OptimisticValue, WithUpdates, isAvailable
<1>4. CASE UnsubscribeInner /\ UNCHANGED <<innerValue, outerValue, queuedUpdates>>
  BY <1>1, <1>2, <1>4 DEF UnsubscribeInner
<1>5. CASE LoopStep
  <2>1. UNCHANGED <<innerValue, outerValue>>
    BY <1>5 DEF LoopStep, LoopContinues, LoopPulled, innerVars
  <2>2. ASSUME Write(queuedUpdates, outcome), ~innerStale PROVE queuedUpdates' = queuedUpdates
    BY <2>2 DEF Write, LoopInv
  <2>3. LoopPulled => ~innerStale
    BY DEF LoopPulled, LoopInv
  <2>4. QED
    BY <1>1, <1>4, <1>5, <2>1, <2>2, <2>3 DEF LoopStep, LoopContinues, LoopPulled, innerVars
<1>6. ASSUME NEW cause, SignalErrors(cause) PROVE ViewInv'
  BY <1>2, <1>6 DEF SignalErrors
<1>7. ASSUME NEW m \in SomeDownMsg, ReceivedWritableSignalUpdate(m) PROVE ViewInv'
  <2>1. /\ innerStale' = FALSE /\ innerValue' = Applied(innerValue, m)
        /\ outerStale' = IF isAvailable(innerValue') THEN FALSE ELSE outerStale
        /\ outerValue' = OptimisticValue(innerValue', queuedUpdates')
    BY <1>7 DEF ReceivedWritableSignalUpdate, FinishWrite, PassiveUpdate
  <2>2. isAvailable(innerValue) => isAvailable(innerValue')
    BY <2>1, AppliedIsAvailable DEF Types, WriterTypes
  <2>3. ~outerStale' => isAvailable(innerValue')
    BY <2>1, <2>2
  <2>4. QED
    BY <2>1, <2>3 DEF OptimisticValue, WithUpdates, isAvailable
<1>8. ASSUME NEW s \in Sockets, ClientReceives(s) PROVE ViewInv'
  <2>1. down[s] \in Seq(SomeDownMsg) /\ down[s] # <<>>
    BY <1>8 DEF ClientReceives, TakeMessage, Types, TransportTypeOK
  <2>2. Head(down[s]) \in SomeDownMsg
    BY <2>1
  <2>3. QED
    BY <1>1, <1>6, <1>7, <1>8, <2>2 DEF ClientReceives, ReceivedWritableSignalError, clientVars,
       innerVars, writeVars
<1>9. ASSUME NEW s \in Sockets, ConnectionLost(s) PROVE ViewInv'
  BY <1>1, <1>6, <1>9 DEF ConnectionLost, Errored, clientVars, innerVars, writeVars
<1>10. ASSUME NEW s \in Sockets, ConnectionOpens(s) \/ ServerReceives(s) \/ ServerConnectionLost(s)
       PROVE  ViewInv'
  BY <1>1, <1>10 DEF ConnectionOpens, ServerReceives, ServerConnectionLost, clientVars, innerVars, writeVars
<1>11. CASE Subscribe \/ Unsubscribe \/ ConnectStep \/ ServerStep \/ UNCHANGED vars
  BY <1>1, <1>4, <1>11 DEF Subscribe, Unsubscribe, ConnectStep, ServerStep, SourceBecomesAvailable,
     SignalHandlerReturns, SignalHandlerThrows, vars, clientVars, innerVars, writeVars
<1>12. CASE Update /\ hasError
  BY <1>2, <1>12 DEF Update
<1>13. QED
  BY <1>3, <1>5, <1>8, <1>9, <1>10, <1>11, <1>12 DEF Next, ApplicationStep, NetworkStep

-----------------------------------------------------------------------------
(* The writes.                                                             *)

LEMMA AppendsQueue ==
    ASSUME Types, QueueInv, Appends
    PROVE  /\ ToSet(queuedUpdates') = ToSet(queuedUpdates) \cup {nextUpdate}
           /\ SubSeq(queuedUpdates', 1, numHandledUpdates) = Round
           /\ outcome[nextUpdate] = "none" /\ outcome'[nextUpdate] = "queued"
           /\ \A u \in Updates : u # nextUpdate => outcome'[u] = outcome[u]
           /\ QueueInv'
<1>1. /\ queuedUpdates \in Seq(Updates) /\ numHandledUpdates \in 0..Len(queuedUpdates)
      /\ outcome \in [Updates -> {"none", "ignored", "queued", "resolved", "rejected"}]
      /\ nextUpdate \in Updates
  BY DEF Types, WriterTypes, Appends
<1>2. \A u \in Updates : u \in Int /\ nextUpdate \in Int
  BY <1>1, Bounds
<1>3. outcome[nextUpdate] = "none"
  BY <1>1, <1>2 DEF QueueInv
<1>4. \A u \in ToSet(queuedUpdates) : u \in Updates
  BY <1>1, RoundSplits
<1>5. \A u \in ToSet(queuedUpdates) : u < nextUpdate
  <2> SUFFICES ASSUME NEW u \in ToSet(queuedUpdates) PROVE u < nextUpdate
    OBVIOUS
  <2>1. outcome[u] = "queued" /\ (outcome[u] = "none" <=> u >= nextUpdate)
    BY <1>4 DEF QueueInv
  <2>2. QED
    BY <1>2, <1>4, <2>1
<1>6. PICK a : a = Append(queuedUpdates, nextUpdate)
  OBVIOUS
<1>7. /\ ToSet(a) = ToSet(queuedUpdates) \cup {nextUpdate}
      /\ SubSeq(a, 1, numHandledUpdates) = SubSeq(queuedUpdates, 1, numHandledUpdates)
      /\ Ascends(queuedUpdates) /\ (\A u \in ToSet(queuedUpdates) : u < nextUpdate) => Ascends(a)
  BY <1>1, <1>6, AppendSplits
<1>8. queuedUpdates' = a
  BY <1>6 DEF Appends
<1>9. /\ outcome'[nextUpdate] = "queued"
      /\ \A u \in Updates : u # nextUpdate => outcome'[u] = outcome[u]
  BY <1>1 DEF Appends
<1>10. Ascends(queuedUpdates)'
  <2>1. Ascends(a)
    BY <1>5, <1>7 DEF QueueInv
  <2>2. QED
    BY <1>8, <2>1 DEF Ascends
<1>11. ASSUME NEW u \in Updates
       PROVE  /\ outcome'[u] = "none" <=> u >= nextUpdate + 1
              /\ outcome'[u] = "queued" <=> u \in ToSet(a)
  <2>1. /\ outcome[u] = "none" <=> u >= nextUpdate
        /\ outcome[u] = "queued" <=> u \in ToSet(queuedUpdates)
    BY DEF QueueInv
  <2>2. u # nextUpdate => (u >= nextUpdate + 1 <=> u >= nextUpdate)
    BY <1>2
  <2>3. ~(nextUpdate >= nextUpdate + 1)
    BY <1>2
  <2>4. QED
    BY <1>7, <1>9, <2>1, <2>2, <2>3
<1>12. nextUpdate' = nextUpdate + 1
  BY DEF Appends
<1>13. QueueInv'
  BY <1>8, <1>10, <1>11, <1>12 DEF QueueInv
<1>14. QED
  BY <1>3, <1>7, <1>8, <1>9, <1>13 DEF Round

LEMMA SettlesQueue ==
    ASSUME Types, QueueInv, NEW result \in {"resolved", "rejected"}, Settles(result)
    PROVE  /\ Round # <<>> /\ Round[1] = Head(queuedUpdates)
           /\ Round \in Seq(Updates)
           /\ ToSet(Round) \subseteq ToSet(queuedUpdates)
           /\ ToSet(queuedUpdates') = ToSet(queuedUpdates) \ ToSet(Round)
           /\ \A u \in ToSet(Round), v \in ToSet(queuedUpdates') : u < v
           /\ \A u \in Updates : outcome'[u] = IF u \in ToSet(Round) THEN result ELSE outcome[u]
           /\ QueueInv'
<1>1. /\ queuedUpdates \in Seq(Updates) /\ numHandledUpdates \in 0..Len(queuedUpdates)
      /\ numHandledUpdates > 0
  BY DEF Types, WriterTypes, Settles
<1>2. PICK q, h : q \in Seq(Updates) /\ h \in 0..Len(q) /\ q = queuedUpdates /\ h = numHandledUpdates
  BY <1>1
<1>3. PICK r, o : r = Handled(q, h) /\ o = Others(q, h)
  OBVIOUS
<1>4. /\ r \in Seq(Updates) /\ r # <<>> /\ r[1] = Head(queuedUpdates)
      /\ ToSet(queuedUpdates) = ToSet(r) \cup ToSet(o)
      /\ ToSet(queuedUpdates) \subseteq Updates
      /\ Ascends(queuedUpdates) => /\ Ascends(o)
                                   /\ \A u \in ToSet(r), v \in ToSet(o) : u < v
  <2>1. /\ r \in Seq(Updates) /\ ToSet(q) = ToSet(r) \cup ToSet(o) /\ ToSet(q) \subseteq Updates
        /\ h > 0 => r # <<>> /\ r[1] = Head(q)
        /\ Ascends(q) => Ascends(o) /\ \A u \in ToSet(r), v \in ToSet(o) : u < v
    BY <1>2, <1>3, RoundSplits
  <2>2. QED
    BY <1>1, <1>2, <2>1 DEF Ascends
<1>5. Ascends(o) /\ \A u \in ToSet(r), v \in ToSet(o) : u < v
  BY <1>4 DEF QueueInv
<1>6. \A u \in ToSet(r) : u \notin ToSet(o)
  <2> SUFFICES ASSUME NEW u \in ToSet(r), u \in ToSet(o) PROVE FALSE
    OBVIOUS
  <2>1. u < u /\ u \in Int
    BY <1>4, <1>5, Bounds
  <2>2. QED
    BY <2>1
<1>7. queuedUpdates' = o /\ Round = r /\ nextUpdate' = nextUpdate
  BY <1>2, <1>3 DEF Settles, Round, Handled, Others
<1>8. \A u \in Updates : outcome'[u] = IF u \in ToSet(r) THEN result ELSE outcome[u]
  BY <1>7 DEF Settles, Settled
<1>9. Ascends(queuedUpdates)'
  BY <1>5, <1>7 DEF Ascends
<1>10. ASSUME NEW u \in Updates
       PROVE  /\ outcome'[u] = "none" <=> u >= nextUpdate
              /\ outcome'[u] = "queued" <=> u \in ToSet(o)
  <2>1. /\ outcome[u] = "none" <=> u >= nextUpdate
        /\ outcome[u] = "queued" <=> u \in ToSet(queuedUpdates)
    BY DEF QueueInv
  <2>2. CASE u \in ToSet(r)
    BY <1>4, <1>6, <1>8, <2>1, <2>2
  <2>3. CASE u \notin ToSet(r)
    BY <1>4, <1>8, <2>1, <2>3
  <2>4. QED
    BY <2>2, <2>3
<1>11. QueueInv'
  BY <1>7, <1>9, <1>10 DEF QueueInv
<1>12. ToSet(o) = ToSet(queuedUpdates) \ ToSet(r)
  BY <1>4, <1>6
<1>13. QED
  BY <1>4, <1>5, <1>7, <1>8, <1>11, <1>12

LEMMA QueueKept ==
    ASSUME Types, LoopInv, QueueInv, [Next]_vars
    PROVE  QueueInv'
<1>1. CASE UNCHANGED <<queuedUpdates, nextUpdate, outcome>>
  BY <1>1 DEF QueueInv, Ascends
<1>2. CASE Ignores
  <2>1. /\ nextUpdate \in Updates /\ nextUpdate' = nextUpdate + 1 /\ UNCHANGED queuedUpdates
        /\ outcome'[nextUpdate] = "ignored"
        /\ \A u \in Updates : u # nextUpdate => outcome'[u] = outcome[u]
    BY <1>2 DEF Ignores, Types, WriterTypes
  <2>2. \A u \in Updates : u \in Int
    BY Bounds
  <2>3. ASSUME NEW u \in Updates
        PROVE  /\ outcome'[u] = "none" <=> u >= nextUpdate + 1
               /\ outcome'[u] = "queued" <=> u \in ToSet(queuedUpdates)
    <3>1. /\ outcome[u] = "none" <=> u >= nextUpdate
          /\ outcome[u] = "queued" <=> u \in ToSet(queuedUpdates)
      BY DEF QueueInv
    <3>2. /\ u # nextUpdate => (u >= nextUpdate + 1 <=> u >= nextUpdate)
          /\ nextUpdate >= nextUpdate /\ ~(nextUpdate >= nextUpdate + 1)
      BY <2>1, <2>2
    <3>3. QED
      BY <2>1, <3>1, <3>2
  <2>4. Ascends(queuedUpdates)'
    BY <2>1 DEF QueueInv, Ascends
  <2>5. QED
    BY <2>1, <2>3, <2>4 DEF QueueInv
<1>3. CASE Appends
  BY <1>3, AppendsQueue
<1>4. CASE Settles("resolved") \/ Settles("rejected")
  BY <1>4, SettlesQueue
<1>5. SourceBecomesAvailable => UNCHANGED <<queuedUpdates, nextUpdate, outcome>>
  BY DEF SourceBecomesAvailable, clientVars, writeVars
<1>6. QED
  BY <1>1, <1>2, <1>3, <1>4, <1>5, StepKinds, TakeSteps
  DEF Queues, SendsRound, Finishes, GivesUp, Moves, Still

(* No write is sent, and none is repeated. *)
NoMoreWrites == \A m \in WriteMsg : (OnWire(m)' => OnWire(m)) /\ (Alone(m) => Alone(m)')

LEMMA SameNoMore ==
    ASSUME UNCHANGED <<queued, up>>
    PROVE  NoMoreWrites
  BY SameOnWire DEF NoMoreWrites

LEMMA OthersNoMore ==
    ASSUME Types, ConnectionInv, SendsNoWrite
    PROVE  NoMoreWrites
<1>1. TransportTypeOK(SomeUpMsg, SomeDownMsg)
  BY DEF Types
<1>2. PICK msg \in OtherMsg : SafeSend(msg)
  BY DEF SendsNoWrite
<1>3. msg \in SomeUpMsg /\ Transmit(msg)
  BY <1>2 DEF SomeUpMsg, SafeSend
<1>4. ASSUME NEW m \in WriteMsg PROVE (OnWire(m)' => OnWire(m)) /\ (Alone(m) => Alone(m)')
  <2>1. m # msg
    BY DEF WriteMsg, OtherMsg
  <2>2. QED
    BY <1>1, <1>3, <2>1, SendOnWire
<1>5. QED
  BY <1>4 DEF NoMoreWrites

LEMMA OpensNoMore ==
    ASSUME Types, ConnectionInv, WiresFollowSockets, NEW s \in Sockets, NEW msgs \in Seq(OtherMsg),
           OnWsOpen(s, msgs)
    PROVE  NoMoreWrites
<1>1. TransportTypeOK(SomeUpMsg, SomeDownMsg)
  BY DEF Types
<1>2. msgs \in Seq(SomeUpMsg) /\ \A k \in 1..Len(msgs) : msgs[k] \in OtherMsg
  BY DEF SomeUpMsg
<1>3. ASSUME NEW m \in WriteMsg PROVE (OnWire(m)' => OnWire(m)) /\ (Alone(m) => Alone(m)')
  <2>1. ~Carries(msgs, m)
    <3>1. m \notin OtherMsg
      BY DEF WriteMsg, OtherMsg
    <3>2. QED
      BY <1>2, <3>1 DEF Carries
  <2>2. QED
    BY <1>1, <1>2, <2>1, OpenOnWire
<1>4. QED
  BY <1>3 DEF NoMoreWrites

LEMMA NoMoreSteps ==
    ASSUME Types, ConnectionInv, WiresFollowSockets,
           \/ Ignores \/ Queues \/ Finishes \/ GivesUp \/ Moves \/ SourceBecomesAvailable
           \/ \E s \in Sockets : ServerReceives(s)
    PROVE  NoMoreWrites
<1>1. TransportTypeOK(SomeUpMsg, SomeDownMsg)
  BY DEF Types
<1>2. ASSUME NEW s \in Sockets, ServerSocketCloses(s) PROVE NoMoreWrites
  BY <1>1, <1>2, CloseOnWire DEF NoMoreWrites
<1>3. ASSUME NEW s \in Sockets, ServerTakeMessage(s) PROVE NoMoreWrites
  BY <1>1, <1>3, TakeOnWire DEF NoMoreWrites
<1>4. QED
  BY <1>2, <1>3, SameNoMore, OthersNoMore, OpensNoMore, TakeSteps DEF Ignores, Queues, Finishes, GivesUp,
     Settles, Moves, SourceBecomesAvailable, connectionVars

LEMMA NoMoreKeepsWires ==
    ASSUME WiresInv, NoMoreWrites, \A m \in WriteMsg : OnWire(m) /\ OnWire(m)' => WriteAgrees(m)'
    PROVE  WiresInv'
<1>1. \A m \in WriteMsg : OnWire(m)' => WriteAgrees(m)' /\ Alone(m)'
  BY DEF WiresInv, NoMoreWrites
<1>2. \A m1, m2 \in WriteMsg :
        OnWire(m1)' /\ OnWire(m2)' /\ ToSet(m1.updates) \cap ToSet(m2.updates) # {} => m1 = m2
  BY DEF WiresInv, NoMoreWrites
<1>3. QED
  BY <1>1, <1>2 DEF WiresInv

(* What of a write on the wire depends on the writer and on the server. *)
LEMMA WriteStillAgrees ==
    ASSUME NEW m, WriteAgrees(m), isAvailable(source)',
           \A u \in ToSet(m.updates) : u \notin ToSet(source') /\ outcome'[u] \in {"queued", "rejected"},
           ToSet(m.updates) \cap ToSet(queuedUpdates') # {} => m.updates = Round'
    PROVE  WriteAgrees(m)'
  BY DEF WriteAgrees

LEMMA WriteUpdates ==
    ASSUME NEW m \in WriteMsg
    PROVE  m.updates \in Seq(Updates) /\ ToSet(m.updates) \subseteq Updates
<1>1. m.updates \in Seq(Updates)
  BY DEF WriteMsg
<1>2. \A k \in DOMAIN m.updates : m.updates[k] \in Updates
  BY <1>1
<1>3. QED
  BY <1>1, <1>2 DEF ToSet

LEMMA SourceUpdates ==
    ASSUME Types, isAvailable(source)
    PROVE  source \in Seq(Updates) /\ ToSet(source) \subseteq Updates
<1>1. source \in Seq(Updates)
  BY DEF Types, ServerTypes, isAvailable
<1>2. \A k \in DOMAIN source : source[k] \in Updates
  BY <1>1
<1>3. QED
  BY <1>1, <1>2 DEF ToSet

LEMMA IgnoresKeepsWrites ==
    ASSUME Types, QueueInv, WiresInv, SourceInv, NoMoreWrites, Ignores
    PROVE  WiresInv' /\ SourceInv'
<1>1. /\ nextUpdate \in Updates /\ outcome[nextUpdate] = "none"
      /\ \A u \in Updates : u # nextUpdate => outcome'[u] = outcome[u]
      /\ UNCHANGED <<queuedUpdates, numHandledUpdates, source>>
  BY Bounds DEF Ignores, QueueInv, Types, WriterTypes
<1>2. Round' = Round
  BY <1>1 DEF Round
<1>3. \A u \in Updates : outcome[u] \notin {"none", "ignored"} => outcome'[u] = outcome[u]
  BY <1>1
<1>4. ASSUME NEW m \in WriteMsg, OnWire(m) PROVE WriteAgrees(m)'
  <2>1. WriteAgrees(m)
    BY <1>4 DEF WiresInv
  <2>2. \A u \in ToSet(m.updates) : u \notin ToSet(source) /\ outcome'[u] \in {"queued", "rejected"}
    BY <1>3, <2>1, WriteUpdates DEF WriteAgrees
  <2>3. QED
    BY <1>1, <1>2, <2>1, <2>2, WriteStillAgrees DEF WriteAgrees, isAvailable
<1>5. SourceInv'
  <2>1. isAvailable(source) => \A u \in ToSet(source) : u \in Updates
    BY SourceUpdates
  <2>2. QED
    BY <1>1, <1>2, <1>3, <2>1 DEF SourceInv, isAvailable
<1>6. QED
  BY <1>4, <1>5, NoMoreKeepsWires

LEMMA QueuesKeepsWrites ==
    ASSUME Types, QueueInv, WiresInv, SourceInv, NoMoreWrites, Queues
    PROVE  WiresInv' /\ SourceInv'
<1>1. /\ ToSet(queuedUpdates') = ToSet(queuedUpdates) \cup {nextUpdate}
      /\ SubSeq(queuedUpdates', 1, numHandledUpdates) = Round
      /\ outcome[nextUpdate] = "none"
      /\ \A u \in Updates : u # nextUpdate => outcome'[u] = outcome[u]
  BY AppendsQueue DEF Queues
<1>2. UNCHANGED <<numHandledUpdates, source>>
  BY DEF Queues
<1>3. Round' = Round
  BY <1>1, <1>2 DEF Round
<1>4. \A u \in Updates : outcome[u] \notin {"none", "ignored"} => u # nextUpdate /\ outcome'[u] = outcome[u]
  BY <1>1
<1>5. ASSUME NEW m \in WriteMsg, OnWire(m) PROVE WriteAgrees(m)'
  <2>1. WriteAgrees(m)
    BY <1>5 DEF WiresInv
  <2>2. \A u \in ToSet(m.updates) : /\ u \notin ToSet(source) /\ outcome'[u] \in {"queued", "rejected"}
                                    /\ u # nextUpdate
    BY <1>4, <2>1, WriteUpdates DEF WriteAgrees
  <2>3. ToSet(m.updates) \cap ToSet(queuedUpdates') # {} => m.updates = Round'
    BY <1>1, <1>3, <2>1, <2>2 DEF WriteAgrees
  <2>4. QED
    BY <1>2, <2>1, <2>2, <2>3, WriteStillAgrees DEF WriteAgrees, isAvailable
<1>6. SourceInv'
  <2>1. isAvailable(source) => \A u \in ToSet(source) : u \in Updates
    BY SourceUpdates
  <2>2. QED
    BY <1>1, <1>2, <1>3, <1>4, <2>1 DEF SourceInv, isAvailable
<1>7. QED
  BY <1>5, <1>6, NoMoreKeepsWires

(* A round that is acknowledged was applied, all of it. *)
LEMMA FinishedRound ==
    ASSUME Types, QueueInv, SourceInv, EchoInv, Settles("resolved"), NEW s \in Sockets, Echoed(s)
    PROVE  isAvailable(source) /\ ToSet(Round) \subseteq ToSet(source)
<1>1. /\ Round # <<>> /\ Round[1] = Head(queuedUpdates) /\ Round \in Seq(Updates)
      /\ ToSet(Round) \subseteq ToSet(queuedUpdates)
  BY SettlesQueue
<1>2. 1 \in DOMAIN Round /\ Round[1] \in Updates
  BY <1>1
<1>3. Head(queuedUpdates) \in ToSet(queuedUpdates) /\ Head(queuedUpdates) # None
  BY <1>1, <1>2, Bounds DEF ToSet
<1>4. down[s] \in Seq(SomeDownMsg) /\ down[s] # <<>>
  BY DEF Echoed, Types, TransportTypeOK
<1>5. Head(down[s]) = down[s][1] /\ 1 \in 1..Len(down[s])
  BY <1>4
<1>6. EchoAgrees(Head(down[s]), source)
  BY <1>5 DEF EchoInv
<1>7. isAvailable(source) /\ Head(queuedUpdates) \in ToSet(source)
  BY <1>3, <1>6 DEF EchoAgrees, Echoed
<1>8. QED
  BY <1>3, <1>7 DEF SourceInv

(* The round that settles is no longer on its way, unless it is given up.  *)
LEMMA SettlesKeepsWrites ==
    ASSUME Types, QueueInv, WiresInv, SourceInv, EchoInv, NoMoreWrites, Finishes \/ GivesUp
    PROVE  WiresInv' /\ SourceInv'
<1>1. PICK result \in {"resolved", "rejected"} :
        Settles(result) /\ (result = "resolved" => \E s \in Sockets : Echoed(s))
  BY DEF Finishes, GivesUp
<1>2. /\ Round # <<>> /\ Round[1] = Head(queuedUpdates) /\ Round \in Seq(Updates)
      /\ ToSet(Round) \subseteq ToSet(queuedUpdates)
      /\ ToSet(queuedUpdates') = ToSet(queuedUpdates) \ ToSet(Round)
      /\ \A u \in Updates : outcome'[u] = IF u \in ToSet(Round) THEN result ELSE outcome[u]
  BY <1>1, SettlesQueue
<1>3. UNCHANGED source
  BY <1>1 DEF Settles
<1>4. result = "resolved" => isAvailable(source) /\ ToSet(Round) \subseteq ToSet(source)
  BY <1>1, FinishedRound
<1>5. ASSUME NEW m \in WriteMsg, OnWire(m) PROVE WriteAgrees(m)'
  <2>1. WriteAgrees(m)
    BY <1>5 DEF WiresInv
  <2>2. \A u \in ToSet(m.updates) : u \in Updates /\ u \notin ToSet(source) /\ outcome[u] \in {"queued", "rejected"}
    BY <2>1, WriteUpdates DEF WriteAgrees
  <2>3. \A u \in ToSet(m.updates) : outcome'[u] \in {"queued", "rejected"}
    <3>1. \A u \in ToSet(m.updates) : u \in ToSet(Round) => result = "rejected"
      BY <1>4, <2>2
    <3>2. QED
      BY <1>2, <2>2, <3>1
  <2>4. ToSet(m.updates) \cap ToSet(queuedUpdates') = {}
    BY <1>2, <2>1 DEF WriteAgrees
  <2>5. QED
    BY <1>3, <2>1, <2>2, <2>3, <2>4, WriteStillAgrees DEF WriteAgrees, isAvailable
<1>6. SourceInv'
  <2>1. isAvailable(source) => \A u \in ToSet(source) : u \in Updates
    BY SourceUpdates
  <2>2. \A u \in Updates : outcome[u] \notin {"none", "ignored"} => outcome'[u] \notin {"none", "ignored"}
    BY <1>2
  <2>3. isAvailable(source) => \A u \in ToSet(source) : u \notin ToSet(queuedUpdates')
    BY <1>2 DEF SourceInv
  <2>4. QED
    BY <1>3, <2>1, <2>2, <2>3 DEF SourceInv, isAvailable
<1>7. QED
  BY <1>5, <1>6, NoMoreKeepsWires

LEMMA SentRoundAgrees ==
    ASSUME Types, ConnectionInv, QueueInv, WiresInv, SourceInv, EchoInv, SendsRound
    PROVE  /\ QueueInv' /\ queuedUpdates' \in Seq(Updates) /\ Round' = queuedUpdates'
           /\ RoundMsg(queuedUpdates') \in WriteMsg
           /\ isAvailable(source)
           /\ \A u \in ToSet(queuedUpdates') : u \in Updates /\ outcome'[u] = "queued" /\ u \notin ToSet(source)
           /\ \A m \in WriteMsg : OnWire(m) => ToSet(m.updates) \cap ToSet(queuedUpdates') = {}
           /\ \A u \in Updates : outcome[u] \notin {"none", "ignored"} => outcome'[u] = outcome[u]
<1>1. /\ queuedUpdates \in Seq(Updates) /\ numHandledUpdates = 0
      /\ queuedUpdates' # <<>> /\ numHandledUpdates' = Len(queuedUpdates')
      /\ UNCHANGED source
  BY DEF SendsRound, Types, WriterTypes
<1>2. isAvailable(source) /\ upstream \in SubscribeIds
  BY DEF SendsRound, EchoInv, Types, WriterTypes
<1>3. Round = <<>> /\ ToSet(Round) = {}
  <2>1. Round = <<>>
    BY <1>1 DEF Round
  <2>2. QED
    BY <2>1 DEF ToSet
<1>4. /\ QueueInv' /\ queuedUpdates' \in Seq(Updates)
      /\ \A u \in Updates : outcome[u] \notin {"none", "ignored"} => outcome'[u] = outcome[u]
      /\ \A u \in ToSet(queuedUpdates') : u \in ToSet(queuedUpdates) \/ outcome[u] = "none"
  <2>1. CASE Appends
    <3>1. /\ ToSet(queuedUpdates') = ToSet(queuedUpdates) \cup {nextUpdate}
          /\ outcome[nextUpdate] = "none"
          /\ \A u \in Updates : u # nextUpdate => outcome'[u] = outcome[u]
          /\ QueueInv'
      BY <2>1, AppendsQueue
    <3>2. queuedUpdates' \in Seq(Updates)
      BY <1>1, <2>1 DEF Appends
    <3>3. QED
      BY <3>1, <3>2
  <2>2. CASE UNCHANGED <<queuedUpdates, nextUpdate, outcome>>
    BY <1>1, <2>2 DEF QueueInv, Ascends
  <2>3. QED
    BY <2>1, <2>2 DEF SendsRound
<1>5. Round' = queuedUpdates'
  BY <1>1, <1>4 DEF Round
<1>6. \A u \in ToSet(queuedUpdates') : u \in Updates
  <2>1. \A k \in DOMAIN queuedUpdates' : queuedUpdates'[k] \in Updates
    BY <1>4
  <2>2. QED
    BY <2>1 DEF ToSet
<1>7. \A u \in ToSet(queuedUpdates') : outcome'[u] = "queued"
  BY <1>4, <1>6 DEF QueueInv
<1>8. \A u \in ToSet(queuedUpdates') : u \notin ToSet(source)
  BY <1>2, <1>3, <1>4 DEF SourceInv
<1>9. ASSUME NEW m \in WriteMsg, OnWire(m), NEW u \in ToSet(m.updates), u \in ToSet(queuedUpdates')
      PROVE  FALSE
  <2>1. WriteAgrees(m)
    BY <1>9 DEF WiresInv
  <2>2. outcome[u] \in {"queued", "rejected"}
    BY <1>9, <2>1 DEF WriteAgrees
  <2>3. u \in ToSet(queuedUpdates)
    BY <1>4, <1>9, <2>2
  <2>4. QED
    BY <1>3, <1>9, <2>1, <2>3 DEF WriteAgrees
<1>10. RoundMsg(queuedUpdates') \in WriteMsg
  BY <1>1, <1>2, <1>4, RoundMsgType
<1>11. QED
  BY <1>2, <1>4, <1>5, <1>6, <1>7, <1>8, <1>9, <1>10

LEMMA SendsRoundKeepsWrites ==
    ASSUME Types, ConnectionInv, QueueInv, WiresInv, SourceInv, EchoInv, SendsRound
    PROVE  WiresInv' /\ SourceInv'
<1>1. PICK n : n = RoundMsg(queuedUpdates')
  OBVIOUS
<1>2. /\ QueueInv' /\ queuedUpdates' \in Seq(Updates) /\ Round' = queuedUpdates'
      /\ n \in WriteMsg
      /\ isAvailable(source)
      /\ \A u \in ToSet(queuedUpdates') : u \in Updates /\ outcome'[u] = "queued" /\ u \notin ToSet(source)
      /\ \A m \in WriteMsg : OnWire(m) => ToSet(m.updates) \cap ToSet(queuedUpdates') = {}
      /\ \A u \in Updates : outcome[u] \notin {"none", "ignored"} => outcome'[u] = outcome[u]
  BY <1>1, SentRoundAgrees
<1>3. UNCHANGED source /\ queuedUpdates' # <<>> /\ SafeSend(n)
  BY <1>1 DEF SendsRound
<1>4. n.updates = queuedUpdates' /\ n.tag = queuedUpdates'[1]
  <2>1. Head(queuedUpdates') = queuedUpdates'[1]
    BY <1>2, <1>3
  <2>2. QED
    BY <1>1, <2>1 DEF RoundMsg
<1>5. ToSet(queuedUpdates') # {}
  <2>1. 1 \in DOMAIN queuedUpdates'
    BY <1>2, <1>3
  <2>2. QED
    BY <2>1 DEF ToSet
<1>6. ~OnWire(n)
  BY <1>2, <1>4, <1>5
<1>7. ASSUME NEW m \in WriteMsg
      PROVE  (OnWire(m)' => OnWire(m) \/ m = n) /\ (Alone(m) /\ (m = n => ~OnWire(m)) => Alone(m)')
  <2>1. TransportTypeOK(SomeUpMsg, SomeDownMsg) /\ n \in SomeUpMsg /\ Transmit(n)
    BY <1>2, <1>3 DEF Types, SomeUpMsg, SafeSend
  <2>2. QED
    BY <2>1, SendOnWire
<1>8. WriteAgrees(n)'
  BY <1>2, <1>3, <1>4 DEF WriteAgrees, QueueInv, isAvailable, Ascends
<1>9. ASSUME NEW m \in WriteMsg, OnWire(m) PROVE WriteAgrees(m)' /\ ToSet(m.updates) \cap ToSet(n.updates) = {}
  <2>1. WriteAgrees(m)
    BY <1>9 DEF WiresInv
  <2>2. \A u \in ToSet(m.updates) : u \notin ToSet(source) /\ outcome'[u] \in {"queued", "rejected"}
    BY <1>2, <2>1, WriteUpdates DEF WriteAgrees
  <2>3. ToSet(m.updates) \cap ToSet(queuedUpdates') = {}
    BY <1>2, <1>9
  <2>4. QED
    BY <1>2, <1>3, <1>4, <2>1, <2>2, <2>3, WriteStillAgrees DEF isAvailable
<1>10. WiresInv'
  <2>1. Alone(n)'
    <3>1. Alone(n)
      BY <1>6 DEF Alone, OnWire, Once, Carries
    <3>2. QED
      BY <1>2, <1>6, <1>7, <3>1
  <2>2. \A m \in WriteMsg : OnWire(m) => Alone(m)'
    BY <1>6, <1>7 DEF WiresInv
  <2>3. \A m \in WriteMsg : OnWire(m)' => WriteAgrees(m)' /\ Alone(m)'
    BY <1>7, <1>8, <1>9, <2>1, <2>2
  <2>4. \A m1, m2 \in WriteMsg :
          OnWire(m1)' /\ OnWire(m2)' /\ ToSet(m1.updates) \cap ToSet(m2.updates) # {} => m1 = m2
    <3>1. ASSUME NEW m1 \in WriteMsg, NEW m2 \in WriteMsg, OnWire(m1)', OnWire(m2)',
                 ToSet(m1.updates) \cap ToSet(m2.updates) # {}
          PROVE  m1 = m2
      <4>1. (OnWire(m1) \/ m1 = n) /\ (OnWire(m2) \/ m2 = n)
        BY <1>7, <3>1
      <4>2. CASE OnWire(m1) /\ OnWire(m2)
        BY <3>1, <4>2 DEF WiresInv
      <4>3. QED
        BY <1>9, <3>1, <4>1, <4>2
    <3>2. QED
      BY <3>1
  <2>5. QED
    BY <2>3, <2>4 DEF WiresInv
<1>11. SourceInv'
  <2>1. \A u \in ToSet(source) : u \in Updates
    BY <1>2, SourceUpdates
  <2>2. QED
    BY <1>2, <1>3, <2>1 DEF SourceInv
<1>12. QED
  BY <1>10, <1>11

LEMMA ConcatSet ==
    ASSUME NEW q \in Seq(Updates), NEW r \in Seq(Updates), NEW v, v = q \o r
    PROVE  v \in Seq(Updates) /\ ToSet(v) = ToSet(q) \cup ToSet(r)
<1>1. /\ v \in Seq(Updates) /\ Len(q) \in Nat /\ Len(r) \in Nat /\ Len(v) = Len(q) + Len(r)
      /\ \A k \in 1..Len(q) : v[k] = q[k]
      /\ \A k \in (Len(q) + 1)..(Len(q) + Len(r)) : v[k] = r[k - Len(q)]
  BY ConcatPoints
<1>2. DOMAIN v = 1..(Len(q) + Len(r)) /\ DOMAIN q = 1..Len(q) /\ DOMAIN r = 1..Len(r)
  BY <1>1
<1>3. ASSUME NEW k \in DOMAIN v PROVE v[k] \in ToSet(q) \/ v[k] \in ToSet(r)
  <2>1. CASE k <= Len(q)
    <3>1. k \in DOMAIN q
      BY <1>1, <1>2, <2>1
    <3>2. QED
      BY <1>1, <1>2, <3>1 DEF ToSet
  <2>2. CASE k > Len(q)
    <3>1. k \in (Len(q) + 1)..(Len(q) + Len(r)) /\ k - Len(q) \in DOMAIN r
      BY <1>1, <1>2, <2>2
    <3>2. QED
      BY <1>1, <3>1 DEF ToSet
  <2>3. k \in Int
    BY <1>1, <1>2
  <2>4. QED
    BY <1>1, <2>1, <2>2, <2>3
<1>4. ASSUME NEW k \in DOMAIN q PROVE q[k] \in ToSet(v)
  <2>1. k \in DOMAIN v
    BY <1>1, <1>2
  <2>2. QED
    BY <1>1, <1>2, <2>1 DEF ToSet
<1>5. ASSUME NEW k \in DOMAIN r PROVE r[k] \in ToSet(v)
  <2>1. /\ Len(q) + k \in DOMAIN v /\ (Len(q) + k) - Len(q) = k
        /\ Len(q) + k \in (Len(q) + 1)..(Len(q) + Len(r))
    BY <1>1, <1>2
  <2>2. QED
    BY <1>1, <2>1 DEF ToSet
<1>6. (\A u \in ToSet(v) : u \in ToSet(q) \/ u \in ToSet(r)) /\ ToSet(q) \subseteq ToSet(v) /\ ToSet(r) \subseteq ToSet(v)
  BY <1>3, <1>4, <1>5 DEF ToSet
<1>7. QED
  BY <1>1, <1>6

(* The server applies a write that nobody took before. *)
LEMMA TakesKeepsWrites ==
    ASSUME Types, WiresInv, SourceInv, NoMoreWrites, NEW s \in Sockets, ServerReceives(s)
    PROVE  WiresInv' /\ SourceInv'
<1>1. PICK n : n = Head(up[s])
  OBVIOUS
<1>2. /\ Still /\ ServerTakeMessage(s) /\ n \in SomeUpMsg
      /\ \/ source' = source
         \/ n \in WriteMsg /\ isAvailable(source) /\ source' = source \o n.updates
  BY <1>1, TakeSteps
<1>3. Round' = Round /\ UNCHANGED <<queuedUpdates, outcome>>
  BY <1>2 DEF Still, Round
<1>4. OnWire(n)
  BY <1>1, <1>2, TakeOnWire DEF Types
<1>5. Alone(n) => ~OnWire(n)'
  BY <1>1, <1>2, TakeOnWire DEF Types
<1>6. CASE source' = source
  <2>1. \A m \in WriteMsg : OnWire(m) => WriteAgrees(m)'
    BY <1>3, <1>6 DEF WiresInv, WriteAgrees, isAvailable
  <2>2. SourceInv'
    BY <1>3, <1>6 DEF SourceInv, isAvailable
  <2>3. QED
    BY <2>1, <2>2, NoMoreKeepsWires
<1>7. CASE n \in WriteMsg /\ isAvailable(source) /\ source' = source \o n.updates
  <2>1. WriteAgrees(n) /\ Alone(n)
    BY <1>4, <1>7 DEF WiresInv
  <2>2. source \in Seq(Updates) /\ n.updates \in Seq(Updates)
    BY <1>7, SourceUpdates, WriteUpdates
  <2>3. source' \in Seq(Updates) /\ ToSet(source') = ToSet(source) \cup ToSet(n.updates)
    BY <1>7, <2>2, ConcatSet
  <2>4. isAvailable(source')
    BY <2>3, WritesAreValues
  <2>5. ASSUME NEW m \in WriteMsg, OnWire(m), OnWire(m)' PROVE WriteAgrees(m)'
    <3>1. m # n /\ WriteAgrees(m)
      BY <1>5, <2>1, <2>5 DEF WiresInv
    <3>2. ToSet(m.updates) \cap ToSet(n.updates) = {}
      BY <1>4, <1>7, <2>5, <3>1 DEF WiresInv
    <3>3. \A u \in ToSet(m.updates) : u \notin ToSet(source') /\ outcome[u] \in {"queued", "rejected"}
      BY <2>3, <3>1, <3>2 DEF WriteAgrees
    <3>4. QED
      BY <1>3, <2>4, <3>1, <3>3, WriteStillAgrees DEF WriteAgrees, isAvailable
  <2>6. ASSUME NEW u \in ToSet(source')
        PROVE  /\ outcome[u] \notin {"none", "ignored"}
               /\ u \in ToSet(queuedUpdates) => u \in ToSet(Round) /\ ToSet(Round) \subseteq ToSet(source')
    <3>1. CASE u \in ToSet(source)
      BY <1>7, <2>3, <3>1 DEF SourceInv
    <3>2. CASE u \in ToSet(n.updates)
      BY <2>1, <2>3, <3>2 DEF WriteAgrees
    <3>3. QED
      BY <2>3, <3>1, <3>2
  <2>7. SourceInv'
    BY <1>3, <2>6 DEF SourceInv
  <2>8. QED
    BY <2>5, <2>7, NoMoreKeepsWires
<1>8. QED
  BY <1>2, <1>6, <1>7

LEMMA WritesKept ==
    ASSUME Types, WriteInv, [Next]_vars
    PROVE  WiresInv' /\ SourceInv'
<1> USE DEF WriteInv
<1>1. CASE \/ Ignores \/ Queues \/ Finishes \/ GivesUp
           \/ \E s \in Sockets : ServerReceives(s)
  BY <1>1, NoMoreSteps, IgnoresKeepsWrites, QueuesKeepsWrites, SettlesKeepsWrites, TakesKeepsWrites
<1>2. CASE SendsRound
  BY <1>2, SendsRoundKeepsWrites
<1>3. CASE Moves
  <2>1. /\ Round' = Round /\ UNCHANGED <<queuedUpdates, outcome, source>>
        /\ NoMoreWrites
    BY <1>3, NoMoreSteps DEF Moves, Still, Round
  <2>2. \A m \in WriteMsg : OnWire(m) => WriteAgrees(m)'
    BY <2>1 DEF WiresInv, WriteAgrees, isAvailable
  <2>3. SourceInv'
    BY <2>1 DEF SourceInv, isAvailable
  <2>4. QED
    BY <2>1, <2>2, <2>3, NoMoreKeepsWires
<1>4. CASE SourceBecomesAvailable
  <2>1. ~isAvailable(source) /\ source' = <<>> /\ NoMoreWrites
    BY <1>4, NoMoreSteps DEF SourceBecomesAvailable, SourceChanges
  <2>2. \A m \in WriteMsg : ~OnWire(m)
    BY <2>1 DEF WiresInv, WriteAgrees
  <2>3. SourceInv'
    BY <2>1 DEF SourceInv, ToSet
  <2>4. QED
    BY <2>1, <2>2, <2>3, NoMoreKeepsWires
<1>5. QED
  BY <1>1, <1>2, <1>3, <1>4, StepKinds

-----------------------------------------------------------------------------
(* The invariant.                                                          *)

LEMMA InitInv ==
    ASSUME Init
    PROVE  Types /\ WriteInv
<1>0. /\ MaxSockets \in Nat /\ MaxSubscribeIds \in Nat /\ MaxSubscribers \in Nat /\ MaxUpdates \in Nat
  BY Bounds
<1>1. TransportInit
  BY DEF Init
<1>2. TransportTypeOK(SomeUpMsg, SomeDownMsg) /\ ConnectionInv /\ WiresFollowSockets
  BY <1>1, TransportInitTypes
<1>3. NotAvailable \in Seq(Int) /\ <<>> \in Seq(Updates) /\ Len(<<>>) = 0 /\ ToSet(<<>>) = {}
  BY DEF NotAvailable, None, ToSet
<1>4. WriterTypes
  <2>1. /\ 0 \in 0..MaxSubscribeIds /\ 0 \in 0..MaxSubscribers /\ 0 \in 0..MaxUpdates /\ 0 \in 0..0
    BY <1>0
  <2>2. /\ nextWritableSubscribeId = 0 /\ openWritableSignalSubscriptions = {}
        /\ firstUpdateReceived = {} /\ recoverable = FALSE
        /\ subscribers = 0 /\ upstream = None /\ error = "none"
        /\ innerValue = NotAvailable /\ innerStale = TRUE
        /\ outerValue = NotAvailable /\ outerStale = TRUE
        /\ queuedUpdates = <<>> /\ numHandledUpdates = 0 /\ loop = "idle"
        /\ nextUpdate = 0 /\ outcome = [u \in Updates |-> "none"]
    BY DEF Init
  <2>3. outcome \in [Updates -> {"none", "ignored", "queued", "resolved", "rejected"}]
    BY <2>2
  <2>4. QED
    BY <1>3, <2>1, <2>2, <2>3 DEF WriterTypes
<1>5. ServerTypes
  <2>1. source \in Seq(Updates) \cup {NotAvailable}
    BY <1>3 DEF Init
  <2>2. 0 \in 0..MaxSockets
    BY <1>0
  <2>3. QED
    BY <2>1, <2>2 DEF Init, ServerTypes
<1>6. Types
  BY <1>2, <1>4, <1>5 DEF Types
<1>7. LoopInv /\ ViewInv
  BY DEF Init, LoopInv, ViewInv, hasError
<1>8. QueueInv
  <2>1. \A u \in Updates : u >= 0
    BY <1>0 DEF Updates
  <2>2. queuedUpdates = <<>> /\ nextUpdate = 0 /\ outcome = [u \in Updates |-> "none"]
    BY DEF Init
  <2>3. Ascends(queuedUpdates)
    BY <2>2 DEF Ascends
  <2>4. QED
    BY <1>3, <2>1, <2>2, <2>3 DEF QueueInv
<1>9. \A m : ~OnWire(m)
  <2>1. \A l \in Places : Wire[l] = <<>>
    BY <1>1 DEF TransportInit, Wire, Places, Sockets
  <2>2. QED
    BY <1>3, <2>1 DEF OnWire, Carries
<1>10. WiresInv
  BY <1>9 DEF WiresInv
<1>11. SourceInv
  BY <1>3 DEF Init, SourceInv, isAvailable
<1>12. EchoInv
  BY <1>1, <1>3 DEF Init, TransportInit, EchoInv
<1>13. QED
  BY <1>2, <1>6, <1>7, <1>8, <1>10, <1>11, <1>12 DEF WriteInv

LEMMA InvKept ==
    ASSUME Types, WriteInv, [Next]_vars
    PROVE  Types' /\ WriteInv'
<1>1. Types' /\ ConnectionInv' /\ WiresFollowSockets'
  BY TypesKept DEF WriteInv
<1>2. LoopInv' /\ ViewInv' /\ QueueInv' /\ EchoInv'
  BY LoopKept, ViewKept, QueueKept, EchoKept DEF WriteInv
<1>3. WiresInv' /\ SourceInv'
  BY WritesKept
<1>4. QED
  BY <1>1, <1>2, <1>3 DEF WriteInv

(* Every reachable state satisfies the invariant, whatever the writer, the *)
(* server and the connections do: what the loop, the wires and the server  *)
(* have of each write agrees (OWLSignal, ClientPort, ServerPort).          *)
THEOREM InvHolds == Spec => [](Types /\ WriteInv)
<1>1. Init => Types /\ WriteInv
  BY InitInv
<1>2. (Types /\ WriteInv) /\ [Next]_vars => (Types /\ WriteInv)'
  BY InvKept
<1>3. QED
  BY <1>1, <1>2, PTL DEF Spec

-----------------------------------------------------------------------------
(* The properties.                                                         *)

(* The write loop runs exactly while writes are queued, and then the       *)
(* signal is subscribed or waits for its connection (ensureWriteLoop).     *)
THEOREM LoopRunsHolds == Spec => []LoopRuns
<1>1. WriteInv => LoopRuns
  BY DEF WriteInv, LoopInv, LoopRuns
<1>2. QED
  BY <1>1, InvHolds, PTL

(* What passes for fresh is the server's value with the writes that are    *)
(* not settled yet, over an active subscription (updateOptimisticValue).   *)
THEOREM OptimisticViewHolds == Spec => []OptimisticView
<1>1. WriteInv => OptimisticView
  BY DEF WriteInv, LoopInv, ViewInv, OptimisticView
<1>2. QED
  BY <1>1, InvHolds, PTL

LEMMA ContractOperators ==
    /\ Contract!NotAvailable = NotAvailable
    /\ \A q : Contract!ToSet(q) = ToSet(q)
    /\ Contract!SeqOf(Updates, Contract!Cardinality(Updates)) = SeqOf(Updates, Cardinality(Updates))
  BY DEF Contract!NotAvailable, NotAvailable, None, Contract!ToSet, ToSet, Contract!SeqOf, SeqOf,
     Contract!Cardinality, Cardinality

LEMMA AscendingWrites ==
    ASSUME NEW q \in Seq(Updates), Ascends(q)
    PROVE  q \in Contract!Ascending
<1> DEFINE n == Len(q)
           D == 1..n
<1>1. n \in Nat /\ DOMAIN q = D /\ q \in [D -> Updates]
  OBVIOUS
<1>2. \A i, j \in D : q[i] = q[j] => i = j
  <2> SUFFICES ASSUME NEW i \in D, NEW j \in D, q[i] = q[j] PROVE i = j
    OBVIOUS
  <2>1. q[i] \in Int /\ q[j] \in Int
    BY <1>1, Bounds
  <2>2. ~(i < j) /\ ~(j < i)
    BY <1>1, <2>1 DEF Ascends
  <2>3. QED
    BY <1>1, <2>2
<1>3. IsFiniteSet(Updates) /\ Cardinality(Updates) \in Nat
  <2>1. MaxUpdates - 1 \in Int
    BY Bounds
  <2>2. QED
    BY <2>1, FS_Interval, FS_CardinalityType DEF Updates
<1>4. n <= Cardinality(Updates)
  <2>1. q \in Injection(D, Updates)
    BY <1>1, <1>2 DEF Injection, IsInjective
  <2>2. Cardinality(D) = n
    BY <1>1, FS_Interval
  <2> HIDE DEF D, n
  <2>3. QED
    BY <1>3, <2>1, <2>2, FS_Injection
<1>5. q \in SeqOf(Updates, Cardinality(Updates))
  <2>1. n \in 0..Cardinality(Updates) /\ q \in [1..n -> Updates]
    BY <1>1, <1>3, <1>4
  <2> HIDE DEF n
  <2>2. QED
    BY <2>1 DEF SeqOf
<1>6. QED
  BY <1>5, ContractOperators DEF Contract!Ascending, Ascends

LEMMA SettlesIsStep ==
    ASSUME Types, WriteInv, NEW result \in {"resolved", "rejected"}, Settles(result),
           result = "resolved" => \E s \in Sockets : Echoed(s)
    PROVE  Contract!Settle(ToSet(Round))
<1>1. /\ Round \in Seq(Updates) /\ ToSet(Round) \subseteq ToSet(queuedUpdates)
      /\ ToSet(queuedUpdates') = ToSet(queuedUpdates) \ ToSet(Round)
      /\ \A u \in ToSet(Round), v \in ToSet(queuedUpdates') : u < v
      /\ \A u \in Updates : outcome'[u] = IF u \in ToSet(Round) THEN result ELSE outcome[u]
  BY SettlesQueue DEF WriteInv
<1>2. \A u \in Updates : outcome[u] = "queued" <=> u \in ToSet(queuedUpdates)
  BY DEF WriteInv, QueueInv
<1>3. ToSet(Round) \subseteq Updates
  <2>1. \A k \in DOMAIN Round : Round[k] \in Updates
    BY <1>1
  <2>2. QED
    BY <2>1 DEF ToSet
<1>4. \A u \in ToSet(Round) : outcome[u] = "queued"
  BY <1>1, <1>2, <1>3
<1>5. \A u \in Updates \ ToSet(Round), v \in ToSet(Round) : u < v => outcome[u] # "queued"
  <2> SUFFICES ASSUME NEW u \in Updates \ ToSet(Round), NEW v \in ToSet(Round), u < v, outcome[u] = "queued"
               PROVE  FALSE
    OBVIOUS
  <2>1. v < u
    BY <1>1, <1>2
  <2>2. u \in Int /\ v \in Int
    BY <1>3, Bounds
  <2>3. QED
    BY <2>1, <2>2
<1>6. result = "resolved" => ToSet(Round) \subseteq ToSet(source)
  BY FinishedRound DEF WriteInv
<1>7. outcome' = [u \in Updates |-> IF u \in ToSet(Round) THEN result ELSE outcome[u]]
  BY DEF Settles, Settled
<1>8. UNCHANGED source
  BY DEF Settles
<1>9. QED
  BY <1>4, <1>5, <1>6, <1>7, <1>8, ContractOperators DEF Contract!Settle

LEMMA AppliesIsStep ==
    ASSUME Types, WriteInv, NEW s \in Sockets, ServerReceives(s), source' # source
    PROVE  \E batch \in Contract!Ascending : Contract!Apply(batch)
<1>1. PICK n : n = Head(up[s])
  OBVIOUS
<1>2. /\ Still /\ ServerTakeMessage(s)
      /\ n \in WriteMsg /\ isAvailable(source) /\ source' = source \o n.updates
  BY <1>1, TakeSteps
<1>3. OnWire(n)
  BY <1>1, <1>2, TakeOnWire DEF Types
<1>4. WriteAgrees(n)
  BY <1>2, <1>3 DEF WriteInv, WiresInv
<1>5. n.updates \in Contract!Ascending
  BY <1>2, <1>4, WriteUpdates, AscendingWrites DEF WriteAgrees
<1>6. Contract!Apply(n.updates)
  BY <1>2, <1>4, ContractOperators DEF Contract!Apply, WriteAgrees, isAvailable, Still
<1>7. QED
  BY <1>5, <1>6

(* What becomes of the writes implements WriteContract: each is applied at *)
(* most once, those sent together are applied together and in order, and   *)
(* they settle in order and are acknowledged only after they were applied  *)
(* (OWLSignal.writeLoop over receivedWritableSignalUpdate of both ports).  *)
THEOREM KeepsContractHolds == Spec => KeepsContract
<1>1. Init => Contract!Init
  BY ContractOperators DEF Init, Contract!Init
<1>2. Types /\ WriteInv /\ [Next]_vars => [Contract!Next]_<<source, outcome>>
  <2> SUFFICES ASSUME Types, WriteInv, [Next]_vars PROVE [Contract!Next]_<<source, outcome>>
    OBVIOUS
  <2> USE DEF Contract!Next
  <2>1. LoopInv /\ QueueInv
    BY DEF WriteInv
  <2>2. CASE UNCHANGED <<source, outcome>>
    BY <2>2
  <2>3. CASE Ignores
    <3>1. nextUpdate \in Updates /\ outcome[nextUpdate] = "none"
      BY <2>1, <2>3, Bounds DEF Ignores, QueueInv
    <3>2. Contract!Write(nextUpdate)
      BY <2>3, <3>1 DEF Ignores, Contract!Write
    <3>3. QED
      BY <3>1, <3>2
  <2>4. CASE Appends /\ UNCHANGED source
    <3>1. nextUpdate \in Updates /\ outcome[nextUpdate] = "none"
      BY <2>1, <2>4, Bounds DEF Appends, QueueInv
    <3>2. Contract!Write(nextUpdate)
      BY <2>4, <3>1 DEF Appends, Contract!Write
    <3>3. QED
      BY <3>1, <3>2
  <2>5. CASE Finishes \/ GivesUp
    <3>1. ToSet(Round) \in SUBSET Updates
      <4>1. Round \in Seq(Updates)
        BY <2>1, <2>5, SettlesQueue DEF Finishes, GivesUp
      <4>2. \A k \in DOMAIN Round : Round[k] \in Updates
        BY <4>1
      <4>3. QED
        BY <4>2 DEF ToSet
    <3>2. Contract!Settle(ToSet(Round))
      BY <2>5, SettlesIsStep DEF Finishes, GivesUp
    <3>3. QED
      BY <3>1, <3>2
  <2>6. ASSUME NEW s \in Sockets, ServerReceives(s) PROVE [Contract!Next]_<<source, outcome>>
    <3>1. outcome' = outcome
      BY <2>6, TakeSteps DEF Still
    <3>2. CASE source' # source
      BY <2>6, <3>2, AppliesIsStep
    <3>3. QED
      BY <2>2, <3>1, <3>2
  <2>7. CASE SourceBecomesAvailable
    <3>1. source = NotAvailable /\ source' = <<>> /\ UNCHANGED outcome
      BY <2>7 DEF SourceBecomesAvailable, SourceChanges, isAvailable, clientVars, writeVars
    <3>2. Contract!BecomeAvailable
      BY <3>1, ContractOperators DEF Contract!BecomeAvailable
    <3>3. QED
      BY <3>2
  <2>8. QED
    BY <2>1, <2>2, <2>3, <2>4, <2>5, <2>6, <2>7, StepKinds DEF Queues, SendsRound, Moves, Still
<1>3. QED
  BY <1>1, <1>2, InvHolds, PTL DEF Spec, KeepsContract, Contract!Spec
=============================================================================
