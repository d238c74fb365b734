--------------------------- MODULE WritableSignals ---------------------------
(***************************************************************************)
(* A writable signal of the server, seen through                           *)
(* ClientPort.createWritableSignal: the OWLSignal the application holds    *)
(* and writes, its write loop, the client port's subscriptions and the     *)
(* server port's.                                                          *)
(*                                                                         *)
(* The model follows one signal with one writer.  A write appends its own  *)
(* number to the signal's value, so that a write that is lost, repeated,   *)
(* out of order or applied to the wrong base shows.  The url of the        *)
(* transport is known and nothing is disposed of: PortCalls and            *)
(* PortSignals have those cases.                                           *)
(***************************************************************************)
EXTENDS WsClientTransport, SequencesExt

CONSTANTS
    MaxSubscribeIds,  \* Bound: subscriptions the client port makes.
    MaxSubscribers,   \* Bound: subscribers attached at once.
    MaxUpdates,       \* Bound: writes of the application.
    Refusals          \* Whether the server may find a write invalid.

ASSUME WritableSignalsAssumption ==
    /\ {MaxSubscribeIds, MaxSubscribers, MaxUpdates} \subseteq Nat
    /\ Refusals \in BOOLEAN

None == -1
Updates == 0..(MaxUpdates - 1)
SubscribeIds == 0..(MaxSubscribeIds - 1)

(* A value: the writes it is made of.  The value of a signal that has none *)
(* is a sequence like the others for TLC, and differs from all of them.    *)
NotAvailable == <<None>>
Values == SeqOf(Updates, MaxUpdates) \cup {NotAvailable}
isAvailable(v) == v # NotAvailable

VARIABLES
    nextWritableSubscribeId,
    openWritableSignalSubscriptions,  \* By number.
    firstUpdateReceived,              \* Those of them that had an update.
    openCommunicationsCount,
    recoverable,      \* Whether recoverableWritableSignals has the signal.
    subscribers,      \* The subscribers of the application.
    upstream,         \* The number of the active upstream subscription.
    innerValue, innerStale,
    error,            \* The error of innerSignal: where it came from.
    outerValue, outerStale,
    queuedUpdates,    \* The writes not settled yet, in order.
    numHandledUpdates,\* How many of them the current round of the loop sent.
    loop,             \* What the write loop waits for.
    nextUpdate,
    outcome,          \* What became of the promise of each write.
    source,           \* The value of the server's signal.
    subscription,     \* Per number, the server port's subscription.
    initialized,      \* Whether it has sent the whole value.
    home,             \* The socket it came on.
    toClose           \* writableSignalSubscriptionsToClose.

portVars == <<nextWritableSubscribeId, openWritableSignalSubscriptions, firstUpdateReceived,
              openCommunicationsCount, recoverable>>
innerVars == <<upstream, innerValue, innerStale, error>>
writeVars == <<outerValue, outerStale, queuedUpdates, numHandledUpdates, loop, nextUpdate,
               outcome>>
clientVars == <<portVars, innerVars, subscribers, writeVars>>
serverVars == <<source, subscription, initialized, home, toClose>>
vars == <<transportVars, clientVars, serverVars>>

(* The tag of a round of the loop is unique: here, the first write in it.  *)
Tags == Updates \cup {None}

UpMsg == [type : {"subscribe", "unsubscribe"}, id : SubscribeIds]
            \cup [type : {"update"}, id : SubscribeIds, updates : SeqOf(Updates, MaxUpdates),
                  tag : Tags]
DownMsg == [type : {"replace"}, id : SubscribeIds, value : Values, tag : Tags]
            \cup [type : {"patch"}, id : SubscribeIds, updates : SeqOf(Updates, MaxUpdates),
                  tag : Tags]
            \cup [type : {"error"}, id : SubscribeIds]

TypeOK ==
    /\ TransportTypeOK(UpMsg, DownMsg)
    /\ nextWritableSubscribeId \in 0..MaxSubscribeIds
    /\ openWritableSignalSubscriptions \subseteq SubscribeIds
    /\ firstUpdateReceived \subseteq SubscribeIds
    /\ openCommunicationsCount \in 0..1
    /\ recoverable \in BOOLEAN
    /\ subscribers \in 0..MaxSubscribers
    /\ upstream \in SubscribeIds \cup {None}
    /\ innerValue \in Values /\ innerStale \in BOOLEAN
    /\ error \in {"none", "transport", "server"}
    /\ outerValue \in Values /\ outerStale \in BOOLEAN
    /\ queuedUpdates \in SeqOf(Updates, MaxUpdates)
    /\ numHandledUpdates \in 0..Len(queuedUpdates)
    /\ loop \in {"idle", "next", "pulling", "pulled", "writing"}
    /\ nextUpdate \in 0..MaxUpdates
    /\ outcome \in [Updates -> {"none", "ignored", "queued", "resolved", "rejected"}]
    /\ source \in Values
    /\ subscription \in [SubscribeIds -> {"none", "starting", "open", "closed", "failed"}]
    /\ initialized \in [SubscribeIds -> BOOLEAN]
    /\ home \in [SubscribeIds -> 0..MaxSockets]
    /\ toClose \subseteq SubscribeIds

Init ==
    /\ TransportInit /\ url = "settled"
    /\ nextWritableSubscribeId = 0 /\ openWritableSignalSubscriptions = {}
    /\ firstUpdateReceived = {} /\ openCommunicationsCount = 0 /\ recoverable = FALSE
    /\ subscribers = 0 /\ upstream = None /\ error = "none"
    /\ innerValue = NotAvailable /\ innerStale = TRUE
    /\ outerValue = NotAvailable /\ outerStale = TRUE
    /\ queuedUpdates = <<>> /\ numHandledUpdates = 0 /\ loop = "idle"
    /\ nextUpdate = 0 /\ outcome = [u \in Updates |-> "none"]
    /\ source \in {NotAvailable, <<>>}
    /\ subscription = [i \in SubscribeIds |-> "none"]
    /\ initialized = [i \in SubscribeIds |-> FALSE]
    /\ home = [i \in SubscribeIds |-> 0]
    /\ toClose = {}

-----------------------------------------------------------------------------
(* The upstream that createWritableSignal gives to innerSignal.            *)

hasError == error # "none"

(* safeSend; the transport throws only when disposed of. *)
SafeSend(msg) == Transmit(msg)

UpdateOpenCommunicationsCount ==
    /\ openCommunicationsCount' = Cardinality(openWritableSignalSubscriptions')
    /\ CommunicationsChange(openCommunicationsCount, openCommunicationsCount')

(* Mutant: the number is incremented before it is taken. *)
RegisterPreIncrement ==
    /\ nextWritableSubscribeId < MaxSubscribeIds
    /\ nextWritableSubscribeId' = nextWritableSubscribeId + 1
    /\ openWritableSignalSubscriptions' =
         openWritableSignalSubscriptions \cup {nextWritableSubscribeId'}
    /\ upstream' = nextWritableSubscribeId'
    /\ UpdateOpenCommunicationsCount

(* The subscription made, apart from the sending. *)
Register ==
    /\ nextWritableSubscribeId < MaxSubscribeIds
    /\ nextWritableSubscribeId' = nextWritableSubscribeId + 1
    /\ openWritableSignalSubscriptions' =
         openWritableSignalSubscriptions \cup {nextWritableSubscribeId}
    /\ upstream' = nextWritableSubscribeId
    /\ UpdateOpenCommunicationsCount

SubscribeMsg == [type |-> "subscribe", id |-> nextWritableSubscribeId]

NotRegistered ==
    UNCHANGED <<nextWritableSubscribeId, openWritableSignalSubscriptions, upstream,
                openCommunicationsCount, dispose, shouldRef>>

(* innerSignal.subscribe: the first subscriber subscribes to the upstream. *)
SubscribeInner ==
    IF upstream = None /\ ~hasError
    THEN Register /\ SafeSend(SubscribeMsg)
    ELSE NotRegistered /\ UNCHANGED <<connectionVars, up>>

(* The last subscriber leaves: the unsubscriber of createWritableSignal,   *)
(* then both signals become stale.                                         *)
UnsubscribeInner ==
    IF upstream # None
    THEN /\ SafeSend([type |-> "unsubscribe", id |-> upstream])
         /\ openWritableSignalSubscriptions' = openWritableSignalSubscriptions \ {upstream}
         /\ recoverable' = FALSE
         /\ upstream' = None
         /\ innerStale' = TRUE /\ outerStale' = TRUE
    ELSE UNCHANGED <<connectionVars, up, openWritableSignalSubscriptions, recoverable, upstream,
                     innerStale, outerStale>>

Subscribe ==
    /\ subscribers < MaxSubscribers
    /\ subscribers' = subscribers + 1
    /\ SubscribeInner
    /\ UNCHANGED <<server, down, firstUpdateReceived, recoverable, innerValue, innerStale, error,
                   writeVars, serverVars>>

(* The write loop is a subscriber of its own while it runs. *)
Unsubscribe ==
    /\ subscribers > 0
    /\ subscribers' = subscribers - 1
    /\ IF subscribers' = 0 /\ loop = "idle"
       THEN UnsubscribeInner
       ELSE UNCHANGED <<connectionVars, up, openWritableSignalSubscriptions, recoverable, upstream,
                        innerStale, outerStale>>
    /\ UNCHANGED <<server, down, dispose, shouldRef, nextWritableSubscribeId, firstUpdateReceived,
                   openCommunicationsCount, innerValue, error, outerValue, queuedUpdates,
                   numHandledUpdates, loop, nextUpdate, outcome, serverVars>>

-----------------------------------------------------------------------------
(* Writing.                                                                *)

(* applyOptimisticUpdates. *)
WithUpdates(v, updates) == v \o updates

(* updateOptimisticValue, the freshness apart. *)
OptimisticValue(v, updates) ==
    IF isAvailable(v) THEN WithUpdates(v, updates) ELSE outerValue

(* The promises of a round's updates settle. *)
Settled(promises, updates, result) ==
    [u \in Updates |-> IF u \in ToSet(updates) THEN result ELSE promises[u]]

(* writeUpstream with the patches of `updates`: dropped, and acknowledged  *)
(* all the same, when there is no subscription or it had no update yet.    *)
Write(updates, promises) ==
    IF upstream \in openWritableSignalSubscriptions \cap firstUpdateReceived
    THEN /\ SafeSend([type |-> "update", id |-> upstream, updates |-> updates,
                      tag |-> Head(updates)])
         /\ loop' = "writing"
         /\ queuedUpdates' = updates
         /\ numHandledUpdates' = Len(updates)
         /\ outcome' = promises
    ELSE /\ loop' = "next"
         /\ queuedUpdates' = <<>> /\ numHandledUpdates' = 0
         /\ outcome' = Settled(promises, updates, "resolved")
         /\ UNCHANGED <<connectionVars, up>>

(* Mutant: a second loop may start while the first waits for its echo. *)
MayStartSecondLoop == loop \in {"idle", "writing"}

(* ensureWriteLoop. *)
MayStartLoop == loop = "idle"

(* A setter is called: the write is shown at once, and starts the loop     *)
(* unless it runs already; the loop first subscribes and, when the value   *)
(* is stale, waits for a fresh one.  In the error state the write is       *)
(* acknowledged and forgotten.                                             *)
Update ==
    /\ nextUpdate < MaxUpdates
    /\ nextUpdate' = nextUpdate + 1
    /\ IF hasError
       THEN /\ outcome' = [outcome EXCEPT ![nextUpdate] = "ignored"]
            /\ outerStale' = TRUE
            /\ NotRegistered
            /\ UNCHANGED <<connectionVars, up, outerValue, queuedUpdates, numHandledUpdates, loop>>
       ELSE /\ outerValue' = OptimisticValue(innerValue, Append(queuedUpdates, nextUpdate))
            /\ UNCHANGED outerStale
            /\ IF MayStartLoop /\ ~innerStale
               THEN /\ Write(<<nextUpdate>>, [outcome EXCEPT ![nextUpdate] = "queued"])
                    /\ NotRegistered
               ELSE /\ outcome' = [outcome EXCEPT ![nextUpdate] = "queued"]
                    /\ queuedUpdates' = Append(queuedUpdates, nextUpdate)
                    /\ IF MayStartLoop
                       THEN loop' = "pulling" /\ SubscribeInner
                       ELSE NotRegistered /\ UNCHANGED <<loop, connectionVars, up>>
                    /\ UNCHANGED numHandledUpdates
    /\ UNCHANGED <<server, down, firstUpdateReceived, recoverable, innerValue, innerStale, error,
                   subscribers, serverVars>>

(* The loop goes on in a microtask: another round, or its end. *)
LoopContinues ==
    /\ loop = "next"
    /\ IF queuedUpdates = <<>>
       THEN /\ loop' = "idle"
            /\ IF subscribers = 0
               THEN UnsubscribeInner
               ELSE UNCHANGED <<connectionVars, up, openWritableSignalSubscriptions, recoverable,
                                upstream, innerStale, outerStale>>
            /\ UNCHANGED <<queuedUpdates, numHandledUpdates, outcome>>
       ELSE /\ IF innerStale
               THEN loop' = "pulling" /\ UNCHANGED <<connectionVars, up, queuedUpdates,
                                                     numHandledUpdates, outcome>>
               ELSE Write(queuedUpdates, outcome)
            /\ UNCHANGED <<openWritableSignalSubscriptions, recoverable, upstream, innerStale,
                           outerStale>>
    /\ UNCHANGED <<server, down, dispose, shouldRef, nextWritableSubscribeId, firstUpdateReceived,
                   openCommunicationsCount, subscribers, innerValue, error, outerValue, nextUpdate,
                   serverVars>>

(* The pull of the loop was answered: it does not look at staleness again. *)
LoopPulled ==
    /\ loop = "pulled"
    /\ Write(queuedUpdates, outcome)
    /\ UNCHANGED <<server, down, dispose, shouldRef, portVars, innerVars, subscribers, outerValue,
                   outerStale, nextUpdate, serverVars>>

(* Microtasks run before the next event of a socket. *)
Microtask == loop \in {"next", "pulled"}

-----------------------------------------------------------------------------
(* The client port.                                                        *)

(* applyPatches on the pessimistic value. *)
Applied(v, m) ==
    IF m.type = "replace" THEN m.value
    ELSE IF m.type = "patch" THEN v \o m.updates
    ELSE v

(* The echo of a round of the loop: its writes leave the queue. *)
FinishWrite(m) ==
    /\ loop = "writing" /\ m.tag = Head(queuedUpdates)
    /\ LET handled == SubSeq(queuedUpdates, 1, numHandledUpdates)
           others == SubSeq(queuedUpdates, numHandledUpdates + 1, Len(queuedUpdates))
       IN /\ queuedUpdates' = others
          /\ outerValue' = OptimisticValue(innerValue', others)
          /\ outcome' = Settled(outcome, handled, "resolved")
    /\ numHandledUpdates' = 0
    /\ loop' = "next"

(* Mutant: the writes that are not settled are not applied again. *)
PassiveUpdateDroppingWrites(m) ==
    /\ ~(loop = "writing" /\ m.tag = Head(queuedUpdates))
    /\ outerValue' = innerValue'
    /\ loop' = IF loop = "pulling" THEN "pulled" ELSE loop
    /\ UNCHANGED <<queuedUpdates, numHandledUpdates, outcome>>

(* Mutant: the loop's pull is not answered by a value that is the same. *)
PassiveUpdateOnChange(m) ==
    /\ ~(loop = "writing" /\ m.tag = Head(queuedUpdates))
    /\ outerValue' = OptimisticValue(innerValue', queuedUpdates)
    /\ loop' = IF loop = "pulling" /\ innerValue' # innerValue THEN "pulled" ELSE loop
    /\ UNCHANGED <<queuedUpdates, numHandledUpdates, outcome>>

(* Any other update only changes what the queued writes are applied to. *)
PassiveUpdate(m) ==
    /\ ~(loop = "writing" /\ m.tag = Head(queuedUpdates))
    /\ outerValue' = OptimisticValue(innerValue', queuedUpdates)
    /\ loop' = IF loop = "pulling" THEN "pulled" ELSE loop
    /\ UNCHANGED <<queuedUpdates, numHandledUpdates, outcome>>

ReceivedWritableSignalUpdate(m) ==
    /\ m.type \in {"replace", "patch"}
    /\ m.id \in openWritableSignalSubscriptions
    /\ firstUpdateReceived' = firstUpdateReceived \cup {m.id}
    /\ innerValue' = Applied(innerValue, m) /\ innerStale' = FALSE
    /\ FinishWrite(m) \/ PassiveUpdate(m)
    /\ outerStale' = IF isAvailable(innerValue') THEN FALSE ELSE outerStale
    /\ UNCHANGED <<dispose, shouldRef, nextWritableSubscribeId, openWritableSignalSubscriptions,
                   openCommunicationsCount, recoverable, upstream, error, subscribers, nextUpdate>>

(* Mutant: the writes are sent again when the connection is back. *)
SignalErrorsRetrying(cause) ==
    /\ error' = cause
    /\ innerStale' = TRUE /\ outerStale' = TRUE
    /\ upstream' = None
    /\ numHandledUpdates' = 0
    /\ loop' = IF loop = "writing" THEN "next" ELSE loop
    /\ UNCHANGED <<innerValue, outerValue, nextUpdate, subscribers, outcome, queuedUpdates>>

(* Mutant: the loop ends with the connection. *)
SignalErrorsEndingLoop(cause) ==
    /\ error' = cause
    /\ innerStale' = TRUE /\ outerStale' = TRUE
    /\ upstream' = None
    /\ numHandledUpdates' = 0
    /\ loop' = "idle"
    /\ UNCHANGED <<innerValue, outerValue, nextUpdate, subscribers, outcome, queuedUpdates>>

(* The signal errors: a round of the loop that waits for its echo gives up *)
(* its writes, without taking them off the outer value, which is stale.    *)
SignalErrors(cause) ==
    /\ error' = cause
    /\ innerStale' = TRUE /\ outerStale' = TRUE
    /\ upstream' = None
    /\ IF loop = "writing"
       THEN /\ outcome' = Settled(outcome, SubSeq(queuedUpdates, 1, numHandledUpdates), "rejected")
            /\ queuedUpdates' = SubSeq(queuedUpdates, numHandledUpdates + 1, Len(queuedUpdates))
            /\ numHandledUpdates' = 0
            /\ loop' = "next"
       ELSE UNCHANGED <<outcome, queuedUpdates, numHandledUpdates, loop>>
    /\ UNCHANGED <<innerValue, outerValue, nextUpdate, subscribers>>

ReceivedWritableSignalError(m) ==
    /\ m.type = "error"
    /\ m.id \in openWritableSignalSubscriptions
    /\ SignalErrors("server")
    /\ openWritableSignalSubscriptions' = openWritableSignalSubscriptions \ {m.id}
    /\ UpdateOpenCommunicationsCount
    /\ UNCHANGED <<nextWritableSubscribeId, firstUpdateReceived, recoverable>>

ClientReceives(s) ==
    /\ ~Microtask
    /\ TakeMessage(s)
    /\ LET m == Head(down[s])
       IN IF status = "Connected" /\ m.id \in openWritableSignalSubscriptions
          THEN ReceivedWritableSignalUpdate(m) \/ ReceivedWritableSignalError(m)
          ELSE UNCHANGED <<clientVars, dispose, shouldRef>>
    /\ UNCHANGED serverVars

(* errored: a subscribed signal is marked for recovery, then errored. *)
Errored ==
    /\ IF openWritableSignalSubscriptions # {}
       THEN recoverable' = TRUE /\ SignalErrors("transport")
       ELSE UNCHANGED <<recoverable, innerVars, subscribers, writeVars>>
    /\ openWritableSignalSubscriptions' = {}
    /\ openCommunicationsCount' = 0
    /\ UNCHANGED <<nextWritableSubscribeId, firstUpdateReceived>>

ConnectionLost(s) ==
    /\ ~Microtask
    /\ SocketErrors(s) \/ SocketCloses(s)
    /\ IF ReportsError
       THEN Errored /\ CommunicationsChange(openCommunicationsCount, 0)
       ELSE UNCHANGED <<clientVars, dispose, shouldRef>>
    /\ UNCHANGED serverVars

(* onConnected: recoverFromError, which subscribes again if anybody (the   *)
(* write loop included) still subscribes.                                  *)
ConnectionOpens(s) ==
    /\ ~Microtask
    /\ error' = IF recoverable THEN "none" ELSE error
    /\ IF recoverable /\ hasError /\ (subscribers > 0 \/ loop # "idle")
       THEN Register /\ OnWsOpen(s, <<SubscribeMsg>>)
       ELSE NotRegistered /\ OnWsOpen(s, <<>>)
    /\ recoverable' = FALSE
    /\ UNCHANGED <<firstUpdateReceived, innerValue, innerStale, subscribers, writeVars, serverVars>>

-----------------------------------------------------------------------------
(* The server port.                                                        *)

ReceivedWritableSignalSubscribe(s, m) ==
    /\ m.type = "subscribe"
    /\ subscription[m.id] # "open"
    /\ subscription' = [subscription EXCEPT ![m.id] = "starting"]
    /\ home' = [home EXCEPT ![m.id] = s]
    /\ UNCHANGED <<down, source, initialized, toClose>>

ReceivedWritableSignalUnsubscribe(m) ==
    /\ m.type = "unsubscribe"
    /\ IF subscription[m.id] = "open"
       THEN subscription' = [subscription EXCEPT ![m.id] = "closed"] /\ UNCHANGED toClose
       ELSE toClose' = toClose \cup {m.id} /\ UNCHANGED subscription
    /\ UNCHANGED <<down, source, initialized, home>>

(* The whole value, or the writes once the whole value has been sent. *)
UpdateMsg(i, v, updates, tag) ==
    IF initialized[i] THEN [type |-> "patch", id |-> i, updates |-> updates, tag |-> tag]
    ELSE [type |-> "replace", id |-> i, value |-> v, tag |-> tag]

Open == {i \in SubscribeIds : subscription[i] = "open"}

(* The server's signal takes a value, and each of its subscriptions tells  *)
(* its client, the one that wrote included.                                *)
SourceChanges(v, updates, tag) ==
    /\ source' = v
    /\ initialized' = [i \in SubscribeIds |-> initialized[i] \/ i \in Open]
    /\ down' = [s \in Sockets |->
                 LET told == {i \in Open : home[i] = s}
                 IN Answered(s, SetToSeq({UpdateMsg(i, v, updates, tag) : i \in told}))[s]]

(* receivedPatches of the subscription the write came on.  A write the     *)
(* schema refuses, or on a subscription that is not open, raises a warning *)
(* only; one on a signal that has no value is confirmed and has no effect. *)
ServerReceivedWritableSignalUpdate(m) ==
    /\ m.type = "update"
    /\ \/ /\ m.id \in Open /\ isAvailable(source)
          /\ SourceChanges(source \o m.updates, m.updates, m.tag)
       \/ /\ m.id \in Open /\ ~isAvailable(source)
          /\ down' = Answered(home[m.id],
                              <<[type |-> "patch", id |-> m.id, updates |-> <<>>, tag |-> m.tag]>>)
          /\ UNCHANGED <<source, initialized>>
       \/ /\ m.id \notin Open \/ Refusals
          /\ UNCHANGED <<down, source, initialized>>
    /\ UNCHANGED <<subscription, home, toClose>>

ServerReceives(s) ==
    /\ ServerTakeMessage(s)
    /\ LET m == Head(up[s])
       IN \/ ReceivedWritableSignalSubscribe(s, m)
          \/ ReceivedWritableSignalUnsubscribe(m)
          \/ ServerReceivedWritableSignalUpdate(m)
    /\ UNCHANGED clientVars

(* Mutant: a signal without a value counts as sent. *)
SignalHandlerReturnsInitialized(i) ==
    /\ subscription[i] = "starting"
    /\ IF i \in toClose
       THEN /\ toClose' = toClose \ {i}
            /\ subscription' = [subscription EXCEPT ![i] = "closed"]
            /\ UNCHANGED <<down, initialized>>
       ELSE /\ subscription' = [subscription EXCEPT ![i] = "open"]
            /\ initialized' = [initialized EXCEPT ![i] = TRUE]
            /\ down' = IF isAvailable(source)
                       THEN Answered(home[i], <<UpdateMsg(i, source, <<>>, None)>>) ELSE down
            /\ UNCHANGED toClose
    /\ UNCHANGED <<connectionVars, server, up, dispose, shouldRef, clientVars, source, home>>

(* The handler of subscription i gives its signal and setter. *)
SignalHandlerReturns(i) ==
    /\ subscription[i] = "starting"
    /\ IF i \in toClose
       THEN /\ toClose' = toClose \ {i}
            /\ subscription' = [subscription EXCEPT ![i] = "closed"]
            /\ UNCHANGED <<down, initialized>>
       ELSE /\ subscription' = [subscription EXCEPT ![i] = "open"]
            /\ initialized' = [initialized EXCEPT ![i] = isAvailable(source)]
            /\ down' = IF isAvailable(source)
                       THEN Answered(home[i], <<UpdateMsg(i, source, <<>>, None)>>) ELSE down
            /\ UNCHANGED toClose
    /\ UNCHANGED <<connectionVars, server, up, dispose, shouldRef, clientVars, source, home>>

SignalHandlerThrows(i) ==
    /\ subscription[i] = "starting"
    /\ subscription' = [subscription EXCEPT ![i] = "failed"]
    /\ down' = Answered(home[i], <<[type |-> "error", id |-> i]>>)
    /\ UNCHANGED <<connectionVars, server, up, dispose, shouldRef, clientVars, source,
                   initialized, home, toClose>>

(* The backend has a value for its signal. *)
SourceBecomesAvailable ==
    /\ ~isAvailable(source)
    /\ SourceChanges(<<>>, <<>>, None)
    /\ UNCHANGED <<connectionVars, server, up, dispose, shouldRef, clientVars, subscription,
                   home, toClose>>

(* ServerPort.errored. *)
ServerConnectionLost(s) ==
    /\ ServerSocketCloses(s)
    /\ subscription' = [i \in SubscribeIds |->
                          IF i \in Open /\ home[i] = s THEN "closed" ELSE subscription[i]]
    /\ UNCHANGED <<clientVars, source, initialized, home, toClose>>

-----------------------------------------------------------------------------
ApplicationStep == Subscribe \/ Unsubscribe \/ Update

LoopStep == LoopContinues \/ LoopPulled

ConnectStep == ~Microtask /\ EnsureConnectedOrStartConnection /\ UNCHANGED <<clientVars, serverVars>>

NetworkStep ==
    \E s \in Sockets : \/ ConnectionOpens(s)
                       \/ ConnectionLost(s)
                       \/ ClientReceives(s)
                       \/ ServerReceives(s)
                       \/ ServerConnectionLost(s)

ServerStep ==
    \/ SourceBecomesAvailable
    \/ \E i \in SubscribeIds : SignalHandlerReturns(i) \/ SignalHandlerThrows(i)

Next == ApplicationStep \/ LoopStep \/ ConnectStep \/ NetworkStep \/ ServerStep

Spec == Init /\ [][Next]_vars
-----------------------------------------------------------------------------
(* Properties.                                                             *)

(* The messages on their way to the client for one subscription. *)
Coming(i) == SelectSeq(down[home[i]], LAMBDA m : m.id = i)

(* Once the server has sent the whole value of the client's current        *)
(* subscription, the pessimistic value and what is coming to it make up    *)
(* the server's value (receivedWritableSignalUpdate of both ports).        *)
InSync ==
    status = "Connected" /\ server[ws] = "open" /\ upstream \in Open /\ initialized[upstream]
        => FoldLeft(Applied, innerValue, Coming(upstream)) = source

(* A value that passes for fresh is the pessimistic one with the writes    *)
(* that are not settled yet, over an active subscription (the comment of   *)
(* OWLSignal.isStale, updateOptimisticValue).                              *)
OptimisticView ==
    ~outerStale => /\ ~innerStale /\ upstream # None /\ ~hasError
                   /\ outerValue = innerValue \o queuedUpdates

(* The write loop runs exactly while writes are queued, and then the       *)
(* signal is subscribed or waits for its connection (ensureWriteLoop, the  *)
(* loop's own subscription).                                               *)
LoopRuns ==
    /\ queuedUpdates # <<>> => loop # "idle"
    /\ loop # "idle" => upstream # None \/ hasError
    /\ loop \in {"writing", "pulled"} => ~innerStale

(* A write goes to the server's own value: the value its updaters saw, so  *)
(* long as the server holds no write that the client gave up, which may    *)
(* reach it late over a lost connection.                                   *)
EachUpdaterSeesAllBefore ==
    \A i \in Open :
        LET writes == SelectSeq(up[home[i]], LAMBDA m : m.type = "update" /\ m.id = i)
        IN i = upstream /\ writes # <<>> /\ ToSet(source) \cap {u \in Updates : outcome[u] = "rejected"} = {}
               => source = innerValue

Contract == INSTANCE WriteContract

(* The ports and the loop keep the contract of a writer (OWLSignal's       *)
(* guarantees).                                                            *)
KeepsContract == Contract!Spec

Fairness ==
    /\ WF_vars(LoopStep)
    /\ \A s \in Sockets :
         /\ WF_vars(client[s] = "opening" /\ (ConnectionOpens(s) \/ ConnectionLost(s)))
         /\ WF_vars((client[s] \in {"closing", "failed"} \/ server[s] = "closed")
                    /\ ConnectionLost(s))
         /\ WF_vars(client[s] \in {"failed", "closed"} /\ ServerConnectionLost(s))
         /\ WF_vars(ClientReceives(s))
         /\ WF_vars(ServerReceives(s))
    /\ \A i \in SubscribeIds : WF_vars(SignalHandlerReturns(i) \/ SignalHandlerThrows(i))
    /\ WF_vars(SourceBecomesAvailable)

FairSpec == Spec /\ Fairness

(* Every write settles, unless the signal is in error and waits for its    *)
(* connection; this needs a server that refuses no write (writeLoop).      *)
WritesEnd == \A u \in Updates : outcome[u] = "queued" ~> outcome[u] # "queued" \/ hasError

-----------------------------------------------------------------------------
(* What the documentation says and the code does not do.                   *)

(* "The updates are applied in the order they are received": the server    *)
(* applies the writes in the order the setters were called.                *)
AppliedInOrder ==
    \A i, j \in DOMAIN source : i < j /\ isAvailable(source) => source[i] < source[j]
=============================================================================
