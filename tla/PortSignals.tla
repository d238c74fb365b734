---------------------------- MODULE PortSignals ----------------------------
(***************************************************************************)
(* A readonly signal of the server, seen through ClientPort.createSignal:  *)
(* the LazySignal the application holds, the client port's subscriptions,  *)
(* the server port's, and the recovery of the signal on reconnection.      *)
(*                                                                         *)
(* The model follows one signal; several share nothing but the socket and  *)
(* the count of open communications.  The signal's value is the number of  *)
(* changes it went through, so that a patch (one more change) that is      *)
(* lost, repeated or applied to the wrong base shows.                      *)
(***************************************************************************)
EXTENDS WsClientTransport, SequencesExt

CONSTANTS
    MaxSubscribeIds,  \* Bound: subscriptions the client port makes.
    MaxSubscribers,   \* Bound: subscribers attached at once.
    MaxPulls,         \* Bound: pull() calls waiting at once.
    MaxValue          \* Bound: changes of the server's signal.

ASSUME PortSignalsAssumption ==
    {MaxSubscribeIds, MaxSubscribers, MaxPulls, MaxValue} \subseteq Nat

NotAvailable == -1
Values == 0..MaxValue
SubscribeIds == 0..(MaxSubscribeIds - 1)
None == -1

VARIABLES
    nextSubscribeId,
    openSignalSubscriptions,  \* ClientPort.openSignalSubscriptions, by number.
    openCommunicationsCount,
    recoverable,              \* Whether recoverableSignals has the signal.
    subscribers,              \* LazySignal.subscribersCount, less the pulls.
    pulls,                    \* pull() calls waiting for a fresh value.
    upstream,                 \* The number of the active upstream subscription.
    value, stale,             \* LazySignal.signal and staleSignal.
    error,                    \* LazySignal.errorSignal: where the error came from.
    source,                   \* The value of the server's signal.
    subscription,             \* Per number, the server port's subscription.
    initialized,              \* Whether it has sent the whole value.
    home,                     \* The socket it came on.
    toClose,                  \* signalSubscriptionsToClose.
    abandoned                 \* Auxiliary: subscribes still queued when an attempt failed.

portVars == <<nextSubscribeId, openSignalSubscriptions, openCommunicationsCount, recoverable,
              abandoned>>
lazyVars == <<subscribers, pulls, upstream, value, stale, error>>
clientVars == <<portVars, lazyVars>>
serverVars == <<source, subscription, initialized, home, toClose>>
vars == <<transportVars, clientVars, serverVars>>

SubscribeMsg == [type : {"signalSubscribe", "signalUnsubscribe"}, id : SubscribeIds]
UpdateMsg == [type : {"replace"}, id : SubscribeIds, value : Values]
                \cup [type : {"patch", "signalError"}, id : SubscribeIds]

TypeOK ==
    /\ TransportTypeOK(SubscribeMsg, UpdateMsg)
    /\ nextSubscribeId \in 0..MaxSubscribeIds
    /\ openSignalSubscriptions \subseteq SubscribeIds
    /\ openCommunicationsCount \in 0..1
    /\ recoverable \in BOOLEAN
    /\ subscribers \in 0..MaxSubscribers /\ pulls \in 0..MaxPulls
    /\ upstream \in SubscribeIds \cup {None}
    /\ value \in Values \cup {NotAvailable} /\ stale \in BOOLEAN
    /\ error \in {"none", "transport", "server"}
    /\ source \in Values \cup {NotAvailable}
    /\ subscription \in [SubscribeIds -> {"none", "starting", "open", "closed", "failed"}]
    /\ initialized \in [SubscribeIds -> BOOLEAN]
    /\ home \in [SubscribeIds -> 0..MaxSockets]
    /\ toClose \subseteq SubscribeIds
    /\ abandoned \subseteq SubscribeIds

Init ==
    /\ TransportInit
    /\ nextSubscribeId = 0 /\ openSignalSubscriptions = {} /\ openCommunicationsCount = 0
    /\ recoverable = FALSE
    /\ subscribers = 0 /\ pulls = 0 /\ upstream = None
    /\ value = NotAvailable /\ stale = TRUE /\ error = "none"
    /\ source \in {NotAvailable, 0}
    /\ subscription = [i \in SubscribeIds |-> "none"]
    /\ initialized = [i \in SubscribeIds |-> FALSE]
    /\ home = [i \in SubscribeIds |-> 0]
    /\ toClose = {} /\ abandoned = {}

-----------------------------------------------------------------------------
(* The client's LazySignal, with the upstream createSignal gives it.       *)

hasError == error # "none"

(* safeSend: what the transport throws is only logged. *)
SafeSend(msg) == Transmit(msg) \/ TransmitThrows(msg)

UpdateOpenCommunicationsCount ==
    /\ openCommunicationsCount' = Cardinality(openSignalSubscriptions')
    /\ CommunicationsChange(openCommunicationsCount, openCommunicationsCount')

(* Mutant: the number is incremented before it is taken. *)
RegisterPreIncrement ==
    /\ nextSubscribeId < MaxSubscribeIds
    /\ nextSubscribeId' = nextSubscribeId + 1
    /\ openSignalSubscriptions' = openSignalSubscriptions \cup {nextSubscribeId'}
    /\ upstream' = nextSubscribeId'
    /\ UpdateOpenCommunicationsCount

(* The subscription subscribeToUpstream makes, apart from the sending. *)
Register ==
    /\ nextSubscribeId < MaxSubscribeIds
    /\ nextSubscribeId' = nextSubscribeId + 1
    /\ openSignalSubscriptions' = openSignalSubscriptions \cup {nextSubscribeId}
    /\ upstream' = nextSubscribeId
    /\ UpdateOpenCommunicationsCount

(* subscribe() and subscribeFull(): the first subscriber subscribes the    *)
(* signal, unless it is in the error state.                                *)
Attach ==
    /\ IF upstream = None /\ ~hasError
       THEN /\ Register
            /\ SafeSend([type |-> "signalSubscribe", id |-> nextSubscribeId])
       ELSE UNCHANGED <<connectionVars, up, dispose, shouldRef, nextSubscribeId,
                        openSignalSubscriptions, openCommunicationsCount, upstream>>
    /\ UNCHANGED <<server, down, recoverable, abandoned, value, stale, error, serverVars>>

Subscribe ==
    /\ subscribers < MaxSubscribers
    /\ subscribers' = subscribers + 1
    /\ Attach
    /\ UNCHANGED pulls

(* pull() of a stale signal; a fresh one answers at once. *)
Pull ==
    /\ stale
    /\ pulls < MaxPulls
    /\ pulls' = pulls + 1
    /\ Attach
    /\ UNCHANGED subscribers

(* The last subscriber leaves: the unsubscriber of createSignal forgets    *)
(* the subscription, without updating the count of open communications.    *)
LeaveUpstream ==
    /\ upstream' = None
    /\ stale' = TRUE
    /\ openSignalSubscriptions' = openSignalSubscriptions \ {upstream}
    /\ recoverable' = FALSE
    /\ SafeSend([type |-> "signalUnsubscribe", id |-> upstream])

Unsubscribe ==
    /\ subscribers > 0
    /\ subscribers' = subscribers - 1
    /\ IF subscribers' + pulls = 0 /\ upstream # None
       THEN LeaveUpstream
       ELSE UNCHANGED <<connectionVars, up, openSignalSubscriptions, recoverable, upstream, stale>>
    /\ UNCHANGED <<server, down, dispose, shouldRef, nextSubscribeId, openCommunicationsCount,
                   abandoned, pulls, value, error, serverVars>>

-----------------------------------------------------------------------------
(* The client port.                                                        *)

(* applyPatches on the current value; a patch of no value does not apply.  *)
Applied(v, m) ==
    IF m.type = "replace" THEN m.value
    ELSE IF m.type = "patch" /\ v # NotAvailable THEN v + 1
    ELSE v

(* Mutant: pulls are answered by a change of value only. *)
ReceivedSignalUpdateOnChange(s, m) ==
    /\ m.type \in {"replace", "patch"} /\ m.id \in openSignalSubscriptions
    /\ m.type = "replace" \/ value # NotAvailable
    /\ value' = Applied(value, m)
    /\ pulls' = IF value' = value THEN pulls ELSE 0
    /\ stale' = FALSE
    /\ UNCHANGED <<connectionVars, up, openSignalSubscriptions, recoverable, upstream>>
    /\ UNCHANGED <<dispose, shouldRef, nextSubscribeId, openCommunicationsCount,
                   abandoned, subscribers, error>>

(* receivedSignalUpdate: setDownstream makes the value fresh, which ends   *)
(* every pull; if nobody else subscribes, the signal is left as well.      *)
ReceivedSignalUpdate(s, m) ==
    /\ m.type \in {"replace", "patch"} /\ m.id \in openSignalSubscriptions
    /\ m.type = "replace" \/ value # NotAvailable
    /\ value' = Applied(value, m)
    /\ pulls' = 0
    /\ IF stale /\ pulls > 0 /\ subscribers = 0
       THEN LeaveUpstream
       ELSE /\ stale' = FALSE
            /\ UNCHANGED <<connectionVars, up, openSignalSubscriptions, recoverable, upstream>>
    /\ UNCHANGED <<dispose, shouldRef, nextSubscribeId, openCommunicationsCount,
                   abandoned, subscribers, error>>

(* Mutant: the value is forgotten. *)
LazySignalErrorsForgetting(cause) ==
    /\ error' = cause
    /\ stale' = TRUE
    /\ upstream' = None
    /\ value' = NotAvailable
    /\ UNCHANGED <<subscribers, pulls>>

(* The error listener subscribeToUpstream gives to its upstream. *)
LazySignalErrors(cause) ==
    /\ error' = cause
    /\ stale' = TRUE
    /\ upstream' = None
    /\ UNCHANGED <<subscribers, pulls, value>>

(* Mutant: a refused signal is marked for recovery too. *)
ReceivedSignalErrorRecoverable(m) ==
    /\ m.type = "signalError" /\ m.id \in openSignalSubscriptions
    /\ LazySignalErrors("server")
    /\ openSignalSubscriptions' = openSignalSubscriptions \ {m.id}
    /\ recoverable' = TRUE
    /\ UpdateOpenCommunicationsCount
    /\ UNCHANGED <<connectionVars, up, nextSubscribeId, abandoned>>

ReceivedSignalError(m) ==
    /\ m.type = "signalError" /\ m.id \in openSignalSubscriptions
    /\ LazySignalErrors("server")
    /\ openSignalSubscriptions' = openSignalSubscriptions \ {m.id}
    /\ UpdateOpenCommunicationsCount
    /\ UNCHANGED <<connectionVars, up, nextSubscribeId, recoverable, abandoned>>

(* A message for a subscription the client left, or that does not apply.   *)
Ignored(m) ==
    \/ m.id \notin openSignalSubscriptions
    \/ m.type = "patch" /\ value = NotAvailable

ClientReceives(s) ==
    /\ EventLoopTurn
    /\ client[s] \in {"open", "closing"}
    /\ down[s] # <<>>
    /\ down' = [down EXCEPT ![s] = Tail(@)]
    /\ LET m == Head(down[s])
       IN IF status = "Connected" /\ ~Ignored(m)
          THEN ReceivedSignalUpdate(s, m) \/ ReceivedSignalError(m)
          ELSE UNCHANGED <<connectionVars, up, dispose, shouldRef, clientVars>>
    /\ UNCHANGED <<server, serverVars>>

(* errored: a subscribed signal is marked for recovery, then errored. *)
Errored ==
    /\ IF openSignalSubscriptions # {}
       THEN recoverable' = TRUE /\ LazySignalErrors("transport")
       ELSE UNCHANGED <<recoverable, lazyVars>>
    /\ openSignalSubscriptions' = {}
    /\ openCommunicationsCount' = 0
    /\ abandoned' = abandoned \cup {queued[k].id : k \in DOMAIN queued}
    /\ UNCHANGED nextSubscribeId

ConnectionLost(s) ==
    /\ SocketErrors(s) \/ SocketCloses(s)
    /\ IF ReportsError
       THEN Errored /\ CommunicationsChange(openCommunicationsCount, 0)
       ELSE UNCHANGED <<clientVars, dispose, shouldRef>>
    /\ UNCHANGED serverVars

StartDispose == DisposeWaits /\ UNCHANGED <<clientVars, serverVars>>

FinishDispose ==
    /\ DisposeCloses
    /\ Errored
    /\ shouldRef' = (IF openCommunicationsCount > 0 THEN FALSE ELSE shouldRef)
    /\ UNCHANGED serverVars

(* onConnected: recoverFromError on the signal that the last loss of the   *)
(* connection errored; it subscribes again if it still has subscribers.    *)
ConnectionOpens(s) ==
    /\ IF recoverable /\ hasError
       THEN /\ error' = "none"
            /\ stale' = TRUE
            /\ IF subscribers + pulls > 0
               THEN /\ Register
                    /\ OnWsOpen(s, <<[type |-> "signalSubscribe", id |-> nextSubscribeId]>>)
               ELSE /\ OnWsOpen(s, <<>>)
                    /\ UNCHANGED <<nextSubscribeId, openSignalSubscriptions,
                                   openCommunicationsCount, upstream, dispose, shouldRef>>
       ELSE /\ OnWsOpen(s, <<>>)
            /\ UNCHANGED <<nextSubscribeId, openSignalSubscriptions, openCommunicationsCount,
                           upstream, dispose, shouldRef, error, stale>>
    /\ recoverable' = FALSE
    /\ UNCHANGED <<abandoned, subscribers, pulls, value, serverVars>>

-----------------------------------------------------------------------------
(* The server port.                                                        *)

(* receivedSignalSubscribe calls the handler, which may take its time. *)
ReceivedSignalSubscribe(s, m) ==
    /\ m.type = "signalSubscribe"
    /\ subscription[m.id] # "open"
    /\ subscription' = [subscription EXCEPT ![m.id] = "starting"]
    /\ home' = [home EXCEPT ![m.id] = s]
    /\ UNCHANGED toClose

(* Mutant: an unsubscribe that comes too early is dropped. *)
ReceivedSignalUnsubscribeOfOpen(m) ==
    /\ m.type = "signalUnsubscribe"
    /\ subscription' = [subscription EXCEPT ![m.id] = IF @ = "open" THEN "closed" ELSE @]
    /\ UNCHANGED <<toClose, home>>

(* An unsubscribe may come before the handler is done: remembered then. *)
ReceivedSignalUnsubscribe(m) ==
    /\ m.type = "signalUnsubscribe"
    /\ IF subscription[m.id] = "open"
       THEN subscription' = [subscription EXCEPT ![m.id] = "closed"] /\ UNCHANGED toClose
       ELSE toClose' = toClose \cup {m.id} /\ UNCHANGED subscription
    /\ UNCHANGED home

ServerReceives(s) ==
    /\ ServerTakeMessage(s)
    /\ LET m == Head(up[s])
       IN ReceivedSignalSubscribe(s, m) \/ ReceivedSignalUnsubscribe(m)
    /\ UNCHANGED <<down, clientVars, source, initialized>>

(* The whole value, or a patch once the whole value has been sent. *)
Update(i, v) ==
    IF initialized[i] THEN [type |-> "patch", id |-> i]
    ELSE [type |-> "replace", id |-> i, value |-> v]

(* Mutant: a signal without a value counts as sent. *)
SignalHandlerReturnsInitialized(i) ==
    /\ subscription[i] = "starting"
    /\ IF i \in toClose
       THEN /\ toClose' = toClose \ {i}
            /\ subscription' = [subscription EXCEPT ![i] = "closed"]
            /\ UNCHANGED <<down, initialized>>
       ELSE /\ subscription' = [subscription EXCEPT ![i] = "open"]
            /\ initialized' = [initialized EXCEPT ![i] = TRUE]
            /\ down' = IF source # NotAvailable
                       THEN Answered(home[i], <<Update(i, source)>>) ELSE down
            /\ UNCHANGED toClose
    /\ UNCHANGED <<connectionVars, server, up, dispose, shouldRef, clientVars, source, home>>

(* The handler of subscription i gives its signal: subscribeFull, then the *)
(* current value if there is one.                                          *)
SignalHandlerReturns(i) ==
    /\ subscription[i] = "starting"
    /\ IF i \in toClose
       THEN /\ toClose' = toClose \ {i}
            /\ subscription' = [subscription EXCEPT ![i] = "closed"]
            /\ UNCHANGED <<down, initialized>>
       ELSE /\ subscription' = [subscription EXCEPT ![i] = "open"]
            /\ initialized' = [initialized EXCEPT ![i] = source # NotAvailable]
            /\ down' = IF source # NotAvailable
                       THEN Answered(home[i], <<Update(i, source)>>) ELSE down
            /\ UNCHANGED toClose
    /\ UNCHANGED <<connectionVars, server, up, dispose, shouldRef, clientVars, source, home>>

SignalHandlerThrows(i) ==
    /\ subscription[i] = "starting"
    /\ subscription' = [subscription EXCEPT ![i] = "failed"]
    /\ down' = Answered(home[i], <<[type |-> "signalError", id |-> i]>>)
    /\ UNCHANGED <<connectionVars, server, up, dispose, shouldRef, clientVars, source,
                   initialized, home, toClose>>

Open == {i \in SubscribeIds : subscription[i] = "open"}

(* The server's signal changes: every subscription of it sends an update. *)
SourceChanges ==
    /\ source < MaxValue
    /\ source' = source + 1
    /\ initialized' = [i \in SubscribeIds |-> initialized[i] \/ i \in Open]
    /\ down' = [s \in Sockets |->
                 LET told == {i \in Open : home[i] = s}
                 IN Answered(s, SetToSeq({Update(i, source') : i \in told}))[s]]
    /\ UNCHANGED <<connectionVars, server, up, dispose, shouldRef, clientVars, subscription,
                   home, toClose>>

(* ServerPort.errored ends the subscriptions it has, not those to come. *)
ServerConnectionLost(s) ==
    /\ ServerSocketCloses(s)
    /\ subscription' = [i \in SubscribeIds |->
                          IF i \in Open /\ home[i] = s THEN "closed" ELSE subscription[i]]
    /\ UNCHANGED <<clientVars, source, initialized, home, toClose>>

-----------------------------------------------------------------------------
LazySignalStep == Subscribe \/ Unsubscribe \/ Pull

ConnectStep == EnsureConnectedOrStartConnection /\ UNCHANGED <<clientVars, serverVars>>

UrlStep == UrlSettles /\ UNCHANGED <<clientVars, serverVars>>

NetworkStep ==
    \E s \in Sockets : \/ ConnectionOpens(s)
                       \/ ConnectionLost(s)
                       \/ ClientReceives(s)
                       \/ ServerReceives(s)
                       \/ ServerConnectionLost(s)

ServerStep ==
    \/ SourceChanges
    \/ \E i \in SubscribeIds : SignalHandlerReturns(i) \/ SignalHandlerThrows(i)

Next == \/ LazySignalStep \/ ConnectStep \/ UrlStep \/ NetworkStep \/ ServerStep
        \/ StartDispose \/ FinishDispose

Spec == Init /\ [][Next]_vars
-----------------------------------------------------------------------------
(* Properties.                                                             *)

(* f is what a value v becomes, message by message, as the ones coming on  *)
(* a connection arrive: those of subscriptions other than i are ignored.   *)
Reads(f, v, coming, i) ==
    /\ f[0] = v
    /\ \A k \in 1..Len(coming) :
         f[k] = IF coming[k].id = i THEN Applied(f[k - 1], coming[k]) ELSE f[k - 1]

(* Once the server has sent the whole value of the client's current        *)
(* subscription, what the client has and what is coming to it make up the  *)
(* server's value: no change is lost or repeated across subscriptions and  *)
(* reconnections (receivedSignalSubscribe, receivedSignalUpdate).          *)
InSync ==
    status = "Connected" /\ server[ws] = "open" /\ upstream \in Open /\ initialized[upstream]
        => \E f \in [0..Len(down[ws]) -> Values \cup {NotAvailable}] :
              Reads(f, value, down[ws], upstream) /\ f[Len(down[ws])] = source

(* A value passes for fresh only while the subscription it came through    *)
(* is active (the cases the comment of LazySignal.isStale lists).          *)
FreshOnlyWhileSubscribed ==
    ~stale => /\ upstream # None /\ upstream \in openSignalSubscriptions
              /\ subscribers > 0 /\ ~hasError

(* A signal that lost its connection is remembered for recovery until a    *)
(* connection is up, and is recovered then; a signal the server refused is *)
(* not (ClientPort.recoverableSignals, onConnected).                       *)
RecoveredOnConnection ==
    /\ recoverable <=> error = "transport"
    /\ error = "transport" => status # "Connected"

(* The server keeps a subscription on the client's connection only if it   *)
(* is the client's current one, an unsubscribe for it is on its way, or it *)
(* was still queued when an earlier connection attempt failed.             *)
NoOtherLeftover ==
    \A i \in Open :
        status = "Connected" /\ server[ws] = "open" /\ home[i] = ws
            => \/ i = upstream
               \/ [type |-> "signalUnsubscribe", id |-> i] \in ToSet(up[ws])
               \/ i \in abandoned

(* The subscriptions of the server and the freshness of the signal agree: *)
(* what passes for fresh is subscribed to, a connection that opened has    *)
(* recovered the signal unless the server had refused it, and no           *)
(* subscription is open that the client does not follow or has not left.   *)
SubscriptionsAgree ==
    /\ FreshOnlyWhileSubscribed
    /\ RecoveredOnConnection
    /\ NoOtherLeftover

Contract == INSTANCE SignalContract

(* The signal a reader sees never shows a value the server did not have,   *)
(* and never goes back (LazySignal over receivedSignalUpdate).             *)
KeepsContract == Contract!Spec

Fairness ==
    /\ WF_vars(UrlStep)
    /\ \A s \in Sockets :
         /\ WF_vars(client[s] = "opening" /\ (ConnectionOpens(s) \/ ConnectionLost(s)))
         /\ WF_vars((client[s] \in {"closing", "failed"} \/ server[s] = "closed")
                    /\ ConnectionLost(s))
         /\ WF_vars(client[s] \in {"failed", "closed"} /\ ServerConnectionLost(s))
         /\ WF_vars(ClientReceives(s))
         /\ WF_vars(ServerReceives(s))
    /\ \A i \in SubscribeIds :
         WF_vars((SignalHandlerReturns(i) \/ SignalHandlerThrows(i)))
    /\ WF_vars(source = NotAvailable /\ SourceChanges)

FairSpec == Spec /\ Fairness

(* Every pull() is answered with a fresh value, unless the signal errors   *)
(* or the transport is disposed of (LazySignal.runOnNextFreshData).        *)
PullsEnd == pulls > 0 ~> pulls = 0 \/ hasError \/ disposed

(* A subscription that the client left is left on the server too, or its   *)
(* connection ends; the ones left over from failed attempts are not, and   *)
(* nothing is promised once the transport is disposed of                   *)
(* (receivedSignalUnsubscribe and signalSubscriptionsToClose).             *)
UnsubscribesEnd ==
    \A i \in SubscribeIds :
        i \in Open /\ i # upstream ~> i \notin Open \/ i \in abandoned \/ disposed
                                    \/ server[home[i]] = "closed"

-----------------------------------------------------------------------------
(* What the documentation says and the code does not do.                   *)

(* The port tells the transport "when the number of open communications    *)
(* changes from 1 or more to 0" (onHavingNoOpenCommunication).             *)
RefWhileSubscribed == openSignalSubscriptions = {} => ~shouldRef
=============================================================================
