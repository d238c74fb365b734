----------------------------- MODULE MCSessions -----------------------------
(***************************************************************************)
(* act() and the components that live as long as a session, a channel or a *)
(* promise, for TLC: small instances, checked in one run.  They share no   *)
(* state; the run picks the one that takes steps, and the others stay as   *)
(* they began.  The constants are those of the components, so that what is *)
(* proved of a component here is proved for every value of them.           *)
(***************************************************************************)
EXTENDS ActLoop

CONSTANTS
    Conns, Passkeys,                               \* Of Authentication.
    Plugins, MaxToolCalls,                         \* Of ToolSessions.
    MaxFragments, MaxReportedCalls,                \* Of Prediction.
    Tasks, MaxTaskUpdates,                         \* Of PluginTasks.
    Options, First, MaxPlanUpdates, MaxSelects,    \* Of DownloadPlanner.
    MaxReports,                                    \* Of AwaitedChannels.
    Ids, Callers, MaxLoads,                        \* Of ModelHandles.
    Sources, MaxChanges, MaxStales, MaxSubscriptions, MaxRejections, \* Of DerivedSignals.
    MaxEmitted, MaxSubscribed,                     \* Of BufferedEvents.
    NumPagers, Priorities                          \* Of WaitQueue.

ASSUME SessionsAssumption ==
    /\ {MaxToolCalls, MaxFragments, MaxReportedCalls, MaxTaskUpdates, MaxPlanUpdates, MaxSelects,
        MaxReports, MaxLoads, MaxChanges, MaxStales, MaxSubscriptions, MaxRejections, MaxEmitted,
        MaxSubscribed, NumPagers} \subseteq Nat
    /\ \A S \in {Conns, Sources} : IsFiniteSet(S)
    /\ First \in Options
    /\ Priorities \subseteq Int

VARIABLES
    subject,   \* The component that runs.
    entry, passkey, references, released, releases, terminated, key, phase, request, holder,
    socket, client, answer,
    multi, status, sessionPoisoned, call, signal, toPlugin, toClient, channel, session, tools,
    provider, ongoing, tool,
    handle, finished, predictionCurrentCallId, receivedEagerToolNameReporting,
    receivedToolArgumentsStreaming, told, cancelEvent, thrown, predictionStatus, buffer, final,
    result, nextFragmentPromiseBundle, reactions, onMessage, at, given, seen, taskAborted,
    listening, genInfo, predictionChannel, predictionToClient, toServer, generated, generating,
    predicting,
    host, asked, heard, requests, responses, pluginToPlugin, toStudio, tasks, pluginAborted,
    handler, verdict, notifying,
    plan, ready, committed, errored, errorBefore, nextVersion, waiters, download, planAborted,
    downloadAborted, disposed, planAsked, planChannel, planToServer, planToClient, serverPlan,
    serverState,
    method, awaitedAborted, promise, awaitedListening, cleaned, unhandled, awaitedFinished,
    unregister, awaitedChannel, awaitedToServer, awaitedToClient, reports, answered, serverDone,
    models, instances, handles, handleCalls, wire, disturbed,
    kind, source, stales, subscriptions, subscribed, output, closure, derives, rejected, epoch,
    lengthLimit, sizeLimit, queued, queuedItemsCount, queuedSize, isNotifying, overflowed,
    subscriber, eventSubscribed, notifier, called, size, eventHeard,
    portStatus, ws, created, url, portClient, server, portQueued, up, down, dispose, shouldRef,
    nextChannelId, ongoingRpcs, openChannels, openCommunicationsCount, portPromise, portChannel,
    events, sent, received, portHandler, home, serverChannel, serverEvents, serverSent,
    serverReceived,
    pagers, currentlyServing, queueLength, priority, pagerPromise, pagerHolder

Auth == INSTANCE Authentication
Sessions == INSTANCE ToolSessions
    WITH MaxCalls <- MaxToolCalls, poisoned <- sessionPoisoned
Predictions == INSTANCE Prediction
    WITH MaxCalls <- MaxReportedCalls, Loops <- {"pipe"},
         currentCallId <- predictionCurrentCallId, status <- predictionStatus,
         channel <- predictionChannel, toClient <- predictionToClient
Hosts == INSTANCE PluginTasks
    WITH MaxUpdates <- MaxTaskUpdates, toPlugin <- pluginToPlugin, aborted <- pluginAborted
Planner == INSTANCE DownloadPlanner
    WITH MaxUpdates <- MaxPlanUpdates, asked <- planAsked, channel <- planChannel,
         toServer <- planToServer, toClient <- planToClient
Awaited == INSTANCE AwaitedChannels
    WITH aborted <- awaitedAborted, listening <- awaitedListening, finished <- awaitedFinished,
         channel <- awaitedChannel, toServer <- awaitedToServer, toClient <- awaitedToClient
Handles == INSTANCE ModelHandles WITH calls <- handleCalls
Derived == INSTANCE DerivedSignals WITH Reentrant <- FALSE
Buffered == INSTANCE BufferedEvents WITH subscribed <- eventSubscribed, heard <- eventHeard
Ports == INSTANCE PortCalls
    WITH MaxSockets <- 2, SupportsRefing <- TRUE, MaxCalls <- 2, MaxSends <- 0, Faults <- {},
         status <- portStatus, client <- portClient, queued <- portQueued,
         promise <- portPromise, channel <- portChannel, handler <- portHandler
Queue == INSTANCE WaitQueue
    WITH Pagers <- 1..NumPagers, promise <- pagerPromise, holder <- pagerHolder

authVars == <<entry, passkey, references, released, releases, terminated, key, phase, request,
              holder, socket, client, answer>>
sessionsVars == <<multi, status, sessionPoisoned, call, signal, toPlugin, toClient, channel,
                  session, tools, provider, ongoing, tool>>
predictionsVars == <<handle, finished, predictionCurrentCallId, receivedEagerToolNameReporting,
                     receivedToolArgumentsStreaming, told, cancelEvent, thrown,
                     predictionStatus, buffer, final, result, nextFragmentPromiseBundle,
                     reactions, onMessage, at, given, seen, taskAborted, listening, genInfo,
                     predictionChannel, predictionToClient, toServer, generated, generating,
                     predicting>>
hostsVars == <<host, asked, heard, requests, responses, pluginToPlugin, toStudio, tasks,
               pluginAborted, handler, verdict, notifying>>
plannerVars == <<plan, ready, committed, errored, errorBefore, nextVersion, waiters, download,
                 planAborted, downloadAborted, disposed, planAsked, planChannel, planToServer,
                 planToClient, serverPlan, serverState>>
awaitedVars == <<method, awaitedAborted, promise, awaitedListening, cleaned, unhandled,
                 awaitedFinished, unregister, awaitedChannel, awaitedToServer, awaitedToClient,
                 reports, answered, serverDone>>
handlesVars == <<models, instances, handles, handleCalls, wire, disturbed>>
derivedVars == <<kind, source, stales, subscriptions, subscribed, output, closure, derives,
                 rejected, epoch>>
bufferedVars == <<lengthLimit, sizeLimit, queued, queuedItemsCount, queuedSize, isNotifying,
                  overflowed, subscriber, eventSubscribed, notifier, called, size, eventHeard>>
portsVars == <<portStatus, ws, created, url, portClient, server, portQueued, up, down, dispose,
               shouldRef, nextChannelId, ongoingRpcs, openChannels, openCommunicationsCount,
               portPromise, portChannel, events, sent, received, portHandler, home,
               serverChannel, serverEvents, serverSent, serverReceived>>
waitQueueVars == <<pagers, currentlyServing, queueLength, priority, pagerPromise, pagerHolder>>

Subjects == {"act", "authentication", "tool sessions", "prediction", "plugin tasks", "planner",
             "awaited channels", "handles", "derived signals", "buffered events", "calls",
             "wait queue"}

InitSessions ==
    /\ subject \in Subjects
    /\ Init /\ (subject # "act" => ~ allowParallelToolExecution /\ ~ hasGuard)
    /\ Auth!Init /\ Sessions!Init /\ Handles!Init /\ Queue!Init
    /\ Predictions!Init
    /\ subject # "prediction" =>
         handle = "complete" /\ cancelEvent = "no" /\ ~ taskAborted
    /\ Hosts!Init /\ (subject # "plugin tasks" => host = "generator")
    /\ Planner!Init /\ (subject # "planner" => ~ planAborted)
    /\ Awaited!Init
    /\ subject # "awaited channels" => method = "load" /\ ~ awaitedAborted
    /\ Derived!Init /\ (subject # "derived signals" => kind = "deriveFrom")
    /\ Ports!Init /\ (subject # "calls" => url = "idle")
    /\ Buffered!Init /\ (subject # "buffered events" => lengthLimit = 1)

NextSessions ==
    /\ UNCHANGED subject
    /\ IF subject = "act" THEN Next ELSE UNCHANGED vars
    /\ IF subject = "authentication" THEN Auth!Next ELSE UNCHANGED authVars
    /\ IF subject = "tool sessions" THEN Sessions!Next ELSE UNCHANGED sessionsVars
    /\ IF subject = "prediction" THEN Predictions!Next ELSE UNCHANGED predictionsVars
    /\ IF subject = "plugin tasks" THEN Hosts!Next ELSE UNCHANGED hostsVars
    /\ IF subject = "planner" THEN Planner!Next ELSE UNCHANGED plannerVars
    /\ IF subject = "awaited channels" THEN Awaited!Next ELSE UNCHANGED awaitedVars
    /\ IF subject = "handles" THEN Handles!Next ELSE UNCHANGED handlesVars
    /\ IF subject = "derived signals" THEN Derived!Next ELSE UNCHANGED derivedVars
    /\ IF subject = "buffered events" THEN Buffered!Next ELSE UNCHANGED bufferedVars
    /\ IF subject = "calls" THEN Ports!Next ELSE UNCHANGED portsVars
    /\ IF subject = "wait queue" THEN Queue!Next ELSE UNCHANGED waitQueueVars

all == <<subject, vars, authVars, sessionsVars, predictionsVars, hostsVars, plannerVars,
         awaitedVars, handlesVars, derivedVars, bufferedVars, portsVars, waitQueueVars>>

(* A component does not stop while it, or what it is connected to, has a   *)
(* step of its own to take.  Every run is finite, so this is as much as    *)
(* fairness of each of those steps.                                        *)
ProgressOfSubject ==
    /\ UNCHANGED subject
    /\ IF subject = "act" THEN Progress ELSE UNCHANGED vars
    /\ IF subject = "authentication" THEN Auth!Progress ELSE UNCHANGED authVars
    /\ IF subject = "tool sessions" THEN Sessions!Progress ELSE UNCHANGED sessionsVars
    /\ IF subject = "prediction" THEN Predictions!Progress ELSE UNCHANGED predictionsVars
    /\ IF subject = "plugin tasks" THEN Hosts!Progress ELSE UNCHANGED hostsVars
    /\ IF subject = "planner" THEN Planner!Progress ELSE UNCHANGED plannerVars
    /\ IF subject = "awaited channels" THEN Awaited!Progress ELSE UNCHANGED awaitedVars
    /\ IF subject = "handles" THEN Handles!Progress ELSE UNCHANGED handlesVars
    /\ IF subject = "derived signals" THEN Derived!Progress ELSE UNCHANGED derivedVars
    /\ IF subject = "buffered events" THEN Buffered!Progress ELSE UNCHANGED bufferedVars
    /\ IF subject = "calls" THEN Ports!Progress ELSE UNCHANGED portsVars
    /\ IF subject = "wait queue" THEN Queue!Progress ELSE UNCHANGED waitQueueVars

FairSessions == InitSessions /\ [][NextSessions]_all /\ WF_all(ProgressOfSubject)

-----------------------------------------------------------------------------
(* Properties.                                                             *)

(* Every variable of the component that runs keeps its type.               *)
ComponentsTypeOK ==
    CASE subject = "act" -> TypeOK
      [] subject = "authentication" -> Auth!TypeOK
      [] subject = "tool sessions" -> Sessions!TypeOK
      [] subject = "prediction" -> Predictions!TypeOK
      [] subject = "plugin tasks" -> Hosts!TypeOK
      [] subject = "planner" -> Planner!TypeOK
      [] subject = "awaited channels" -> Awaited!TypeOK
      [] subject = "handles" -> Handles!TypeOK
      [] subject = "derived signals" -> Derived!TypeOK
      [] subject = "buffered events" -> Buffered!TypeOK
      [] subject = "calls" -> Ports!TypeOK
      [] subject = "wait queue" -> Queue!TypeOK

(* Clients, their holders and their sockets agree, whoever joins, fails,   *)
(* times out or is terminated when (fcfsAuthenticator.ts): references are  *)
(* holders, the last one releases the client once, only the first passkey  *)
(* is served, and nothing of a released client stays open.                 *)
HoldersAgree ==
    subject = "authentication" =>
        /\ Auth!ReferencesAreHolders /\ Auth!ReleasedWithLastHolder
        /\ Auth!FirstOneTrusted /\ Auth!RevokedIsClosed /\ Auth!StrayOnlyIfLate

(* No tool call of a session is lost, answered twice, left waiting on a    *)
(* session that ended, or sent before the session has its tools            *)
(* (ToolUseSession.ts).                                                    *)
ToolCallsAgree ==
    subject = "tool sessions" =>
        Sessions!CallIsSomewhere /\ Sessions!NoneWaitsOnEnded /\ Sessions!CalledInSession

(* Loops over a prediction, its callbacks, its result and its cancellation *)
(* tell the whole of it and in order (StreamablePromise.ts,                *)
(* LLMDynamicHandle.internalPredict).                                      *)
PredictionIsWhole ==
    subject = "prediction" =>
        /\ Predictions!LoopsSeeAll /\ Predictions!MessageBeforeLoopEnds
        /\ Predictions!ResultIsWhole /\ Predictions!CallsToldInFull /\ Predictions!CancelSent

(* A task of a plugin can be aborted exactly while it runs, and nothing    *)
(* comes after its answer (PluginSelfRegistrationHost.ts).                 *)
TasksAgree ==
    subject = "plugin tasks" => Hosts!TasksAreAbortable /\ Hosts!AnswerIsLast

(* A plan shows and downloads what was selected last, and disposing of the *)
(* planner spares a download (ArtifactDownloadPlanner.ts).                 *)
PlanIsSelection ==
    subject = "planner" =>
        /\ Planner!SelectionIsShown /\ Planner!DownloadsWhatWasSelected
        /\ Planner!DisposeSparesDownload

(* Aborts of a call reach LM Studio, its rejections are handled, its end   *)
(* reaches the caller (the channels ModelNamespace, RepositoryNamespace,   *)
(* ... wait for).                                                          *)
CallsOfClient ==
    Awaited!AbortIsPassedOn /\ Awaited!RejectionsAreHandled /\ Awaited!LeftWaitingOnlyIfDeaf

(* A call of a handle is answered of the instance the handle is for, and   *)
(* of one model if nobody else loads or unloads meanwhile                  *)
(* (DynamicHandle.ts, LLM.ts).                                             *)
HandlesAgree ==
    subject = "handles" => Handles!SpecificNeverMixes /\ Handles!QuietCallsSeeOneModel

(* A derived signal passes for fresh only with what was derived since it   *)
(* was stale, by one derive at a time (LazySignal.ts).                     *)
DerivedIsCurrent ==
    subject = "derived signals" => Derived!FreshIsSinceStale /\ Derived!OneDeriveAtATime

(* Events are heard once and in order (BufferedEvent.ts), and there is one *)
(* holder in use (WaitQueue.ts).                                           *)
QueuesAgree == Buffered!HeardOnceInOrder /\ Queue!OneHolder

(* What a step may not do: undo an abort, go back to older values, let     *)
(* another outcome win over the reason of an abort, serve out of order.    *)
NothingIsUndone ==
    /\ Hosts!AbortIsFinal /\ Awaited!ReasonOfAbortWins
    /\ Derived!NeverBackwards /\ Queue!ServedInOrder

(* Nobody is left waiting for ever: calls end and a disposal completes     *)
(* while the connection lasts, act() and its calls settle, who sent a      *)
(* passkey is answered or disconnected, a session starts for all plugins   *)
(* or leaves none, a tool whose call was aborted learns of it, predictions *)
(* and their loops end, an aborted task is answered, calls settle, a       *)
(* derived signal ends with the values of its sources, events are heard,   *)
(* and pagers are served; with the exceptions the modules name.            *)
SettledSubject ==
    CASE subject = "act" -> Settled
      [] subject = "authentication" -> Auth!Settled
      [] subject = "tool sessions" -> Sessions!Settled
      [] subject = "prediction" -> Predictions!Settled
      [] subject = "plugin tasks" -> Hosts!Settled
      [] subject = "planner" -> Planner!Settled
      [] subject = "awaited channels" -> Awaited!Settled
      [] subject = "handles" -> Handles!Settled
      [] subject = "derived signals" -> Derived!Settled
      [] subject = "buffered events" -> Buffered!Settled
      [] subject = "calls" -> Ports!Settled
      [] subject = "wait queue" -> Queue!Settled

NobodyWaitsForEver == []<>SettledSubject
=============================================================================
