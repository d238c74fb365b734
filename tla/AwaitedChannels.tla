--------------------------- MODULE AwaitedChannels ---------------------------
(***************************************************************************)
(* The methods of the namespaces that open a channel and await a promise   *)
(* which the channel settles.  Each is a row of what it does with its      *)
(* abort signal, the result, the error and the closing of its channel; one *)
(* of them runs, which one is chosen at the start.                         *)
(*                                                                         *)
(* LM Studio is not in this repository: it reports, answers once, and ends *)
(* the channel, with an answer or without.                                 *)
(***************************************************************************)
EXTENDS Integers, SequencesExt

CONSTANT MaxReports \* Bound: progress messages of LM Studio.

-----------------------------------------------------------------------------
(* The methods.  before and during: what the signal does when it was       *)
(* aborted before the call, and when it aborts later.  stops: how the      *)
(* method stops listening to it once its promise is settled.  error and    *)
(* close: what the end of the channel does to the promise.                 *)

Row(before, during, stops, error, close) ==
    [before |-> before, during |-> during, stops |-> stops, error |-> error, close |-> close]

Load       == Row({"cancel", "reject"}, {"cancel", "reject"}, "never", "rejects", "unheard")
GetOrLoad  == Row({"cancel", "reject"}, {"cancel", "reject"}, "never", "rejects", "unheard")
Retrieve   == Row({"cancel", "reject"}, {"cancel", "reject"}, "never", "rejects", "unheard")
ParseDocument ==
              Row({"throw"}, {"cancel", "reject", "unlessFinished"}, "never", "rejects", "rejects")
DownloadArtifact ==
              Row({}, {"cancel"}, "finally", "rejects", "reasonIfAborted")
DownloadModel ==
              Row({}, {"cancel"}, "finally", "reasonIfAborted", "reasonIfAborted")

(* Mutant: the rejection of promise.finally is not caught. *)
DownloadRuntimeUncaught ==
              Row({"cancel"}, {"cancel"}, "finally", "reasonIfAborted", "reasonIfAborted")

DownloadRuntime ==
              Row({"cancel"}, {"cancel"}, "finallyCaught", "reasonIfAborted", "reasonIfAborted")
PushArtifact == Row({}, {}, "never", "rejects", "resolves")

EnsureAuthenticated == Row({}, {}, "never", "rejects", "unheard")
WhenDisconnected == Row({}, {}, "never", "resolves", "resolves")
RegisterDevelopmentPlugin == Row({}, {}, "never", "unheard", "unheard")

Handling == [load |-> Load, model |-> GetOrLoad, retrieve |-> Retrieve,
             parseDocument |-> ParseDocument, downloadArtifact |-> DownloadArtifact,
             downloadModel |-> DownloadModel, downloadRuntime |-> DownloadRuntime,
             pushArtifact |-> PushArtifact, ensureAuthenticated |-> EnsureAuthenticated,
             whenDisconnected |-> WhenDisconnected,
             registerDevelopmentPlugin |-> RegisterDevelopmentPlugin]

Methods == DOMAIN Handling
Answering == Methods \ {"pushArtifact", "whenDisconnected"}
Signalled == {m \in Methods : Handling[m].during # {}}

VARIABLES
    method,
    aborted,   \* Whether its signal is aborted.
    promise,   \* What the method returned, and what became of it.
    listening, \* Whether its abort listener would run.
    cleaned,   \* Whether promise.finally has run.
    unhandled, \* Whether a rejection had nobody who handles it.
    finished,  \* parseDocument has its result.
    unregister, \* The promises of the first and of a later call of unregister.
    channel,   \* To the method's client.
    toServer, toClient, \* What was sent to LM Studio, and what comes from it.
    reports, answered, serverDone

callVars == <<aborted, promise, listening, cleaned, unhandled, finished>>
serverVars == <<reports, answered, serverDone>>
vars == <<method, callVars, unregister, channel, toServer, toClient, serverVars>>

rules == Handling[method]

TypeOK ==
    /\ method \in Methods
    /\ promise \in {"none", "pending", "thrown", "resolved", "reason", "error"}
    /\ {aborted, listening, cleaned, unhandled, finished, answered, serverDone} \subseteq BOOLEAN
    /\ unregister \in [{"first", "later"} -> {"none", "pending", "done"}]
    /\ channel \in {"none", "open", "errored", "closed"}
    /\ toServer \in Seq({"cancel", "end"})
    /\ toClient \in Seq({"report", "result", "error", "close"})
    /\ reports \in 0 .. MaxReports

Init ==
    /\ method \in Methods
    /\ aborted \in BOOLEAN /\ (aborted => method \in Signalled)
    /\ promise = "none" /\ channel = "none"
    /\ listening = FALSE /\ cleaned = FALSE /\ unhandled = FALSE /\ finished = FALSE
    /\ unregister = [c \in {"first", "later"} |-> "none"]
    /\ toServer = <<>> /\ toClient = <<>>
    /\ reports = 0 /\ answered = FALSE /\ serverDone = FALSE

-----------------------------------------------------------------------------
(* The method and its signal.                                              *)

(* A promise is settled once.                                              *)
SettledAs(outcome) == IF promise = "pending" THEN outcome ELSE promise

Sends(msgs) == toServer' = IF channel \in {"none", "open"} THEN toServer \o msgs ELSE toServer

IfIn(x, S) == IF x \in S THEN <<x>> ELSE <<>>

Call ==
    /\ promise = "none"
    /\ IF aborted /\ "throw" \in rules.before
       THEN promise' = "thrown" /\ UNCHANGED <<channel, toServer, listening>>
       ELSE /\ channel' = "open"
            /\ promise' = IF aborted /\ "reject" \in rules.before THEN "reason" ELSE "pending"
            /\ Sends(IF aborted THEN IfIn("cancel", rules.before) ELSE <<>>)
            /\ listening' = (method \in Signalled /\ ~aborted)
    /\ UNCHANGED <<method, aborted, cleaned, unhandled, finished, unregister, toClient, serverVars>>

Abort ==
    /\ method \in Signalled /\ ~aborted
    /\ aborted' = TRUE
    /\ IF listening /\ ~("unlessFinished" \in rules.during /\ finished)
       THEN /\ Sends(IfIn("cancel", rules.during))
            /\ promise' = IF "reject" \in rules.during THEN SettledAs("reason") ELSE promise
       ELSE UNCHANGED <<toServer, promise>>
    /\ UNCHANGED <<method, listening, cleaned, unhandled, finished, unregister, channel, toClient,
                   serverVars>>

(* promise.finally runs in a microtask of its own.  What it returns rejects*)
(* when the promise does; only one of the methods catches that.            *)
StopsListening ==
    /\ rules.stops # "never" /\ ~cleaned
    /\ promise \in {"resolved", "reason", "error"}
    /\ cleaned' = TRUE
    /\ listening' = FALSE
    /\ unhandled' = (rules.stops = "finally" /\ promise # "resolved")
    /\ UNCHANGED <<method, aborted, promise, finished, unregister, channel, toServer, toClient,
                   serverVars>>

(* The first call of unregister says so and waits for the channel to close,*)
(* even when it has closed; a later one returns.                           *)
Unregister(call) ==
    /\ method = "registerDevelopmentPlugin" /\ promise = "resolved"
    /\ unregister[call] = "none"
    /\ call = "later" => unregister["first"] # "none"
    /\ unregister' = [unregister EXCEPT ![call] = IF call = "first" /\ channel # "closed"
                                                  THEN "pending" ELSE "done"]
    /\ Sends(IF call = "first" THEN <<"end">> ELSE <<>>)
    /\ UNCHANGED <<method, callVars, channel, toClient, serverVars>>

-----------------------------------------------------------------------------
(* What the channel brings.                                                *)

EndOfChannel(rule) ==
    CASE rule = "resolves" -> SettledAs("resolved")
      [] rule = "rejects" -> SettledAs("error")
      [] rule = "reasonIfAborted" -> SettledAs(IF aborted THEN "reason" ELSE "error")
      [] rule = "unheard" -> promise

OnResult ==
    /\ promise' = SettledAs("resolved")
    /\ finished' = TRUE
    /\ UNCHANGED <<channel, unregister>>

OnError ==
    /\ channel' = "errored"
    /\ promise' = EndOfChannel(rules.error)
    /\ UNCHANGED <<finished, unregister>>

OnClose ==
    /\ channel' = "closed"
    /\ promise' = EndOfChannel(rules.close)
    /\ unregister' = [unregister EXCEPT !["first"] = IF @ = "pending" THEN "done" ELSE @]
    /\ UNCHANGED finished

Receive ==
    /\ channel = "open" /\ toClient # <<>>
    /\ toClient' = Tail(toClient)
    /\ CASE Head(toClient) = "report" -> UNCHANGED <<promise, finished, channel, unregister>>
         [] Head(toClient) = "result" -> OnResult
         [] Head(toClient) = "error" -> OnError
         [] Head(toClient) = "close" -> OnClose
    /\ UNCHANGED <<method, aborted, listening, cleaned, unhandled, toServer, serverVars>>

ConnectionLost ==
    /\ channel = "open"
    /\ OnError
    /\ toClient' = <<>> /\ serverDone' = TRUE
    /\ UNCHANGED <<method, aborted, listening, cleaned, unhandled, toServer, reports, answered>>

-----------------------------------------------------------------------------
(* LM Studio.                                                              *)

ServerWorks == channel = "open" /\ ~serverDone

ServerReports ==
    /\ ServerWorks /\ ~answered /\ reports < MaxReports
    /\ reports' = reports + 1
    /\ toClient' = Append(toClient, "report")
    /\ UNCHANGED <<method, callVars, unregister, channel, toServer, answered, serverDone>>

ServerAnswers ==
    /\ ServerWorks /\ ~answered /\ method \in Answering
    /\ answered' = TRUE
    /\ toClient' = Append(toClient, "result")
    /\ UNCHANGED <<method, callVars, unregister, channel, toServer, reports, serverDone>>

(* With or without being told to; what it was told stays in toServer.      *)
ServerEnds ==
    /\ ServerWorks
    /\ serverDone' = TRUE
    /\ \E end \in {"error", "close"} : toClient' = Append(toClient, end)
    /\ UNCHANGED <<method, callVars, unregister, channel, toServer, reports, answered>>

Next ==
    \/ Call \/ Abort \/ StopsListening \/ \E call \in {"first", "later"} : Unregister(call)
    \/ Receive \/ ConnectionLost
    \/ ServerReports \/ ServerAnswers \/ ServerEnds

Spec == Init /\ [][Next]_vars

(* The event loop runs, and LM Studio ends every channel some day.         *)
Progress == Receive \/ StopsListening \/ ServerEnds

-----------------------------------------------------------------------------
(* An abort of a call under way reaches LM Studio or the caller: when the  *)
(* signal is aborted and the promise still waits for an open channel, LM   *)
(* Studio was told to cancel.  Two downloads do not look at a signal that  *)
(* was aborted before (RepositoryNamespace.downloadArtifact and            *)
(* ModelSearchResultDownloadOption.download).                              *)
AbortIsPassedOn ==
    aborted /\ promise = "pending" /\ ServerWorks =>
        "cancel" \in ToSet(toServer) \/ method \in {"downloadArtifact", "downloadModel"}

(* Once the signal is aborted, a pending call ends by its result or by the *)
(* reason of the abort, whatever the server, the connection and the signal *)
(* do first; only downloadArtifact lets the error of the channel through.  *)
ReasonOfAbortWins ==
    [][promise = "pending" /\ aborted /\ promise' # promise =>
           promise' \in {"resolved", "reason"} \/ method = "downloadArtifact"]_vars

(* A rejection that promise.finally passes on is handled, except where the *)
(* two downloads drop what it returns: there the process hears of an       *)
(* unhandled rejection although the caller handles its own.                *)
RejectionsAreHandled == unhandled => method \in {"downloadArtifact", "downloadModel"}

(* A call whose channel has ended is over: only the methods that do not    *)
(* listen to the closing of their channel are left waiting by it, and only *)
(* registerDevelopmentPlugin by an error.                                  *)
LeftWaitingOnlyIfDeaf ==
    promise = "pending" /\ channel \in {"errored", "closed"} =>
        \/ method = "registerDevelopmentPlugin"
        \/ channel = "closed" /\ method \in {"load", "model", "retrieve", "ensureAuthenticated"}

(* The first call of unregister returns, unless the channel errors.        *)
Settled == unregister["first"] = "pending" => channel = "errored"
=============================================================================
