---------------------------- MODULE ToolSessions ----------------------------
(***************************************************************************)
(* A MultiRemoteToolUseSession: one SingleRemoteToolUseSession per plugin, *)
(* the channel of each, and the tools provider each plugin registered with *)
(* setToolsProvider.                                                       *)
(*                                                                         *)
(* LM Studio stands between a session's channel and its plugin and is not  *)
(* in this repository: it is taken to pass the messages on in order, to    *)
(* fail the channel when the initialization failed, and to discard the     *)
(* session of a channel that ended.  Status texts, warnings, arguments and *)
(* results are left out.                                                   *)
(***************************************************************************)
EXTENDS Integers, Sequences, FiniteSets, Functions

CONSTANTS
    Plugins,   \* pluginIdentifiers of the session.
    MaxCalls   \* Bound: calls of a tool per plugin.

Calls == 1..MaxCalls

VARIABLES
    multi,      \* Promise of createUsingPredictionProcess, then the session.
    status,     \* Per plugin, SingleToolUseSessionStatus.
    poisoned,   \* Per plugin, whether poison is set.
    call,       \* Per plugin and call, how it stands for its caller.
    signal,     \* Per plugin and call, whether ctx.signal is aborted.
    toPlugin,   \* Per plugin, the messages on their way to it.
    toClient,   \* Per plugin, the messages on their way to the client.
    channel,    \* Per plugin, whether the channel of the session lasts.
    session,    \* Per plugin, its entry of openSessions.
    tools,      \* Per plugin, whether openSession.tools is set.
    provider,   \* Per plugin, the toolsProvider call.
    ongoing,    \* Per plugin, openSession.ongoingToolCalls.
    tool        \* Per plugin and call, the run of tool.implementation.

clientVars == <<multi, status, poisoned, call, signal>>
wireVars == <<toPlugin, toClient, channel>>
pluginVars == <<session, tools, provider, ongoing, tool>>
vars == <<clientVars, wireVars, pluginVars>>

ToPluginMsg == {<<"initSession">>, <<"discardSession">>}
                   \cup ({"callTool", "abortToolCall"} \X Calls)
ToClientMsg == {<<"sessionReady">>, <<"channelError">>}
                   \cup ({"toolCallComplete", "toolCallError"} \X Calls)

TypeOK ==
    /\ multi \in {"none", "starting", "ready", "failed", "disposed"}
    /\ status \in [Plugins -> {"none", "initializing", "ready", "disposed"}]
    /\ poisoned \in [Plugins -> BOOLEAN]
    /\ call \in [Plugins -> [Calls -> {"none", "refused", "ongoing", "resolved", "rejected"}]]
    /\ signal \in [Plugins -> [Calls -> BOOLEAN]]
    /\ toPlugin \in [Plugins -> Seq(ToPluginMsg)]
    /\ toClient \in [Plugins -> Seq(ToClientMsg)]
    /\ channel \in [Plugins -> BOOLEAN]
    /\ session \in [Plugins -> {"none", "open", "discarded"}]
    /\ tools \in [Plugins -> BOOLEAN]
    /\ provider \in [Plugins -> {"none", "running", "returned"}]
    /\ ongoing \in [Plugins -> SUBSET Calls]
    /\ tool \in [Plugins -> [Calls -> {"none", "running", "aborted", "returned"}]]

Init ==
    /\ multi = "none"
    /\ status = [p \in Plugins |-> "none"]
    /\ poisoned = [p \in Plugins |-> FALSE]
    /\ call = [p \in Plugins |-> [i \in Calls |-> "none"]]
    /\ signal = [p \in Plugins |-> [i \in Calls |-> FALSE]]
    /\ toPlugin = [p \in Plugins |-> <<>>]
    /\ toClient = [p \in Plugins |-> <<>>]
    /\ channel = [p \in Plugins |-> FALSE]
    /\ session = [p \in Plugins |-> "none"]
    /\ tools = [p \in Plugins |-> FALSE]
    /\ provider = [p \in Plugins |-> "none"]
    /\ ongoing = [p \in Plugins |-> {}]
    /\ tool = [p \in Plugins |-> [i \in Calls |-> "none"]]

-----------------------------------------------------------------------------
(* The client.                                                             *)

(* All ongoing calls of p are rejected. *)
CallsRejected(p) == [i \in Calls |-> IF call[p][i] = "ongoing" THEN "rejected" ELSE call[p][i]]

(* Sessions that are told to discard themselves: those not disposed yet. *)
Disposable(P) == {p \in P : status[p] # "disposed"}

(* [Symbol.dispose] of the sessions P. *)
Dispose(P) ==
    LET D == Disposable(P) IN
    /\ toPlugin' = [p \in Plugins |->
                      IF p \in D /\ channel[p] THEN Append(toPlugin[p], <<"discardSession">>)
                      ELSE toPlugin[p]]
    /\ status' = [p \in Plugins |-> IF p \in D THEN "disposed" ELSE status[p]]
    /\ poisoned' = [p \in Plugins |-> p \in D \/ poisoned[p]]
    /\ call' = [p \in Plugins |-> IF p \in D THEN CallsRejected(p) ELSE call[p]]

(* createUsingPredictionProcess starts all sessions at once. *)
Start ==
    /\ multi = "none"
    /\ multi' = "starting"
    /\ status' = [p \in Plugins |-> "initializing"]
    /\ channel' = [p \in Plugins |-> TRUE]
    /\ toPlugin' = [p \in Plugins |-> <<<<"initSession">>>>]
    /\ UNCHANGED <<poisoned, call, signal, toClient, pluginVars>>

(* A session whose create() resolved became ready; poison is set only      *)
(* after that.                                                             *)
Created(p) == status[p] = "ready" \/ poisoned[p]
Rejected(p) == status[p] = "disposed" /\ ~poisoned[p]

(* Mutant: the first create() that settles decides. *)
SomeSettled == \E p \in Plugins : status[p] # "initializing"

AllSettled == \A p \in Plugins : status[p] # "initializing"

(* Every create() has settled: the session starts, or what did start is    *)
(* disposed of.                                                            *)
Settle ==
    /\ multi = "starting" /\ AllSettled
    /\ IF \E p \in Plugins : Rejected(p)
       THEN /\ multi' = "failed"
            /\ Dispose({p \in Plugins : Created(p)})
       ELSE /\ multi' = "ready"
            /\ UNCHANGED <<status, poisoned, call, toPlugin>>
    /\ UNCHANGED <<signal, toClient, channel, pluginVars>>

(* The application disposes of the session. *)
DisposeAll ==
    /\ multi = "ready"
    /\ multi' = "disposed"
    /\ Dispose(Plugins)
    /\ UNCHANGED <<signal, toClient, channel, pluginVars>>

(* A tool is called: refused when poisoned or aborted, or sent.            *)
CallTool(p, i) ==
    /\ multi \in {"ready", "disposed"}
    /\ call[p][i] = "none"
    /\ i > 1 => call[p][i - 1] # "none"
    /\ IF poisoned[p] \/ signal[p][i]
       THEN /\ call' = [call EXCEPT ![p][i] = "refused"]
            /\ UNCHANGED toPlugin
       ELSE /\ call' = [call EXCEPT ![p][i] = "ongoing"]
            /\ toPlugin' = [toPlugin EXCEPT ![p] = Append(@, <<"callTool", i>>)]
    /\ UNCHANGED <<multi, status, poisoned, signal, toClient, channel, pluginVars>>

(* The signal of a call aborts; the listener of a call that was sent hears *)
(* it even when the call has ended.                                        *)
Abort(p, i) ==
    /\ ~signal[p][i]
    /\ signal' = [signal EXCEPT ![p][i] = TRUE]
    /\ IF status[p] # "disposed" /\ call[p][i] \in {"ongoing", "resolved", "rejected"}
       THEN /\ toPlugin' = [toPlugin EXCEPT ![p] = Append(@, <<"abortToolCall", i>>)]
            /\ call' = [call EXCEPT ![p][i] = IF @ = "ongoing" THEN "rejected" ELSE @]
       ELSE UNCHANGED <<call, toPlugin>>
    /\ UNCHANGED <<multi, status, poisoned, toClient, channel, pluginVars>>

(* onError and onClose: creation fails or the session is poisoned, and its *)
(* calls are rejected.                                                     *)
ChannelEnds(p) ==
    /\ poisoned' = [poisoned EXCEPT ![p] = status[p] # "initializing"]
    /\ status' = [status EXCEPT ![p] = "disposed"]
    /\ call' = [call EXCEPT ![p] = CallsRejected(p)]
    /\ channel' = [channel EXCEPT ![p] = FALSE]
    /\ toClient' = [toClient EXCEPT ![p] = <<>>]

(* The connection is lost, or LM Studio ends the channel: it then discards *)
(* the session for the client.                                             *)
ChannelLost(p) ==
    /\ channel[p]
    /\ ChannelEnds(p)
    /\ toPlugin' = [toPlugin EXCEPT ![p] = Append(@, <<"discardSession">>)]
    /\ UNCHANGED <<multi, signal, pluginVars>>

Outcome(type) == IF type = "toolCallComplete" THEN "resolved" ELSE "rejected"

(* A message of the channel arrives. *)
ClientReceives(p) ==
    /\ toClient[p] # <<>>
    /\ LET msg == Head(toClient[p]) IN
       \/ /\ msg[1] = "sessionReady"
          /\ status' = [status EXCEPT ![p] = IF @ = "initializing" THEN "ready" ELSE @]
          /\ toClient' = [toClient EXCEPT ![p] = Tail(@)]
          /\ UNCHANGED <<poisoned, call, channel>>
       \/ /\ msg[1] \in {"toolCallComplete", "toolCallError"}
          /\ call' = [call EXCEPT ![p][msg[2]] = IF @ = "ongoing" THEN Outcome(msg[1]) ELSE @]
          /\ toClient' = [toClient EXCEPT ![p] = Tail(@)]
          /\ UNCHANGED <<status, poisoned, channel>>
       \/ msg[1] = "channelError" /\ ChannelEnds(p)
    /\ UNCHANGED <<multi, signal, toPlugin, pluginVars>>

-----------------------------------------------------------------------------
(* The plugin.                                                             *)

(* What the plugin sends reaches a client whose channel lasts. *)
SentToClient(p, msg) ==
    toClient' = [toClient EXCEPT ![p] = IF channel[p] THEN Append(@, msg) ELSE @]

(* initSession: the tools provider starts. *)
InitSession(p) ==
    /\ session' = [session EXCEPT ![p] = "open"]
    /\ provider' = [provider EXCEPT ![p] = "running"]
    /\ UNCHANGED <<tools, ongoing, tool>>

(* discardSession: the calls under way are forgotten, not aborted. *)
DiscardSession(p) ==
    /\ session' = [session EXCEPT ![p] = IF @ = "open" THEN "discarded" ELSE @]
    /\ UNCHANGED <<tools, provider, ongoing, tool>>

(* callTool, of a session that is there. *)
RunTool(p, i) ==
    /\ IF session[p] = "open"
       THEN /\ ongoing' = [ongoing EXCEPT ![p] = @ \cup {i}]
            /\ tool' = [tool EXCEPT ![p][i] = "running"]
       ELSE UNCHANGED <<ongoing, tool>>
    /\ UNCHANGED <<session, tools, provider>>

(* abortToolCall, of a call that is under way. *)
AbortToolCall(p, i) ==
    /\ IF session[p] = "open" /\ i \in ongoing[p]
       THEN /\ ongoing' = [ongoing EXCEPT ![p] = @ \ {i}]
            /\ tool' = [tool EXCEPT ![p][i] = "aborted"]
       ELSE UNCHANGED <<ongoing, tool>>
    /\ UNCHANGED <<session, tools, provider>>

(* A message of the plugin's channel arrives. *)
PluginReceives(p) ==
    /\ toPlugin[p] # <<>>
    /\ toPlugin' = [toPlugin EXCEPT ![p] = Tail(@)]
    /\ LET msg == Head(toPlugin[p]) IN
       \/ msg[1] = "initSession" /\ InitSession(p)
       \/ msg[1] = "discardSession" /\ DiscardSession(p)
       \/ msg[1] = "callTool" /\ RunTool(p, msg[2])
       \/ msg[1] = "abortToolCall" /\ AbortToolCall(p, msg[2])
    /\ UNCHANGED <<clientVars, toClient, channel>>

Announced(p) == session[p] = "open"

(* The tools provider returns. *)
ProviderReturns(p) ==
    /\ provider[p] = "running"
    /\ provider' = [provider EXCEPT ![p] = "returned"]
    /\ IF Announced(p)
       THEN /\ SentToClient(p, <<"sessionReady">>)
            /\ tools' = [tools EXCEPT ![p] = TRUE]
       ELSE UNCHANGED <<tools, toClient>>
    /\ UNCHANGED <<clientVars, toPlugin, channel, session, ongoing, tool>>

(* The tools provider throws: the session is gone. *)
ProviderThrows(p) ==
    /\ provider[p] = "running"
    /\ provider' = [provider EXCEPT ![p] = "returned"]
    /\ IF Announced(p)
       THEN /\ SentToClient(p, <<"channelError">>)
            /\ session' = [session EXCEPT ![p] = "discarded"]
       ELSE UNCHANGED <<session, toClient>>
    /\ UNCHANGED <<clientVars, toPlugin, channel, tools, ongoing, tool>>

CallEnds(p, i) == [ongoing EXCEPT ![p] = @ \ {i}]

(* The result of a call is for a session that is there and a call that     *)
(* goes on.                                                                *)
Reported(p, i) == session[p] = "open" /\ i \in ongoing[p]

(* The implementation of a tool returns or throws. *)
ToolReturns(p, i, type) ==
    /\ tool[p][i] \in {"running", "aborted"}
    /\ tool' = [tool EXCEPT ![p][i] = "returned"]
    /\ IF Reported(p, i)
       THEN /\ SentToClient(p, <<type, i>>)
            /\ ongoing' = CallEnds(p, i)
       ELSE UNCHANGED <<ongoing, toClient>>
    /\ UNCHANGED <<clientVars, toPlugin, channel, session, tools, provider>>

ClientStep(p) ==
    \/ ChannelLost(p)
    \/ ClientReceives(p)
    \/ \E i \in Calls : CallTool(p, i) \/ Abort(p, i)

PluginStep(p) ==
    \/ PluginReceives(p)
    \/ ProviderReturns(p) \/ ProviderThrows(p)
    \/ \E i \in Calls, type \in {"toolCallComplete", "toolCallError"} : ToolReturns(p, i, type)

Next == \/ Start \/ Settle \/ DisposeAll
        \/ \E p \in Plugins : ClientStep(p) \/ PluginStep(p)

Spec == Init /\ [][Next]_vars

(* Messages arrive, promises that settled are looked at, and the tools     *)
(* provider returns or throws; tools and the application owe nothing.      *)
Progress ==
    \/ Settle
    \/ \E p \in Plugins : \/ ClientReceives(p) \/ PluginReceives(p)
                         \/ ProviderReturns(p) \/ ProviderThrows(p)

-----------------------------------------------------------------------------
(* Properties.                                                             *)

(* The messages of a wire about call i. *)
Carries(msg, i) == Len(msg) = 2 /\ msg[2] = i
About(wire, i) == {k \in DOMAIN wire : Carries(wire[k], i)}

(* While a session is ready, each call its caller waits for is in exactly  *)
(* one place: on its way to the plugin, under way there, or answered and   *)
(* on its way back; no answer is lost, repeated or given up                *)
(* (ongoingToolCalls of both sides).                                       *)
CallIsSomewhere ==
    \A p \in Plugins, i \in Calls :
        status[p] = "ready" /\ call[p][i] = "ongoing"
            => Cardinality(About(toPlugin[p], i)) + Cardinality(About(toClient[p], i))
                   + (IF i \in ongoing[p] THEN 1 ELSE 0) = 1

(* No caller waits on a session that ended, whatever ended it.             *)
NoneWaitsOnEnded ==
    \A p \in Plugins, i \in Calls : status[p] = "disposed" => call[p][i] # "ongoing"

(* "Tool called before initialization completed. This is unexpected.": a   *)
(* call is on its way only to a session that has its tools, or is gone.    *)
CalledInSession ==
    \A p \in Plugins, i \in Calls :
        <<"callTool", i>> \in Range(toPlugin[p]) /\ session[p] = "open" => tools[p]

(* createUsingPredictionProcess settles, with a session for all plugins or *)
(* for none: one that could not be started leaves no plugin with a         *)
(* session.  A tool whose caller aborted learns of it, unless the session  *)
(* ended.                                                                  *)
Settled ==
    /\ multi # "starting"
    /\ multi \in {"failed", "disposed"} => \A p \in Plugins : session[p] # "open"
    /\ \A p \in Plugins, i \in Calls :
         signal[p][i] /\ tool[p][i] = "running" => status[p] = "disposed"
=============================================================================
