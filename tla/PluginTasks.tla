---------------------------- MODULE PluginTasks ----------------------------
(***************************************************************************)
(* The tasks LM Studio gives to a plugin: setPromptPreprocessor,           *)
(* setPredictionLoopHandler and setGenerator of PluginSelfRegistrationHost,*)
(* each with its channel, its map of tasks and the abort controller of     *)
(* each task, and what a running handler sends through its controller.     *)
(*                                                                         *)
(* LM Studio is not in this repository: it is taken to start tasks, to     *)
(* abort them, and to answer a request for confirmation, or not.  Updates, *)
(* answers and requests of a plugin take the one connection it has.        *)
(***************************************************************************)
EXTENDS Integers, FiniteSets, SequencesExt

CONSTANTS
    Tasks,      \* Task identifiers.
    MaxUpdates  \* Bound: updates sent, with the tasks after the first counted in.

Hosts == {"promptPreprocessor", "predictionLoopHandler", "generator"}
Outcomes == {"returns", "returnsInvalid", "throws", "throwsAbortError", "throwsUndefined"}
Answers == {"complete", "aborted", "error"}

VARIABLES
    host,      \* Which of the three it is.
    \* LM Studio.
    asked,     \* Per task, whether it was started, and aborted then.
    heard,     \* Per task, the updates and answers that came, in order.
    requests,  \* The requests for confirmation that came.
    responses, \* The responses on their way to the plugin.
    \* The connection.
    toPlugin, toStudio,
    \* The plugin.
    tasks,     \* The map of ongoing tasks.
    aborted,   \* Per task, the signal of its abort controller.
    handler,   \* Per task, where its handler is.
    verdict,   \* Per task, what requestConfirmToolCall came to.
    notifying  \* Whether the channel's onMessage still delivers.

studioVars == <<asked, heard, requests, responses>>
wireVars == <<toPlugin, toStudio>>
pluginVars == <<tasks, aborted, handler, verdict, notifying>>
vars == <<host, studioVars, wireVars, pluginVars>>

Sent == {"update", "confirmToolCall"} \cup Answers

TypeOK ==
    /\ host \in Hosts
    /\ asked \in [Tasks -> {"none", "started", "aborted"}]
    /\ heard \in [Tasks -> Seq({"update"} \cup Answers)]
    /\ {requests, responses, tasks} \subseteq SUBSET Tasks
    /\ toPlugin \in Seq({"start", "abort"} \X Tasks)
    /\ toStudio \in Seq(Sent \X Tasks)
    /\ aborted \in [Tasks -> BOOLEAN]
    /\ handler \in [Tasks -> {"none", "running", "confirming", "ended", "threwAtOnce", "unanswered"}]
    /\ verdict \in [Tasks -> {"none", "given", "AbortError"}]
    /\ notifying \in BOOLEAN

Init ==
    /\ host \in Hosts
    /\ asked = [t \in Tasks |-> "none"] /\ heard = [t \in Tasks |-> <<>>]
    /\ requests = {} /\ responses = {}
    /\ toPlugin = <<>> /\ toStudio = <<>>
    /\ tasks = {} /\ aborted = [t \in Tasks |-> FALSE]
    /\ handler = [t \in Tasks |-> "none"] /\ verdict = [t \in Tasks |-> "none"]
    /\ notifying = TRUE

Answered(t) == ToSet(heard[t]) \cap Answers # {}

-----------------------------------------------------------------------------
(* LM Studio.                                                              *)

StudioStarts(t) ==
    /\ asked[t] = "none"
    /\ asked' = [asked EXCEPT ![t] = "started"]
    /\ toPlugin' = Append(toPlugin, <<"start", t>>)
    /\ UNCHANGED <<host, heard, requests, responses, toStudio, pluginVars>>

StudioAborts(t) ==
    /\ asked[t] = "started" /\ ~Answered(t)
    /\ asked' = [asked EXCEPT ![t] = "aborted"]
    /\ toPlugin' = Append(toPlugin, <<"abort", t>>)
    /\ UNCHANGED <<host, heard, requests, responses, toStudio, pluginVars>>

(* The user allows or denies the tool call. *)
StudioResponds(t) ==
    /\ t \in requests
    /\ requests' = requests \ {t}
    /\ responses' = responses \cup {t}
    /\ UNCHANGED <<host, asked, heard, wireVars, pluginVars>>

StudioReceives ==
    /\ toStudio # <<>>
    /\ toStudio' = Tail(toStudio)
    /\ LET msg == Head(toStudio) IN
       IF msg[1] = "confirmToolCall"
       THEN requests' = requests \cup {msg[2]} /\ UNCHANGED heard
       ELSE heard' = [heard EXCEPT ![msg[2]] = Append(@, msg[1])] /\ UNCHANGED requests
    /\ UNCHANGED <<host, asked, responses, toPlugin, pluginVars>>

-----------------------------------------------------------------------------
(* Messages to the plugin.                                                 *)

(* A handler that throws before it returns its promise throws in the       *)
(* listener, and the channel delivers nothing anymore.                     *)
StartTask(t) ==
    /\ tasks' = tasks \cup {t}
    /\ \/ handler' = [handler EXCEPT ![t] = "running"] /\ UNCHANGED notifying
       \/ handler' = [handler EXCEPT ![t] = "threwAtOnce"] /\ notifying' = FALSE
    /\ UNCHANGED <<aborted, verdict, toStudio>>

(* Mutant: the plugin answers the abort itself. *)
AbortTaskAnswered(t) ==
    /\ tasks' = tasks \ {t}
    /\ aborted' = [aborted EXCEPT ![t] = @ \/ t \in tasks]
    /\ handler' = [handler EXCEPT ![t] = IF @ = "confirming" THEN "running" ELSE @]
    /\ verdict' = [verdict EXCEPT ![t] = IF handler[t] = "confirming" THEN "AbortError" ELSE @]
    /\ toStudio' = IF t \in tasks THEN Append(toStudio, <<"aborted", t>>) ELSE toStudio
    /\ UNCHANGED notifying

(* A task that is there is aborted and forgotten; a handler that waits for *)
(* a confirmation goes on with an AbortError.                              *)
AbortTask(t) ==
    /\ tasks' = tasks \ {t}
    /\ aborted' = [aborted EXCEPT ![t] = @ \/ t \in tasks]
    /\ IF t \in tasks /\ handler[t] = "confirming"
       THEN /\ handler' = [handler EXCEPT ![t] = "running"]
            /\ verdict' = [verdict EXCEPT ![t] = "AbortError"]
       ELSE UNCHANGED <<handler, verdict>>
    /\ UNCHANGED <<toStudio, notifying>>

PluginReceives ==
    /\ notifying /\ toPlugin # <<>>
    /\ toPlugin' = Tail(toPlugin)
    /\ LET msg == Head(toPlugin) IN
       \/ msg[1] = "start" /\ StartTask(msg[2])
       \/ msg[1] = "abort" /\ AbortTask(msg[2])
    /\ UNCHANGED <<host, studioVars>>

-----------------------------------------------------------------------------
(* A running handler.                                                      *)

Updates == Len(SelectSeq(toStudio, LAMBDA m : m[1] = "update"))
             + MapThenSumSet(LAMBDA t : Len(SelectSeq(heard[t], LAMBDA m : m = "update")), Tasks)

MaySend(t) == handler[t] = "running" /\ Updates + Cardinality({u \in Tasks : asked[u] # "none"}) <= MaxUpdates

(* A processing controller sends an update, by an rpc nobody waits for.    *)
HandleUpdate(t) == host # "generator" /\ toStudio' = Append(toStudio, <<"update", t>>)

(* A generator's controller sends a fragment or a report of a tool call.   *)
SendGenerated(t) == host = "generator" /\ toStudio' = Append(toStudio, <<"update", t>>)

Update(t) ==
    /\ MaySend(t)
    /\ HandleUpdate(t) \/ SendGenerated(t)
    /\ UNCHANGED <<host, studioVars, toPlugin, pluginVars>>

(* requestConfirmToolCall, which a generator's controller has not: the     *)
(* request is sent even when the signal is aborted.                        *)
RequestConfirmToolCall(t) ==
    /\ host # "generator"
    /\ handler[t] = "running" /\ verdict[t] = "none"
    /\ toStudio' = Append(toStudio, <<"confirmToolCall", t>>)
    /\ IF aborted[t]
       THEN verdict' = [verdict EXCEPT ![t] = "AbortError"] /\ UNCHANGED handler
       ELSE handler' = [handler EXCEPT ![t] = "confirming"] /\ UNCHANGED verdict
    /\ UNCHANGED <<host, studioVars, toPlugin, tasks, aborted, notifying>>

(* The response arrives: it is of use to a handler that waits for it.      *)
Confirmed(t) ==
    /\ t \in responses
    /\ responses' = responses \ {t}
    /\ IF handler[t] = "confirming"
       THEN /\ handler' = [handler EXCEPT ![t] = "running"]
            /\ verdict' = [verdict EXCEPT ![t] = "given"]
       ELSE UNCHANGED <<handler, verdict>>
    /\ UNCHANGED <<host, asked, heard, requests, wireVars, tasks, aborted, notifying>>

(* What the promise of a handler is answered with.  A value thrown that    *)
(* has no name makes the answer itself fail.                               *)
Caught(outcome) == CASE outcome = "throwsAbortError" -> <<"aborted">>
                     [] outcome = "throws" -> <<"error">>
                     [] outcome = "throwsUndefined" -> <<>>

Preprocessed(outcome) == CASE outcome = "returns" -> <<"complete">>
                           [] outcome = "returnsInvalid" -> <<"error">>
                           [] OTHER -> Caught(outcome)

LoopHandled(outcome) == IF outcome \in {"returns", "returnsInvalid"} THEN <<"complete">>
                        ELSE Caught(outcome)

Generated(outcome) == IF outcome \in {"returns", "returnsInvalid"} THEN <<"complete">>
                      ELSE Caught(outcome)

AnswerTo(outcome) == CASE host = "promptPreprocessor" -> Preprocessed(outcome)
                       [] host = "predictionLoopHandler" -> LoopHandled(outcome)
                       [] host = "generator" -> Generated(outcome)

Forgotten(t, outcome) == tasks \ {t}

HandlerEnds(t, outcome) ==
    /\ handler[t] = "running"
    /\ handler' = [handler EXCEPT ![t] = IF AnswerTo(outcome) = <<>> THEN "unanswered" ELSE "ended"]
    /\ toStudio' = toStudio \o [i \in DOMAIN AnswerTo(outcome) |-> <<AnswerTo(outcome)[i], t>>]
    /\ tasks' = Forgotten(t, outcome)
    /\ UNCHANGED <<host, studioVars, toPlugin, aborted, verdict, notifying>>

HandlerStep(t) ==
    \/ Update(t) \/ RequestConfirmToolCall(t) \/ Confirmed(t)
    \/ \E outcome \in Outcomes : HandlerEnds(t, outcome)

Next == \/ StudioReceives \/ PluginReceives
        \/ \E t \in Tasks : \/ StudioStarts(t) \/ StudioAborts(t) \/ StudioResponds(t)
                            \/ HandlerStep(t)

Spec == Init /\ [][Next]_vars

(* Messages arrive and handlers that wait for nothing come to an end; the  *)
(* user need not answer.                                                   *)
Progress ==
    \/ StudioReceives \/ PluginReceives
    \/ \E t \in Tasks : Confirmed(t) \/ \E outcome \in Outcomes : HandlerEnds(t, outcome)

-----------------------------------------------------------------------------
(* Properties.                                                             *)

(* The map has the tasks an abort can still reach: those under way that    *)
(* were not aborted, and those lost to a handler that threw at once; a     *)
(* task that ended leaves nothing behind (tasks of the three hosts).       *)
TasksAreAbortable ==
    tasks = {t \in Tasks : handler[t] \in {"running", "confirming", "threwAtOnce"} /\ ~aborted[t]}

(* LM Studio hears of a task once how it ended, and that last: no update   *)
(* of the task comes after its answer (channel.send, handleUpdate).        *)
AnswerIsLast ==
    \A t \in Tasks : \A i \in DOMAIN heard[t] : heard[t][i] \in Answers => i = Len(heard[t])

(* A confirmation that comes after the abort is of no effect: a request    *)
(* that ended in an AbortError stays so (requestConfirmToolCall).          *)
AbortIsFinal == [][\A t \in Tasks : verdict[t] = "AbortError" => verdict'[t] = "AbortError"]_vars

(* A task that is aborted is answered, unless its handler failed with      *)
(* something that has no name, or one threw at once and stopped the        *)
(* channel's deliveries (the three hosts).                                 *)
Settled ==
    \A t \in Tasks :
        asked[t] = "aborted" => Answered(t) \/ handler[t] = "unanswered" \/ ~notifying
=============================================================================
