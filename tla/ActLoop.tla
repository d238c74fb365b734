------------------------------- MODULE ActLoop -------------------------------
(***************************************************************************)
(* One call of act(): the rounds of internalAct, the queue its tool calls  *)
(* run in, and the callbacks of the application that may take their time   *)
(* (guardToolCall, handleInvalidToolRequest, the tools) while the model    *)
(* goes on generating.                                                     *)
(*                                                                         *)
(* The prediction itself is a channel (PortCalls has it): here it is what  *)
(* the channel delivers, in the order the model generates it.              *)
(***************************************************************************)
EXTENDS Integers, FiniteSets, SequencesExt

CONSTANTS
    MaxCalls,             \* Bound: tool calls the model starts in all.
    MaxPredictionRounds   \* The option of this name, zero when not given.

ASSUME ActLoopAssumption == MaxCalls \in Nat \ {0} /\ MaxPredictionRounds \in Nat

Call == 0..(MaxCalls - 1)

VARIABLES
    allowParallelToolExecution, \* The option of this name.
    hasGuard,            \* Whether guardToolCall is given.
    act,                 \* What became of the promise of act().
    aborted,             \* Whether abortController has aborted.
    predictionsPerformed,
    currentCallId,
    hasCalledUnimplementedTool,
    chat,                \* The messages added: who wrote it, about which calls.
    calls,               \* Where each call stands.
    prediction,          \* Where the prediction of the round stands.
    isGeneratingToolCall,
    toolCallRequests,    \* The requests of the round.
    nextToolCallIndex,
    index,               \* The toolCallIndex each request captured.
    toolCallResults,     \* The calls with a result in the round, as they came.
    queue, executing, poisoned,  \* The FIFOQueue of the round.
    announced,           \* onToolCallRequestEnd and -Failure calls, per call id.
    reportedAs           \* The call id its result was reported under.

options == <<allowParallelToolExecution, hasGuard>>
actVars == <<options, act, aborted, predictionsPerformed, currentCallId, hasCalledUnimplementedTool, chat>>
requestVars == <<prediction, isGeneratingToolCall, toolCallRequests>>
resultVars == <<nextToolCallIndex, toolCallResults>>
queueVars == <<queue, executing, poisoned>>
roundVars == <<requestVars, resultVars, queueVars>>
seenVars == <<announced, reportedAs>>
vars == <<actVars, calls, index, roundVars, seenVars>>

Message == [role : {"assistant", "tool"}, calls : SeqOf(Call, MaxCalls)]

TypeOK ==
    /\ act \in {"running", "resolved", "rejected"}
    /\ options \in BOOLEAN \X BOOLEAN
    /\ {aborted, hasCalledUnimplementedTool, isGeneratingToolCall, executing, poisoned} \subseteq BOOLEAN
    /\ predictionsPerformed \in 0..(MaxCalls + 1)
    /\ currentCallId \in -1..(MaxCalls - 1)
    /\ chat \in Seq(Message)
    /\ calls \in [Call -> {"none", "generating", "dropped", "handling", "handlingUnparsed", "queued",
                           "guarding", "executing", "answered", "done", "failed"}]
    /\ prediction \in {"none", "generating", "failed", "ended", "appended", "over"}
    /\ {toolCallRequests, toolCallResults, queue} \subseteq SeqOf(Call, MaxCalls)
    /\ nextToolCallIndex \in 0..(2 * MaxCalls)
    /\ index \in [Call -> 0..(2 * MaxCalls)]
    /\ announced \in [Call -> Nat]
    /\ reportedAs \in [Call -> Call \cup {-1}]

Init ==
    /\ allowParallelToolExecution \in BOOLEAN /\ hasGuard \in BOOLEAN
    /\ act = "running" /\ aborted = FALSE /\ predictionsPerformed = 0 /\ currentCallId = -1
    /\ hasCalledUnimplementedTool = FALSE /\ chat = <<>>
    /\ calls = [c \in Call |-> "none"] /\ index = [c \in Call |-> 0]
    /\ prediction = "none" /\ isGeneratingToolCall = FALSE /\ toolCallRequests = <<>>
    /\ nextToolCallIndex = 0 /\ toolCallResults = <<>>
    /\ queue = <<>> /\ executing = FALSE /\ poisoned = FALSE
    /\ announced = [c \in Call |-> 0] /\ reportedAs = [c \in Call |-> -1]

-----------------------------------------------------------------------------
(* Rejecting, aborting and the queue.                                      *)

(* finalReject; only the first settlement of act counts. *)
ActRejects == act' = IF act = "running" THEN "rejected" ELSE act

(* The listeners of abortController: queued calls are rejected, and the    *)
(* prediction is asked to stop, which the model may take its time to do.   *)
Abort(failing) ==
    /\ aborted' = TRUE
    /\ calls' = [c \in Call |-> IF c \in failing \cup ToSet(queue) THEN "failed" ELSE calls[c]]
    /\ queue' = <<>>
    /\ IF failing \cup ToSet(queue) # {} THEN ActRejects ELSE UNCHANGED act

(* The first thing a task of the queue does. *)
Started == IF hasGuard THEN "guarding" ELSE "executing"

(* Mutant: only the calls that wait count. *)
queueNotEmpty == queue # <<>>

needsQueueing == executing \/ queue # <<>>

(* Mutant: the abort signal is not looked at before the task. *)
RunInQueueUnchecked(c) ==
    /\ ~poisoned
    /\ allowParallelToolExecution \/ ~needsQueueing
    /\ calls' = [calls EXCEPT ![c] = Started]
    /\ executing' = ~allowParallelToolExecution
    /\ UNCHANGED <<act, queue, poisoned>>

(* runInQueue of either queue. *)
RunInQueue(c) ==
    \/ /\ aborted \/ poisoned
       /\ calls' = [calls EXCEPT ![c] = "failed"]
       /\ ActRejects
       /\ UNCHANGED queueVars
    \/ /\ ~aborted /\ ~poisoned
       /\ allowParallelToolExecution \/ ~needsQueueing
       /\ calls' = [calls EXCEPT ![c] = Started]
       /\ executing' = ~allowParallelToolExecution
       /\ UNCHANGED <<act, queue, poisoned>>
    \/ /\ ~aborted /\ ~poisoned
       /\ ~allowParallelToolExecution /\ needsQueueing
       /\ calls' = [calls EXCEPT ![c] = "queued"]
       /\ queue' = Append(queue, c)
       /\ UNCHANGED <<act, executing, poisoned>>

(* Mutant: the next task stays in the queue. *)
TaskEndsPeeking(c, state) ==
    /\ calls' = [d \in Call |-> IF queue # <<>> /\ d = Head(queue) THEN Started
                                ELSE IF d = c THEN state ELSE calls[d]]
    /\ executing' = (queue # <<>>)
    /\ UNCHANGED <<queue, poisoned>>

(* A task ends well, and processQueue starts the next one. *)
TaskEnds(c, state) ==
    /\ IF queue = <<>>
       THEN /\ calls' = [calls EXCEPT ![c] = state]
            /\ executing' = FALSE
            /\ UNCHANGED queue
       ELSE /\ calls' = [calls EXCEPT ![c] = state, ![Head(queue)] = Started]
            /\ queue' = Tail(queue)
            /\ UNCHANGED executing
    /\ UNCHANGED poisoned

(* A task throws: nothing more runs in a FIFOQueue. *)
TaskThrows(c) ==
    /\ calls' = [d \in Call |-> IF d = c \/ d \in ToSet(queue) THEN "failed" ELSE calls[d]]
    /\ queue' = <<>> /\ executing' = FALSE
    /\ poisoned' = ~allowParallelToolExecution
    /\ ActRejects

-----------------------------------------------------------------------------
(* The rounds.                                                             *)

(* Whether the prediction of this round may use tools. *)
allowTools == MaxPredictionRounds = 0 \/ predictionsPerformed + 1 < MaxPredictionRounds

(* The first half of the loop's body, up to predictImpl. *)
StartRound ==
    IF aborted
    THEN act' = "rejected" /\ prediction' = "over"
         /\ UNCHANGED <<isGeneratingToolCall, toolCallRequests, resultVars, queueVars>>
    ELSE /\ prediction' = "generating" /\ isGeneratingToolCall' = FALSE
         /\ toolCallRequests' = <<>> /\ toolCallResults' = <<>> /\ nextToolCallIndex' = 0
         /\ queue' = <<>> /\ executing' = FALSE /\ poisoned' = FALSE
         /\ UNCHANGED act

Begin ==
    /\ prediction = "none"
    /\ StartRound
    /\ UNCHANGED <<options, aborted, predictionsPerformed, currentCallId,
                   hasCalledUnimplementedTool, chat, calls, index, seenVars>>

(* handleToolCallGenerationStart *)
ToolCallGenerationStart ==
    /\ prediction = "generating" /\ ~isGeneratingToolCall
    /\ allowTools
    /\ currentCallId < MaxCalls - 1
    /\ currentCallId' = currentCallId + 1
    /\ isGeneratingToolCall' = TRUE
    /\ calls' = [calls EXCEPT ![currentCallId'] = "generating"]
    /\ UNCHANGED <<options, act, aborted, predictionsPerformed, hasCalledUnimplementedTool,
                   chat, index, prediction, toolCallRequests, resultVars, queueVars, seenVars>>

(* handleToolCallGenerationEnd: the request is handed to                   *)
(* handleInvalidToolRequest when there is no such tool or its parameters   *)
(* are wrong, and to the queue otherwise.                                  *)
ToolCallGenerationEnd ==
    /\ prediction = "generating" /\ isGeneratingToolCall
    /\ isGeneratingToolCall' = FALSE
    /\ toolCallRequests' = Append(toolCallRequests, currentCallId)
    /\ index' = [index EXCEPT ![currentCallId] = nextToolCallIndex]
    /\ nextToolCallIndex' = nextToolCallIndex + 1
    /\ announced' = [announced EXCEPT ![currentCallId] = @ + 1]
    /\ \/ /\ calls' = [calls EXCEPT ![currentCallId] = "handling"]
          /\ UNCHANGED <<act, queueVars>>
       \/ RunInQueue(currentCallId)
    /\ UNCHANGED <<options, aborted, predictionsPerformed, currentCallId,
                   hasCalledUnimplementedTool, chat, prediction, toolCallResults, reportedAs>>

(* handleToolCallGenerationFailed *)
ToolCallGenerationFailed ==
    /\ prediction = "generating" /\ isGeneratingToolCall
    /\ isGeneratingToolCall' = FALSE
    /\ announced' = [announced EXCEPT ![currentCallId] = @ + 1]
    /\ calls' = [calls EXCEPT ![currentCallId] = "handlingUnparsed"]
    /\ UNCHANGED <<actVars, index, prediction, toolCallRequests, resultVars, queueVars,
                   reportedAs>>

(* handleError: the channel is lost or the server reports an error.        *)
PredictionFails ==
    /\ prediction = "generating"
    /\ prediction' = "failed"
    /\ isGeneratingToolCall' = FALSE
    /\ IF isGeneratingToolCall
       THEN /\ announced' = [announced EXCEPT ![currentCallId] = @ + 1]
            /\ calls' = [calls EXCEPT ![currentCallId] = "dropped"]
       ELSE UNCHANGED <<announced, calls>>
    /\ ActRejects
    /\ UNCHANGED <<options, aborted, predictionsPerformed, currentCallId,
                   hasCalledUnimplementedTool, chat, index, toolCallRequests, resultVars,
                   queueVars, reportedAs>>

(* handlePredictionEnd *)
PredictionEnds ==
    /\ prediction = "generating" /\ ~isGeneratingToolCall
    /\ prediction' = "ended"
    /\ UNCHANGED <<actVars, calls, index, isGeneratingToolCall, toolCallRequests, resultVars,
                   queueVars, seenVars>>

(* The assistant message; it is added even when act has been rejected      *)
(* meanwhile.                                                              *)
AppendAssistantMessage ==
    /\ prediction = "ended"
    /\ prediction' = "appended"
    /\ chat' = Append(chat, [role |-> "assistant", calls |-> toolCallRequests])
    /\ UNCHANGED <<options, act, aborted, predictionsPerformed, currentCallId,
                   hasCalledUnimplementedTool, calls, index, isGeneratingToolCall,
                   toolCallRequests, resultVars, queueVars, seenVars>>

(* Mutant: the invalid requests are not waited for. *)
PendingTasks == {c \in Call : calls[c] \in {"queued", "guarding", "executing"}}

(* Calls whose promise is not settled. *)
Pending == {c \in Call : calls[c] \in {"handling", "handlingUnparsed", "queued", "guarding", "executing"}}

(* Mutant: the results are not sorted. *)
ResultsAsTheyCame == toolCallResults

(* The sort by index. *)
ResultsInOrder ==
    LET order == CHOOSE p \in SetToSeqs(DOMAIN toolCallResults) :
                     \A i, j \in DOMAIN p : i < j =>
                         index[toolCallResults[p[i]]] <= index[toolCallResults[p[j]]]
    IN  [i \in DOMAIN toolCallResults |-> toolCallResults[order[i]]]

(* The second half of the loop's body, once all calls are settled, and the *)
(* start of the next round if there is one.                                *)
RoundEnds ==
    /\ act = "running"
    /\ prediction = "appended" /\ Pending = {}
    /\ predictionsPerformed' = predictionsPerformed + 1
    /\ chat' = IF toolCallResults = <<>> THEN chat
               ELSE Append(chat, [role |-> "tool", calls |-> ResultsInOrder])
    /\ IF /\ toolCallResults # <<>>
          /\ MaxPredictionRounds = 0 \/ predictionsPerformed' < MaxPredictionRounds
          /\ ~hasCalledUnimplementedTool
       THEN StartRound
       ELSE /\ act' = "resolved" /\ prediction' = "over"
            /\ UNCHANGED <<isGeneratingToolCall, toolCallRequests, resultVars, queueVars>>
    /\ UNCHANGED <<options, aborted, currentCallId, hasCalledUnimplementedTool, calls, index,
                   seenVars>>

-----------------------------------------------------------------------------
(* internalHandleInvalidToolCallRequest, once the handler has settled.     *)

(* A replacement is reported under the call that is current by now. *)
HandlerReplies(c) ==
    /\ calls[c] = "handling"
    /\ calls' = [calls EXCEPT ![c] = "answered"]
    /\ toolCallResults' = Append(toolCallResults, c)
    /\ nextToolCallIndex' = nextToolCallIndex + 1
    /\ reportedAs' = [reportedAs EXCEPT ![c] = currentCallId]
    /\ UNCHANGED <<actVars, index, requestVars, queueVars, announced>>

(* No replacement, or one without a request to answer. *)
HandlerDeclines(c) ==
    /\ calls[c] \in {"handling", "handlingUnparsed"}
    /\ calls' = [calls EXCEPT ![c] = "done"]
    /\ UNCHANGED <<actVars, index, roundVars, seenVars>>

HandlerThrows(c) ==
    /\ calls[c] \in {"handling", "handlingUnparsed"}
    /\ Abort({c})
    /\ UNCHANGED <<options, predictionsPerformed, currentCallId, hasCalledUnimplementedTool,
                   chat, index, requestVars, resultVars, executing, poisoned, seenVars>>

(* guardToolCall lets the call go on. *)
GuardAllows(c) ==
    /\ calls[c] = "guarding"
    /\ calls' = [calls EXCEPT ![c] = "executing"]
    /\ UNCHANGED <<actVars, index, roundVars, seenVars>>

(* The call gets a result: of the tool, or the reason the guard denied it. *)
CallAnswered(c) ==
    /\ calls[c] \in {"guarding", "executing"}
    /\ toolCallResults' = Append(toolCallResults, c)
    /\ reportedAs' = [reportedAs EXCEPT ![c] = c]
    /\ TaskEnds(c, "answered")
    /\ UNCHANGED <<actVars, index, requestVars, nextToolCallIndex, announced>>

ToolUnimplemented(c) ==
    /\ calls[c] = "executing"
    /\ hasCalledUnimplementedTool' = TRUE
    /\ TaskEnds(c, "done")
    /\ UNCHANGED <<options, act, aborted, predictionsPerformed, currentCallId, chat, index,
                   requestVars, resultVars, seenVars>>

(* The tool throws, or the guard does or decides nothing. *)
CallThrows(c) ==
    /\ calls[c] \in {"guarding", "executing"}
    /\ TaskThrows(c)
    /\ UNCHANGED <<options, aborted, predictionsPerformed, currentCallId,
                   hasCalledUnimplementedTool, chat, index, requestVars, resultVars, seenVars>>

(* The application aborts through the signal it gave. *)
UserAborts ==
    /\ ~aborted
    /\ Abort({})
    /\ UNCHANGED <<options, predictionsPerformed, currentCallId, hasCalledUnimplementedTool,
                   chat, index, requestVars, resultVars, executing, poisoned, seenVars>>

-----------------------------------------------------------------------------
ModelStep ==
    \/ ToolCallGenerationStart \/ ToolCallGenerationEnd \/ ToolCallGenerationFailed
    \/ PredictionFails \/ PredictionEnds

LoopStep == Begin \/ AppendAssistantMessage \/ RoundEnds

HandlerStep(c) == HandlerReplies(c) \/ HandlerDeclines(c) \/ HandlerThrows(c)

TaskStep(c) == GuardAllows(c) \/ CallAnswered(c) \/ ToolUnimplemented(c) \/ CallThrows(c)

Next ==
    \/ ModelStep
    \/ LoopStep
    \/ UserAborts
    \/ \E c \in Call : HandlerStep(c) \/ TaskStep(c)

Spec == Init /\ [][Next]_vars
-----------------------------------------------------------------------------
(* Properties.                                                             *)

Contract == INSTANCE ActContract

(* The chat keeps the contract of act(): requests and answers alternate,   *)
(* answers in the order of the requests although the calls end in any      *)
(* order, and no more rounds than allowed (internalAct's loop).            *)
KeepsContract == Contract!Spec

(* Every request that got a result is answered in the chat, and no other,  *)
(* before the model goes on (the wait for toolCallPromises).               *)
AnswersInChat ==
    \A i \in DOMAIN chat :
        chat[i].role = "assistant" /\ (i < Len(chat) \/ act = "resolved")
            => {c \in ToSet(chat[i].calls) : calls[c] = "answered"}
                   = IF i < Len(chat) THEN ToSet(chat[i + 1].calls) ELSE {}

(* Each onToolCallRequestStart is paired with exactly one                  *)
(* onToolCallRequestEnd or -Failure, also when the prediction fails in the *)
(* middle (the documentation of onToolCallRequestStart).                   *)
Paired ==
    \A c \in Call :
        /\ announced[c] <= 1
        /\ c < currentCallId \/ (c = currentCallId /\ ~isGeneratingToolCall) => announced[c] = 1

Running == {c \in Call : calls[c] \in {"guarding", "executing"}}

(* Without allowParallelToolExecution one tool runs at a time, and tools   *)
(* run in the order they were requested (FIFOQueue).                       *)
OneAtATimeInOrder ==
    ~allowParallelToolExecution =>
        /\ Cardinality(Running) <= 1
        /\ \A c \in Running, d \in ToSet(queue) : c < d

(* act() ends with the model's answer unless a tool has no implementation  *)
(* (maxPredictionRounds: the last prediction is given no tools).           *)
EndsWithAnswer ==
    act = "resolved" /\ ~hasCalledUnimplementedTool => Last(chat).role = "assistant"

(* Requests, results, answers and callbacks of act() agree: every request  *)
(* with a result is answered in the chat, starts and ends are paired, and  *)
(* act() ends with the model's answer.                                     *)
ChatAgrees == AnswersInChat /\ Paired /\ EndsWithAnswer

Failed == {c \in Call : calls[c] = "failed"}

(* No tool starts after an abort, nor, without parallel execution, after a *)
(* tool failed (the listener of runInQueue, the poisoned queue).           *)
NothingStartsAfterFailure ==
    [][aborted \/ (~allowParallelToolExecution /\ Failed' # {}) => Running' \subseteq Running]_vars

(* The prediction ends, and handlers and callbacks settle.                 *)
Progress ==
    \/ LoopStep \/ ToolCallGenerationEnd \/ ToolCallGenerationFailed
    \/ PredictionEnds \/ PredictionFails
    \/ \E c \in Call : HandlerStep(c) \/ TaskStep(c)

(* act() settles, and every queued call has run or been rejected, even     *)
(* after act() has failed.                                                 *)
Settled == act # "running" /\ \A c \in Call : calls[c] # "queued"

-----------------------------------------------------------------------------
(* What the documentation says and the code does not do.                   *)

(* "If you need to match up different stages of the tool call, please use  *)
(* the `callId`": a result is reported under the id of its own call.       *)
ReportedUnderItsId == \A c \in Call : reportedAs[c] \in {-1, c}
=============================================================================
